# LivDot: TLA+ models and proofs

LivDot sells tickets to live-streamed events. A Go API (`cmd/api`) and a worker (`cmd/worker`) share one
PostgreSQL database; Redis holds a lock, rate-limit windows and cached sessions; a payment provider charges
buyers, refunds them, pays hosts and reports by webhook. What a process holds in memory is lost when it dies, and no
transaction spans the database and the provider: every multi-step operation can be cut in two, raced, repeated or delivered late. That is
what this project models. Line numbers are those of the source files at this commit.

To check: `tlc -config <cfg> <MC module>` for each run of section 5, `tlapm <module>` for each `*Proofs.tla`.

## 1. Inventory

| Component | State | Operations | What is hard | Correct when |
|---|---|---|---|---|
| ticketing (`internal/ticketing`) | `event_purchases`, `tickets`, `event_members`, the two counters of `events` | Purchase (reserve, retry, charge), three charge callbacks, the expiry sweep | reads before the transaction, one row reused by every attempt, time, late callbacks | never oversold; access is paid for; a slot comes back once; nothing stays open |
| events (`internal/events`) | `events` | Create, Update, Cancel, List | read, merge, write back while others move the row; pages over changing rows | the new total keeps the slots taken; a started event is left alone; a list skips nothing that stood still |
| finance (`internal/finance`) | `event_refunds`, `event_payouts`, `ledger_entries` | RefundExpiredPurchase, RefundEvent, ProcessPendingRefunds, AccruePayout | a provider call between two transactions, a lease, several callers of one row | rows, ledger and provider agree; a refund opened completes; a payout is covered |
| streaming (`internal/streaming`) | `event_streams`, `stream_session_access_logs`, `events.status` | Start, Join, End, Fail | End and Fail go on to money after their own transaction; Join acts on a membership it read | an event ends once; who joins has access |
| webhooks (`internal/webhooks`) | `webhook_events` | Process | recorded before it is handled | applied at most once |
| notifications (`internal/notifications`) | `email_notifications` | Enqueue, DeliverPending | a lease that its worker outlives, lost signals | no two live claims; delivered means sent; every email is tried |
| worker (`cmd/worker`) | none durable | sweep, refunds, email | start-up lock, fairness of the loop | as its three jobs |
| lock (`internal/infra/lock`) | one Redis key | Acquire, Refresh, Release | the TTL passes inside the critical section | one holder; nobody frees another's lock |
| rate limiter (`internal/infra/ratelimit`) | a token bucket and two window counters per key | Allow | window boundary, stamps older than the last one seen | bursts are smoothed; the quota counts the window before |
| authentication (`internal/authentication`) | accounts and profiles, sessions in PostgreSQL, a cache in Redis | Register, SignIn, Authenticate, Revoke; Rotate and RevokeAll of the store | sign-ups that race, rotations that race, a cache filled after the revocation | a role is the account's; one live session per sign-in; a revoked session ends in the end |
| crews, pagination | profiles; a cursor | UpdateProfile, List | pages over changing rows | as the list of events |
| health, OpenAPI, configuration, commands | nothing | wiring | nothing a model would find | |

Interactions. `Purchase` calls the provider between two transactions. The provider calls `webhooks`, which calls
`ticketing.Handle`. A late payment makes ticketing call `finance.RefundExpiredPurchase`. `streaming.Fail` calls
`finance.RefundEvent`, `streaming.End` calls `finance.AccruePayout`. Every domain queues email in its own
transaction and the worker delivers it; the worker also runs the sweep and the pending refunds.

The hazards, each at its line, are in PROJECT.json.

## 2. Modules

| Components | Specification | Implements | Instance | Proofs |
|---|---|---|---|---|
| ticketing, with what touches its rows | `Ticketing` | `Admission` and `Repayment`, by `TicketingPromises` | `MCTicketing` | `TicketingProofs` |
| webhooks | `Webhooks` | `Inbox` | `MCWebhooks` | `WebhooksProofs` |
| refunds of finance | `Refunds` | `Repayment` | `MCRefunds` | `RefundsProofs` |
| payout of finance | `Payout` | | `MCPayout` | `PayoutProofs` |
| notifications, worker | `Notifications` | | `MCNotifications` | `PlatformProofs` |
| streaming | `Streaming` | | `MCStreaming` | `StreamingProofs` |
| lock, start of the worker | `WorkerLock` | | `MCWorkerLock` | `PlatformProofs` |
| authentication | `Sessions` | | `MCSessions` | `SessionsProofs` |
| events, with the paged list `Listing` | `Events` | | `MCEvents` | `EventsProofs` |
| rate limiter | `RateLimit` | | `MCRateLimit` | `PlatformProofs` |

A database transaction is one action; a read that a later step acts on is a step
of its own, and so is every provider call. Operators whose comment starts with "Mutation of" are not part of any
specification: each is a plausible bug that one of the properties was seen to catch.

`PlatformProofs` extends three specifications at once - what the domains stand on - so the definitions that every specification has
carry a prefix in two of them: `LockInit`, `LockNext`, `LockSpec` in `WorkerLock`; `QueueInit`, `QueueNext`, `QueueSpec` in `Notifications`.

### Ticketing (`internal/ticketing`, and what its transactions touch)

One event. A row per account, because `event_purchases` is unique on event and user and every attempt reuses it.

| TLA+ | Code |
|---|---|
| `request[r]` | how far `Service.Purchase` is: after the replay check, after `EventForReservation`, after `FindPurchaseByEventAndUser`, before or after the provider call |
| `purchase[u]`, `ticket[u]`, `member[u]`, `refund[u]` | the rows. `temporarily_reserved` is `held` before `reservation_expires_at` and `lapsed` from then on |
| `stage`, `total`, `available` | `events.status` (with the stream's failure), `total_tickets`, `available_tickets` |
| `late` | accounts whose callback handler is between `SettlePaid` and `RefundExpiredPurchase` |
| `charge`, `inbox` | external: the provider's charges, and callbacks not yet recorded |
| `Reserve`, `ResetForRetry`, `FailAndRelease`, `HandlePaid`, `ExpireReservations` | the transactions of `ticket_store.go`, with every guard and both outcomes |
| `RefundEvent`, `CreateRefund`, `SettleRefund` | the transactions of finance as this component sees them (in detail: Refunds) |
| `UpdateEvent`, `MoveEvent` | the host: `events.Update`, and Cancel, Start, End, Fail as moves of the stage |
| `Consume`, `LoseWebhook` | Webhooks' promise: a callback is handled at most once and may be lost (proved of Webhooks) |

A replayed key returns what the row holds and changes nothing, so `Purchase` has no step for it. `Abandon` stands for every error
return and death of a request but one: `ReservationUnread` is the failed read of the ticket that `openPurchase` does not treat as an error, so
that a live reservation is passed over and reset (`service.go:261`). `ResetForRetry` accepts `initiated`, so two keys of one account can both reset.
`SetCheckoutURL` writes by purchase id without a guard, as the code does.

### Webhooks (`internal/webhooks`)

`Record`, `Handle`/`HandleFails`/`NobodyHandles`, `MarkProcessed`/`MarkFailed` are the three transactions of
`Service.Process`. `HandleFails` may follow a commit, because an error can be reported after it. `Abort` is a death or
a database error. `Deliver` is external: the provider repeats a delivery at any time, several at once.

### Refunds (`internal/finance`)

The four callers of `settleRefund` - the handler of a late payment, the automatic refund of a failed stream, an admin,
and the worker's retry - run the same three steps (`CreateRefund`, `InitiateRefund`, `SettleRefund`) with different
answers to a conflict or an error: the worker logs and goes on (`GiveUp` = `Advance`), all others return. `lease` and
`overdue` are `locked_at` and which claims outlived it. `Free` are the purchases of amount 0, whose refund row
`event_refunds_amount_positive` refuses. The order of the list and of a batch is left open. While the event is upcoming a
refunded purchase may be bought again (`ResetForRetry`, until `StartStream`): its refund row, ledger entry and idempotency key stay those of the first
payment, so a later refund of it finds a row that is done.

### Payout (`streaming.End`, `finance.AccruePayout`)

`ReadEvent`, `EndStream`, `SumPaid`, `SumRefunded`, `CreatePayout`, `InitiatePayout`, `MarkPayoutPaid`, `RecordLedger`
in the order of the code; payments and refunds settle between any two. The handler of a late payment opens the refund in a transaction
of its own (`RefundExpiredPurchase`), or dies before (`LoseLateRefund`); `late` are the purchases it has in hand. Abstractions: all purchases have one price, so an amount
is a number of purchases. What was bought, refunded and bought again before the stream went live is in `Init`.

### Notifications (`internal/notifications`, the loop and listener of `cmd/worker`)

`Enqueue` is the commit of a producer's transaction; it fills the wake channel of the workers that listen. `Ticker` and
`Wake` are the same claim, by the ticker and by the signal. A `Send` that is refused may still have reached its recipient.

### Streaming (`internal/streaming`)

A request walks through `Service.Start`, `Join`, `End` or `Fail` (`request[r].at`): each read of the event, the membership or the
stream is a step, then the provider's call, then the store's transaction under its guards. `stamp` is the instant read by
`now()` and written later. `settled` records what `End` and `Fail` asked of finance. What other components do to the rows it
reads is `CancelEvent`, `CreateMember` and `RevokeMember`; `room` and `token` are external.

### Events and Listing (`internal/events`, the lists of crews, refunds and payouts)

`ReadForUpdate` and `ReadForCancel` read the row and decide, `Update` and `Cancel` write under the guards of the queries;
in between the row may be sold, resized, started or cancelled. `Update` writes back every column of the row it read, so two
hosts' requests can undo each other's schedule, as in the code. `Listing` is one client that walks a list page by page; its `table` is
instantiated with the upcoming events ordered by start and id. The other three lists differ in key and filter only.
Any schedule counts as one that lies in the future: the clock decides only which are refused.

### Sessions (`internal/authentication`)

`request[r]` is one HTTP request: `issue` between sign-up or sign-in and the session's row, `store`, `fill` and `account`
along `Authenticate`, `signout` and `purge` along a revocation. `FindByTokenHash` returns any row; that one revoked or expired is refused is the session
manager's doing, which `Authenticate` sees as `ErrInactive` (`service.go:203`). The order of the row and the cache entry in a revocation is the
session manager's, a library outside the repository, so `Purge` may come first or last. `login` is a history: the sign-in that a
rotated session goes back to.

### RateLimit (`internal/infra/ratelimit`)

One key. `Stamp` reads the process's clock, `RunTokenBucket` and `RunSlidingWindow` are the two Lua scripts, each atomic and each possibly up
to `MaxDelay` later; `FailOpen` is the middleware that lets a request through when Redis fails. The estimate of the window is
multiplied by the window's length, so that it stays a whole number. Keys expire as their PEXPIRE says. `admitted` is the history of admissions: each
is its stamp and how many had that stamp before it, so that what was admitted between two instants is the size of a set.

### WorkerLock (`internal/infra/lock`, `initialize` of `cmd/worker`)

`owner` and `left` are the key's value and TTL, `clock[w]` how long a worker has waited or been inside. A process that dies takes
its owner token with it, so what it leaves is the token of nobody (`Gone`) until the TTL passes. `AcquireUnheard` is a SETNX whose answer is lost.

### Abstract specifications

- `Admission`: nobody beyond the capacity, nobody let in twice, nobody out again unless the stream failed. Four
  variables, no reservations. The refinement mapping takes the active and revoked memberships, `total_tickets` and the
  failed stage; everything else Ticketing does is a stutter. It is not obvious because the guard that keeps the
  capacity is on `available_tickets` at reservation time, long before a member is let in.
- `Inbox`: a callback is applied at most once, and one given up is never applied later. The mapping computes the fate of
  a callback from its row, the count of applications and whether a delivery still has it in hand.
- `Repayment`: a payment is given up only by paying it back, which was put on record before; of a buyer's payments at most one is
  ever paid back. Two specifications carry the rows of `event_refunds` through another part of the system each, and both
  implement it: the payments are the paid purchases, the refunds the refund rows. It is not obvious in Ticketing because the row of the
  purchase is reopened for every attempt and that of the refund is not, and in Refunds because two transactions with a provider call between them are
  run by four callers at once, over purchases that may be bought again meanwhile.

## 3. Properties

- Ticketing: `SlotsCovered` (no overselling), `ReleaseSucceeds` (no release and no batch of the sweep rolls back),
  `OpenHasReservation`, `AccessMatchesPayment`, `RefundsFollowPayments`, `BackedByCharge` (a payment buys one ticket or one
  refund), `ReceiptMatchesTicket`, `PaidEndsByRefund` (an action property), `OpenPurchaseEnds` (liveness),
  `ImplementsAdmission` and `ImplementsRepayment` (refinements).
- Webhooks: `ProcessedWasApplied`, `ImplementsInbox` (refinement); `AppliedOnce` is proved only.
- Refunds: `RefundedEverywhere`, `MovedIsOnRecord`, `WorkersExclude`, `OpenRefundCompletes` (liveness), `ImplementsRepayment` (refinement).
- Payout: `NoPayoutAfterFailure`, `PayoutCovered`, `PayoutOnRecord`; `OneAccrual` is proved only.
- Notifications: `LeaseExclusive`, `DeliveredWasSent`, `DeliveredIsFinal` (an action property), `QueuedEmailIsTried` (liveness).
- Streaming: `StreamMatchesEvent` (event and stream tell one story), `ViewersAreMembers` (who is let in holds a membership, or
  lost it to the refund of a failed stream meanwhile), `SettlementFollowsOutcome` (finance is asked once, and for what happened),
  `NothingAfterTheEnd` (an action property).
- Events: `HostsMindTheSold` (an action property), `ListingCovers`.
- Sessions: `RolesAgree`, `OneLiveSession` and `RevokedStaysOut` (action properties), `RevokedEnds` (liveness).
- RateLimit: `QuotaCountsThePast` (an action property), `BurstsAreSmoothed`.
- WorkerLock: `StartupExclusive`, `StartsGoOn` (liveness).

Each is stated in words above its definition. `TypeOK` of every specification is proved, and no run repeats it.

## 4. Fairness

- Ticketing: the sweep (the worker's ticker, `cmd/worker/main.go:124-138`, claims oldest first, so every lapsed reservation is in some
  batch) and the passing of time. Buyers, the provider and hosts need never act: `OpenPurchaseEnds` rests on the sweep alone.
- Refunds: a caller that runs goes on, the worker's loop reaches every pending refund, leases run out, and at most `MaxFaults`
  faults happen. Admins need not act.
- Notifications: the ticker, not the signals, claims; a worker that claimed works its batch off; leases and backoff pass;
  at most `MaxCrashes` deaths. No send need succeed and no connection need come up.
- Sessions: a request that resolves a token goes on (`Resolve`), and Redis honours the TTL under which entries are written
  (`CacheExpires`). No sign-out need complete its deletion: `RevokedEnds` rests on the TTL.
- WorkerLock: time passes, a start that waits too long gives up, one that is inside finishes. `Acquire` is strongly fair: the code tries
  at once and then every half second (`cmd/worker/main.go:148-161`), so a start that finds the lock free again and again takes it, though
  others keep taking it in between. Nobody is obliged to start a worker.

But for that one action it is weak fairness: each action stays enabled until it, or something that makes it needless, happens. The other
specifications state none, because only safety is asked of them.

## 5. Runs

| Run (cfg) | Instance | What it shows |
|---|---|---|
| `TicketingRetry` | 1 account, 2 keys, 2 requests, at most 2 tickets, sweep 1; 1.8 M states | every row of one purchase agrees with the others through repeated attempts, late and lost callbacks, refunds and resizes; Repayment is implemented; no deadlock |
| `TicketingRace` | 2 accounts (one without an address), 1 key each, at most 2 tickets, sweep 2; 0.65 M | slots are neither oversold nor unreturnable, Admission is implemented, every open purchase ends |
| `WebhooksOnce` | 2 callbacks (one nobody handles), 3 deliveries; 1.3 k | at most once, as Inbox promises; processed means applied |
| `Refunds` | 1 priced and 1 free purchase, 2 handlers, 2 workers, batch 2, 2 faults; 88 k | refund, ledger and provider agree whoever settles, and no purchase is refunded without its refund, bought again or not; leases exclude; Repayment is implemented; an opened refund completes |
| `PayoutRace` | 3 purchases, 2 requests, symmetric; 7.2 k | the payout is covered, paid as recorded, none after a failure, whatever was bought again before |
| `Notifications` | 2 emails, 2 workers, batch 2, 1 death; 0.43 M | leases exclude, marks are true and final, every email is tried |
| `Streaming` | 2 viewers, 3 requests, a first quarter of one tick, clock up to 2, symmetric; 0.14 M | starts, ends, failures, a cancellation and joins race: one outcome, the money follows it, nobody without a membership gets in |
| `Events` | 2 events, 2 host requests, 2 start times, at most 2 tickets, pages of 1, symmetric; 1.7 M | stale merges never touch the sold or the started; a client of the list misses nothing that stood still |
| `Sessions` | 2 emails, 2 tokens, 2 requests; 0.85 M | roles, rotation, revocation against a cache filled late |
| `RateLimit` | burst 1, quota 2 per window of 2 ticks, stamps up to 1 late, 5 ticks, 2 requests, symmetric; 0.42 M | the quota across window edges, the bucket under late stamps |
| `WorkerLock` | 3 workers, TTL 4, wait 2, 3 faults; 6.8 k | two inside only after a TTL; starts go on; no deadlock |
| `SlotLeak` | the instance of TicketingRetry, without `ReservationUnread` (`ReliableSpec`) | ends in a counterexample: section 7 |

Why these bounds are enough to be worth something. Two requests of one account are needed for a retry that overtakes
another; two accounts for a race for the last slot; capacity 2 for a resize in both directions and a sweep of more than
one. Two accounts with two keys each are out of reach for the exhaustive run (the first instance alone has 1.8 M states); that is what the
theorems, which hold for every number, are for. One priced purchase suffices for the races around
a refund, because callers meet on a row; the free one makes a list of two. Three deliveries are one to
record, one that is a duplicate while the first still runs, and one after it. A single death already yields a
stale lease and a reclaim; a second fault lets the retry fail as well. `CHECK_DEADLOCK FALSE` stands where the system may really stop: two accounts
that both have their ticket after the event (TicketingRace), an event that is over and paid (Payout), the end of the clock (Streaming, RateLimit), events that
are all over (Events).
Two tokens are one rotation or two sign-ins of racing requests; a third would only repeat a rotation. Two host requests are a merge that is stale
by the other's write; two events and pages of one make a list of two pages, in which a reschedule can move a row across the cursor. Three workers
are one inside for too long, one that took over, and a third that must stay out; TTL 4 against a wait of 2 lets a start give up while a dead process
holds the key, as 15 seconds against 5 minutes do. Five ticks hold two window edges and a key that expires.

The batch limits of the sweep, the refunds and the email do not bind in these runs: batches of two, which can fail or be interrupted half-way, and
two handlers that refund at once matter more. `TicketingRace` and `Notifications` with a limit of 1 instead of 2, and `Refunds` with a limit of 1, one handler and no free
purchase (0.65 M, 0.15 M and 0.21 M states), bind it and pass as well; instances with more rows than a batch of two takes do not finish. For safety the theorems
cover every limit. For liveness, that a row beyond a batch comes to be in one is part of the fairness of section 4: the sweep and the claims take the
oldest rows first.

## 6. Theorems

Every safety property and every refinement that a run checks is also proved, for all values of the constants. Assumptions: the named
ASSUME of each module - sets are finite where something in them is counted (accounts, purchases, events, requests in flight), a key has one owner,
model values lie outside the sets they mark, limits are positive, a stamp is late by less than a window, and a bucket refills within
its TTL, the window, less that delay, as it does under the policies of the routes.

- Ticketing (`TicketingProofs`). `SlotsCovered` is not inductive: returning a slot is safe only because an open purchase has a
  reservation that still counts as a slot (`OpenHasReservation`), which survives a refund only because a refund in
  processing is of a paid purchase, never of an open one (`RefundsFollowPayments`), and a paid
  purchase keeps its ticket until then (`AccessMatchesPayment`). `IInv` is their conjunction with `TypeOK`; it is
  preserved by every action (`Invariance`). `ReleaseSucceeds` follows from it by counting: each claimable reservation is an
  occupied slot. `PaidIsFinal` is an action property under the invariant. `ReceiptsAreOfTickets` adds to it that an issued ticket is
  revoked only after the stream failed, when nothing is for sale (`ReceiptFollowsTicket`): a receipt outlives its ticket only there.
  `PaymentsAreBacked` needs that a callback under way reports a payment that was made (`Backed`), so that the settlement
  of one adds a charge to those of its account.
- Admission (`TicketingProofs`, theorem `AdmissionImplemented`): under `IInv`, `SettleInTime` is `Admit` - the
  member's own slot is counted in `Occupied`, so the seated without him are fewer than the total -, `SettleRefund` is
  `Withdraw` or a stutter, `UpdateEvent` is `Resize`, a failing `MoveEvent` is `Fail`.
- Repayment (theorems `RepaymentImplemented`, `RefundsRepay`). A settlement is `Pay`, a new row of `event_refunds` is `Promise`,
  the transaction that completes it is `Repay`. In Ticketing the invariant that a refund in processing is of a paid purchase
  (`RefundsFollowPayments`) makes the completion a `Repay`, and keeps a settlement from being a second payment over a refund under way. In Refunds it is
  `PendingIsPaid`; that a caller opens a refund of a payment still held, though its read is old, follows from what it knows (`CallersKnow`): a purchase
  it has read as paid is open again only if its refund is done (`Seen`), so that there is none to open.
- Webhooks (`WebhooksProofs`): past the record there is one delivery per callback (`OneDelivery`); from it follow
  `AppliedOnce`, `ProcessedWasApplied` and the refinement `InboxImplemented`.
- Refunds (`RefundsProofs`): what a caller has read or done stays true though it holds no lock (`CallersKnow`), a pending
  refund is of a paid purchase, a live claim has its row locked (`HoldersLeased`).
- Payout (`PayoutProofs`): an accruing request knows the event ended, and what it counted stays within what was collected (`RequestsKnow`).
- Notifications (`PlatformProofs`): a live claim has its row locked (`ClaimsMatchRows`), who sends knows the answer.
- Streaming (`StreamingProofs`). The invariant adds to the properties what a request in flight knows: the room it asked for exists
  (`RoomBeforeStart`), a viewer's request names a viewer (`ViewerNamed`) who held a membership when it was read (`ViewersHold`), a
  request that passed the check of the stream found one (`StreamFound`), the outcome that a settling request goes by is the stream's
  and there is one such request (`OutcomeFits`, `SettlesOnce`). The event follows the stream (`EventFollows`), which is what makes `End`'s unconditional
  `MarkEventEnded` harmless.
- WorkerLock (`PlatformProofs`). A worker inside for less than the TTL owns the key, and its age and the key's remaining TTL add up to
  the full TTL (`YoungHolds`); two such owners are one worker, hence `StartupExclusive`.

- Sessions (`SessionsProofs`). `RolesAgree` needs that a request on its way to a new session carries the role of its account
  (`RolesKept`): accounts are never changed, so the read is not stale. `OneLiveSession` and `RevokedStaysOut` rest on `Lineage`: a session goes
  back to one sign-in, and a sign-in has at most one live session; a rotation revokes the row it read as live in the step that inserts the next.
- Events (`EventsProofs`). `SoldIsMinded` follows from the guards under which each query writes, whatever schedule and total a request
  carries (`WriteMinds`, over rows that are `RowsSound`). `ListMissesNothing` rests on `PagesCover` between the pages: the rows up to
  the cursor that stood still have been listed. A page is closed downwards (`PageClosed`), holds all that is left when the row fetched to look
  ahead is not there (`ShortPageIsLast`), and else has a last row and no more rows than it may (`PageEnds`); a
  first row exists because the natural numbers are well founded. This holds of any page size and any finite set of rows.
- RateLimit (`PlatformProofs`). Two invariants, one per script. `Paid`: what was taken from any instant on, and what is left in the bucket, came
  with the full bucket or came back by the bucket's own clock; and once the key has expired, by the oldest stamp that may still come. A
  stamp before that clock sets it back, and `setBack` grows by as much. `Bursts` reads it off. `Weighed`: a counter is at least the number of admissions of its
  window for as long as a stamp may weigh them, since a key outlives its window by one (`CountersSound`). Hence `Quota`.

Only model-checked: the liveness properties `OpenPurchaseEnds`, `OpenRefundCompletes`, `QueuedEmailIsTried`, `RevokedEnds` and `StartsGoOn`. Liveness under
fairness is beyond the prover here; each rests on invariants that are proved.

## 7. Where the code departs from what it says

`SlotLeak` ends in a counterexample, recorded as a finding in PROJECT.json: a retry over a lapsed reservation that was not swept takes a
second slot and the first never returns (`ticketing/service.go:266`; `ARCHITECTURE.md:85-86` says expired slots are returned).

The following were met while modelling; the models contain them and no property asks for the opposite.

Money and tickets.
- A payment reported after the sweep failed its purchase is neither a ticket nor a refund (`ticket_store.go:205`; `ARCHITECTURE.md:56` promises
  the refund). A refund of a late payment that settles before the sweep revokes a ticket never issued.
- A purchase refunded for settling late and bought again is paid with a completed refund, and the refund of the event passes it over (`finance/service.go:236`).
- The failure callback of an abandoned attempt fails the attempt the account has since started (`ticketing/service.go:381`).
- The payout subtracts refunds from a sum that already leaves them out (`finance/service.go:309`, against its comment at 298).
- One error ends the automatic refund of an event for everyone behind it, and a purchase of amount 0 is such an error
  (`finance/service.go:248`). Nothing retries a payout that failed once: `ClaimPendingPayouts` has no caller.
- A host may cancel an event whose tickets are paid for. `RefundEvent` asks for a failed stream, so nobody, not even an admin, can then refund them.
- `ExpireReservations` runs a batch in one transaction where its comment says one per ticket.

Callbacks and email.
- A callback recorded by a delivery that died is acknowledged as a duplicate ever after, and never routed (`webhooks/service.go:72`).
- A failed email is never claimed again; its backoff is computed and not used (`queries/notifications.sql:49`; `notifications/service.go:58-59` and
  `ARCHITECTURE.md:82-83` speak of retries). A crew member assigned by Update gets no email; one assigned by Create does.

Streams and events.
- `stream_store.go:70-71` says two concurrent starts cannot both create a room. Both call `CreateRoom`, before the guarded update; only one stream row results.
  `CloseRoom` is never called, and `left_at` and `viewer_count` are never written.
- Two updates of one event, or of one crew profile, that read the same row lose the first one's fields.
- An upcoming event whose start has passed can no longer be updated without a new start, since every merged schedule is validated again.
- An event rescheduled while a client pages may be shown twice or not at all; `PagesCover` is about the rows that stood still.

Redis.
- `ARCHITECTURE.md:88-89` says the lock keeps a one-time boot section from running twice. It makes starts take turns: each runs the section. The 15 seconds
  of the startup's context end before the 30 seconds of the wait, and a process that dies inside blocks every start for the 5 minutes of the TTL.
  `Refresh` is never called.
- A stamp older than the bucket's sets its clock back, so the time in between is refilled twice (`setBack` in `BurstsAreSmoothed` counts it). A request the
  window refuses has spent its token, and the window counts requests that the bucket refused. A burst on both sides of a window's edge is held down
  only by the share of the window before.

## 8. Not modelled

Names, descriptions, prices as numbers, rendering of emails, hashing, signatures, HTTP decoding: data or pure functions no property here depends on.
The providers exist in the repository as mocks only and are modelled from how the code uses them. Of authentication, the session manager is a
library and external; passwords and their rehash, `Extend` and the list of sessions are left out. Of events, the columns no guard looks at (name,
price, crew) and the check of the crew are left out; of crews, the profile's update. The reads for display change nothing. Wiring, metrics,
health, configuration, generated documentation and the one-shot commands keep no state another part reads.

PostgreSQL's deadlocks between transactions that lock rows in different orders (the sweep against a retry or a settlement) need a grain finer than a
transaction per step; here the database orders transactions, and one it aborts is one that fails. A refund that settles after the payout
counted its purchase leaves buyer and host both with the money; the code promises nothing there, and no property does.

## 9. Plan

1. A composition of Webhooks and Ticketing in which `Consume` is Inbox's `Apply` and `LoseWebhook` its `Drop`.
2. `TicketingLocks`: sweep, settlement, release and retry at the grain of row locks, and which of them can wait in a circle.
3. The password's rehash and `Extend` in Sessions, the profile's update of crews, if either comes to guard anything.
