------------------------------ MODULE Ticketing ------------------------------
(***************************************************************************)
(* The purchase lifecycle of one event: internal/ticketing, with the rows  *)
(* of internal/finance and internal/events that it shares a transaction or *)
(* a guard with.                                                           *)
(*                                                                         *)
(* Every database transaction is one action.  A request to Purchase reads  *)
(* the database several times and then writes in a transaction of its own, *)
(* so each of its reads, its transaction and its provider call is a step,  *)
(* and other requests, webhooks, the worker's sweep, refunds and hosts run *)
(* in between.  The payment provider is external: its charges and the      *)
(* callbacks it has yet to deliver are the variables charge and inbox.     *)
(***************************************************************************)
EXTENDS Integers, FiniteSets

CONSTANTS
    Users,       \* accounts that may buy a ticket of the event
    Keys,        \* idempotency keys; a key belongs to one account
    Requests,    \* HTTP requests that may be in flight
    OwnerOf,     \* [Keys -> Users], the account that sends the key
    KeyOf,       \* [Requests -> Keys], the Idempotency-Key of the request
    Reachable,   \* accounts whose email address the directory can resolve
    NoKey,       \* SQL NULL
    MaxTickets,  \* bound on total_tickets
    SweepLimit   \* the limit the worker passes to ExpireReservations

ASSUME TicketingAssumption ==
    /\ IsFiniteSet(Users)
    /\ OwnerOf \in [Keys -> Users]
    /\ KeyOf \in [Requests -> Keys]
    /\ Reachable \subseteq Users
    /\ NoKey \notin Keys
    /\ MaxTickets \in Nat \ {0}
    /\ SweepLimit \in Nat \ {0}

VARIABLES
    stage,      \* events.status; "failed" is status ended with a failed stream
    total,      \* events.total_tickets
    available,  \* events.available_tickets
    purchase,   \* event_purchases, one row per account
    ticket,     \* tickets, one row per purchase
    member,     \* event_members, one row per account
    refund,     \* event_refunds, one row per purchase
    mail,       \* email_notifications rows queued by these transactions
    request,    \* where each Purchase request is
    late,       \* accounts whose webhook handler is about to refund a late charge
    charge,     \* external: the provider's charge for each key
    inbox       \* external: callbacks the provider has not had recorded

eventVars   == <<stage, total, available>>
rowVars     == <<purchase, ticket>>
financeVars == <<refund, mail>>
provider    == <<charge, inbox>>
vars == <<stage, total, available, purchase, ticket, member, refund, mail,
          request, late, charge, inbox>>

Stages == {"upcoming", "live", "ended", "failed", "cancelled"}

PurchaseStatus == {"none", "initiated", "processing", "paid", "failed", "refunded"}
PurchaseRow == [status : PurchaseStatus, key : Keys \cup {NoKey},
                checkout : Keys \cup {NoKey}]

\* temporarily_reserved is "held" while reservation_expires_at > now() and
\* "lapsed" from then on; "expired" is reservation_expired.
TicketStatus == {"none", "held", "lapsed", "issued", "expired", "revoked"}
Reserved == {"held", "lapsed"}
Open == {"initiated", "processing"}

MemberStatus == {"none", "active", "revoked"}
RefundStatus == {"none", "processing", "refunded"}
RequestStep == {"idle", "event", "open", "reserve", "reset", "charge",
                "release", "checkout"}
ChargeStatus == {"none", "open", "paid", "failed"}
WebhookType == {"processing", "paid", "failed"}
MailType == {"ticket.issued", "refund.completed"}

NoPurchase == [status |-> "none", key |-> NoKey, checkout |-> NoKey]

Init ==
    /\ stage = "upcoming"
    /\ total \in 1..MaxTickets
    /\ available = total
    /\ purchase = [u \in Users |-> NoPurchase]
    /\ ticket = [u \in Users |-> "none"]
    /\ member = [u \in Users |-> "none"]
    /\ refund = [u \in Users |-> "none"]
    /\ mail = {}
    /\ request = [r \in Requests |-> "idle"]
    /\ late = {}
    /\ charge = [k \in Keys |-> "none"]
    /\ inbox = {}

-----------------------------------------------------------------------------
(***************************************************************************)
(* The queries.  One that finds no row it may change does not happen, and  *)
(* what its transaction did before is rolled back.                         *)
(***************************************************************************)

\* GetPurchaseByIdempotencyKey: whether the account has a row with the key.
GetPurchaseByIdempotencyKey(u, k) == purchase[u].key = k

GetEventForReservation == [status |-> stage, available |-> available]

GetPurchaseByEventAndUser(u) == purchase[u]

GetTicketByPurchase(u) == ticket[u]

\* The guard of ReserveEventTicket.
SlotFree == stage = "upcoming" /\ available > 0

\* ReserveEventTicket, the guarded decrement both transactions start with.
ReserveEventTicket ==
    /\ SlotFree
    /\ available' = available - 1
    /\ UNCHANGED <<stage, total>>

\* ReleaseEventTicket, n times: the slots go back unless that exceeds the total.
ReleaseEventTicket(n) ==
    /\ available + n <= total
    /\ available' = available + n
    /\ UNCHANGED <<stage, total>>

\* A purchase row at the start of an attempt.
Initiated(k) == [status |-> "initiated", key |-> k, checkout |-> NoKey]

\* CreatePurchase: one row per account, so the second of two requests finds it.
CreatePurchase(u, k) ==
    /\ purchase[u].status = "none"
    /\ purchase' = [purchase EXCEPT ![u] = Initiated(k)]

\* CreateTemporaryTicket.
CreateTemporaryTicket(u) == ticket' = [ticket EXCEPT ![u] = "held"]

\* Mutation of ResetPurchaseForRetry: the row is reset whatever became of it.
ResetPurchaseAnyStatus(u, k) == purchase' = [purchase EXCEPT ![u] = Initiated(k)]

\* ResetPurchaseForRetry: not once the row was paid or moved to processing.
ResetPurchaseForRetry(u, k) ==
    /\ purchase[u].status \in {"initiated", "failed", "refunded"}
    /\ purchase' = [purchase EXCEPT ![u] = Initiated(k)]

\* ResetTicketForRetry, by ticket id and unguarded.
ResetTicketForRetry(u) == ticket' = [ticket EXCEPT ![u] = "held"]

\* UpdatePurchaseCheckout, by purchase id and unguarded.
UpdatePurchaseCheckout(u, k) == purchase' = [purchase EXCEPT ![u].checkout = k]

\* Mutation of MarkPurchaseFailed: a purchase that already failed fails again.
MarkPurchaseFailedAgain(u) ==
    /\ purchase[u].status \in Open \cup {"failed"}
    /\ purchase' = [purchase EXCEPT ![u].status = "failed"]

\* MarkPurchaseFailed: only an open purchase fails.
MarkPurchaseFailed(u) ==
    /\ purchase[u].status \in Open
    /\ purchase' = [purchase EXCEPT ![u].status = "failed"]

\* ExpireTicketByPurchase; no reservation left is no error.
ExpireTicketByPurchase(u) ==
    ticket' = [ticket EXCEPT ![u] = IF @ \in Reserved THEN "expired" ELSE @]

\* MarkPurchaseProcessing moves an initiated row only.
MarkPurchaseProcessing(u) ==
    purchase' = [purchase EXCEPT ![u].status = IF @ = "initiated" THEN "processing" ELSE @]

\* MarkPurchasePaid: only an open purchase is paid.
MarkPurchasePaid(u) ==
    /\ purchase[u].status \in Open
    /\ purchase' = [purchase EXCEPT ![u].status = "paid"]

\* IssueTicketByPurchase: only while the reservation is live.
IssueTicketByPurchase(u) ==
    /\ ticket[u] = "held"
    /\ ticket' = [ticket EXCEPT ![u] = "issued"]

\* CreateEventMember, ON CONFLICT DO NOTHING.
CreateEventMember(u) ==
    member' = [member EXCEPT ![u] = IF @ = "none" THEN "active" ELSE @]

\* RevokeEntitlementByPurchase: the ticket, and the membership that hangs on it.
RevokeEntitlementByPurchase(u) ==
    LET revoked == ticket[u] \in {"issued"} \cup Reserved IN
    /\ ticket' = [ticket EXCEPT ![u] = IF revoked THEN "revoked" ELSE @]
    /\ member' = [member EXCEPT ![u] = IF revoked /\ @ = "active" THEN "revoked" ELSE @]

\* The outbox row, for an account with an address; once per type and reference.
Enqueue(type, u) == mail' = mail \cup ({type} \X (Reachable \cap {u}))

\* Mutation of Claimable: only purchases that never reached processing.
ClaimableInitiated(S) ==
    /\ S \subseteq {u \in Users : ticket[u] = "lapsed" /\ purchase[u].status = "initiated"}
    /\ S # {}
    /\ Cardinality(S) <= SweepLimit

\* What ClaimExpiredTicketReservations may pick: lapsed rows, up to the limit and
\* without those another transaction has locked.
Claimable(S) ==
    /\ S \subseteq {u \in Users : ticket[u] = "lapsed"}
    /\ S # {}
    /\ Cardinality(S) <= SweepLimit

\* ClaimExpiredTicketReservations.
ClaimExpiredTicketReservations(S) ==
    /\ Claimable(S)
    /\ ticket' = [u \in Users |-> IF u \in S THEN "expired" ELSE ticket[u]]

\* Mutation of MarkPurchaseFailedForTicket: the purchases of the batch stay open.
MarkPurchaseFailedNone(S) == UNCHANGED purchase

\* MarkPurchaseFailedForTicket, for each of the batch that was not paid late.
MarkPurchaseFailedForTicket(S) ==
    purchase' = [u \in Users |->
                   IF u \in S /\ purchase[u].status \in Open
                   THEN [purchase[u] EXCEPT !.status = "failed"]
                   ELSE purchase[u]]

-----------------------------------------------------------------------------
(***************************************************************************)
(* POST /purchases: service Purchase, openPurchase and charge.             *)
(***************************************************************************)
Buyer(r) == OwnerOf[KeyOf[r]]

Goto(r, step) == request' = [request EXCEPT ![r] = step]

\* FindPurchaseByIdempotencyKey: a replayed key returns the existing row and
\* changes nothing, so only an unknown key goes on.
Purchase(r) ==
    /\ request[r] = "idle"
    /\ ~GetPurchaseByIdempotencyKey(Buyer(r), KeyOf[r])
    /\ Goto(r, "event")
    /\ UNCHANGED <<eventVars, rowVars, member, financeVars, late, provider>>

\* EventForReservation: a closed or sold-out event refuses the request.
CheckEvent(r) ==
    /\ request[r] = "event"
    /\ LET event == GetEventForReservation
           open == event.status = "upcoming" /\ event.available > 0
       IN  Goto(r, IF open THEN "open" ELSE "idle")
    /\ UNCHANGED <<eventVars, rowVars, member, financeVars, late, provider>>

\* FindPurchaseByEventAndUser and TicketByPurchase: a settled purchase or a live
\* reservation refuses; any other row is to be reset in place.
OpenPurchase(r) ==
    LET row == GetPurchaseByEventAndUser(Buyer(r))
        reservation == GetTicketByPurchase(Buyer(r))
    IN  /\ request[r] = "open"
        /\ \/ row.status = "none" /\ Goto(r, "reserve")
           \/ (row.status = "paid" \/ reservation = "held") /\ Goto(r, "idle")
           \/ /\ row.status \notin {"none", "paid"}
              /\ reservation # "held"
              /\ Goto(r, "reset")
        /\ UNCHANGED <<eventVars, rowVars, member, financeVars, late, provider>>

\* The read of the ticket fails, and with it the check of the reservation is passed
\* over: a live reservation is to be reset as well.  So ends also a request whose two
\* reads fall either side of a change: OpenPurchase has both at one instant.
ReservationUnread(r) ==
    /\ request[r] = "open"
    /\ GetPurchaseByEventAndUser(Buyer(r)).status \notin {"none", "paid"}
    /\ GetTicketByPurchase(Buyer(r)) = "held"
    /\ Goto(r, "reset")
    /\ UNCHANGED <<eventVars, rowVars, member, financeVars, late, provider>>

\* Store Reserve: one transaction, rolled back as a whole when the event has no
\* slot or the account already has a row.
Reserve(r) ==
    LET u == Buyer(r) IN
    /\ request[r] = "reserve"
    /\ \/ /\ ReserveEventTicket
          /\ CreatePurchase(u, KeyOf[r])
          /\ CreateTemporaryTicket(u)
          /\ Goto(r, "charge")
       \/ /\ ~SlotFree \/ purchase[u].status # "none"
          /\ Goto(r, "idle")
          /\ UNCHANGED <<eventVars, rowVars>>
    /\ UNCHANGED <<member, financeVars, late, provider>>

\* Store ResetForRetry: the account's row is reopened with a fresh slot, unless
\* it was paid or moved to processing since it was read.
ResetForRetry(r) ==
    LET u == Buyer(r) IN
    /\ request[r] = "reset"
    /\ \/ /\ ReserveEventTicket
          /\ ResetPurchaseForRetry(u, KeyOf[r])
          /\ ResetTicketForRetry(u)
          /\ Goto(r, "charge")
       \/ /\ ~SlotFree \/ purchase[u].status \notin {"initiated", "failed", "refunded"}
          /\ Goto(r, "idle")
          /\ UNCHANGED <<eventVars, rowVars>>
    /\ UNCHANGED <<member, financeVars, late, provider>>

\* provider.InitiateCharge, idempotent on the key.  An error leaves the charge
\* open at the provider when only the answer was lost.
InitiateCharge(r) ==
    LET k == KeyOf[r]
        opened == [charge EXCEPT ![k] = IF @ = "none" THEN "open" ELSE @]
    IN  /\ request[r] = "charge"
        /\ \/ charge' = opened /\ Goto(r, "checkout")
           \/ charge' \in {charge, opened} /\ Goto(r, "release")
        /\ UNCHANGED <<eventVars, rowVars, member, financeVars, late, inbox>>

\* Store FailAndRelease: the purchase fails, its reservation expires and the slot
\* returns; a row that is no longer open is left alone, and a slot that cannot be
\* returned rolls everything back.
FailAndRelease(u) ==
    \/ /\ MarkPurchaseFailed(u)
       /\ ExpireTicketByPurchase(u)
       /\ ReleaseEventTicket(1)
    \/ /\ purchase[u].status \notin Open \/ available >= total
       /\ UNCHANGED <<eventVars, rowVars>>

\* charge, the provider refused: the purchase is failed by id, whatever attempt
\* the row now stands for.
ReleaseRefused(r) ==
    /\ request[r] = "release"
    /\ FailAndRelease(Buyer(r))
    /\ Goto(r, "idle")
    /\ UNCHANGED <<member, financeVars, late, provider>>

\* Store SetCheckoutURL.
SetCheckoutURL(r) ==
    /\ request[r] = "checkout"
    /\ UpdatePurchaseCheckout(Buyer(r), KeyOf[r])
    /\ Goto(r, "idle")
    /\ UNCHANGED <<eventVars, ticket, member, financeVars, late, provider>>

\* The request ends early: the client went away, a query failed or the process
\* died.  What it has committed stays.
Abandon(r) ==
    /\ request[r] # "idle"
    /\ Goto(r, "idle")
    /\ UNCHANGED <<eventVars, rowVars, member, financeVars, late, provider>>

-----------------------------------------------------------------------------
(***************************************************************************)
(* The provider (external) and the webhook handlers of service Handle.     *)
(* The webhooks component hands each recorded callback to Handle once.     *)
(***************************************************************************)

\* The provider reports a charge it is still working on.
ReportProcessing(k) ==
    /\ charge[k] = "open"
    /\ inbox' = inbox \cup {<<"processing", k>>}
    /\ UNCHANGED <<eventVars, rowVars, member, financeVars, request, late, charge>>

\* The buyer pays, or the payment fails; each outcome is one callback.
Conclude(k) ==
    /\ charge[k] = "open"
    /\ \E outcome \in {"paid", "failed"} :
          /\ charge' = [charge EXCEPT ![k] = outcome]
          /\ inbox' = inbox \cup {<<outcome, k>>}
    /\ UNCHANGED <<eventVars, rowVars, member, financeVars, request, late>>

\* Mutation of Consume: a redelivered callback is handled again.
ConsumeAgain(type, k) == <<type, k>> \in inbox /\ UNCHANGED provider

\* The callback is recorded, so the provider's redeliveries are duplicates.
Consume(type, k) ==
    /\ <<type, k>> \in inbox
    /\ inbox' = inbox \ {<<type, k>>}
    /\ UNCHANGED charge

\* Store MarkProcessing.
HandleProcessing(k) ==
    /\ Consume("processing", k)
    /\ MarkPurchaseProcessing(OwnerOf[k])
    /\ UNCHANGED <<eventVars, ticket, member, financeVars, request, late>>

HandleFailed(k) ==
    /\ Consume("failed", k)
    /\ FailAndRelease(OwnerOf[k])
    /\ UNCHANGED <<member, financeVars, request, late>>

\* SettlePaid inside the window: the ticket is issued, the membership row created
\* unless one exists, and the receipt queued, in one transaction.
SettleInTime(u) ==
    /\ MarkPurchasePaid(u)
    /\ IssueTicketByPurchase(u)
    /\ CreateEventMember(u)
    /\ Enqueue("ticket.issued", u)
    /\ UNCHANGED late

\* Mutation of SettleLate: the receipt is queued before the window is checked.
SettleLateWithReceipt(u) ==
    /\ ticket[u] # "held"
    /\ MarkPurchasePaid(u)
    /\ late' = late \cup {u}
    /\ Enqueue("ticket.issued", u)
    /\ UNCHANGED <<ticket, member>>

\* SettlePaid after the window: the purchase is paid, no ticket is issued, and
\* the handler goes on to refund.
SettleLate(u) ==
    /\ ticket[u] # "held"
    /\ MarkPurchasePaid(u)
    /\ late' = late \cup {u}
    /\ UNCHANGED <<ticket, member, mail>>

\* SettlePaid of a row that is not open: paid returns what it has, failed and
\* refunded end in ErrReservationGone.
SettleNothing(u) ==
    /\ purchase[u].status \notin Open
    /\ UNCHANGED <<rowVars, member, mail, late>>

HandlePaid(k) ==
    LET u == OwnerOf[k] IN
    /\ Consume("paid", k)
    /\ SettleInTime(u) \/ SettleLate(u) \/ SettleNothing(u)
    /\ UNCHANGED <<eventVars, refund, request>>

\* The process dies, or the database refuses the handler, after the callback was
\* recorded: it is never handled.
LoseWebhook(type, k) ==
    /\ Consume(type, k)
    /\ UNCHANGED <<eventVars, rowVars, member, financeVars, request, late>>

-----------------------------------------------------------------------------
(***************************************************************************)
(* Refunds: RefundExpiredPurchase, RefundEvent and SettleRefund.           *)
(***************************************************************************)

\* Mutation of CreateRefund: the conflict reopens the refund.
CreateRefundAgain(u) == refund' = [refund EXCEPT ![u] = "processing"]

\* CreateEventRefund, ON CONFLICT (purchase_id) DO NOTHING.
CreateRefund(u) ==
    refund' = [refund EXCEPT ![u] = IF @ = "none" THEN "processing" ELSE @]

\* The handler of a late payment opens the refund in a transaction of its own.
RefundExpiredPurchase(u) ==
    /\ u \in late
    /\ late' = late \ {u}
    /\ CreateRefund(u)
    /\ UNCHANGED <<eventVars, rowVars, member, mail, request, provider>>

\* The handler dies between SettlePaid and RefundExpiredPurchase.
LoseLateRefund(u) ==
    /\ u \in late
    /\ late' = late \ {u}
    /\ UNCHANGED <<eventVars, rowVars, member, financeVars, request, provider>>

\* Mutation of RefundEvent: the stream need not have failed.
RefundEventAnyStage(u) ==
    /\ purchase[u].status = "paid"
    /\ refund[u] # "refunded"
    /\ CreateRefund(u)
    /\ UNCHANGED <<eventVars, rowVars, member, mail, request, late, provider>>

\* RefundEvent, for one purchase of the list: only after the stream failed.
RefundEvent(u) ==
    /\ stage = "failed"
    /\ purchase[u].status = "paid"
    /\ refund[u] # "refunded"
    /\ CreateRefund(u)
    /\ UNCHANGED <<eventVars, rowVars, member, mail, request, late, provider>>

\* Store SettleRefund, after the provider accepted the refund: the refund, the
\* purchase, the ticket, the membership and the receipt in one transaction.
SettleRefund(u) ==
    /\ refund[u] = "processing"
    /\ refund' = [refund EXCEPT ![u] = "refunded"]
    /\ purchase' = [purchase EXCEPT ![u].status = IF @ = "paid" THEN "refunded" ELSE @]
    /\ RevokeEntitlementByPurchase(u)
    /\ Enqueue("refund.completed", u)
    /\ UNCHANGED <<eventVars, request, late, provider>>

-----------------------------------------------------------------------------
(***************************************************************************)
(* Time, the worker's sweep and the host.                                  *)
(***************************************************************************)

\* now() passes the reservation's expiry.
Lapse(u) ==
    /\ ticket[u] = "held"
    /\ ticket' = [ticket EXCEPT ![u] = "lapsed"]
    /\ UNCHANGED <<eventVars, purchase, member, financeVars, request, late, provider>>

\* Store ExpireReservations: every claimed reservation expires, its slot returns
\* and its purchase fails unless it was paid late.  One slot that cannot be
\* returned rolls the whole batch back.
ExpireReservations(S) ==
    /\ ClaimExpiredTicketReservations(S)
    /\ ReleaseEventTicket(Cardinality(S))
    /\ MarkPurchaseFailedForTicket(S)
    /\ UNCHANGED <<member, financeVars, request, late, provider>>

\* Mutation of UpdateEvent: the slots taken are put up for sale again.
UpdateEventForgetsTaken(n) ==
    /\ stage = "upcoming"
    /\ total' = n
    /\ available' = n
    /\ UNCHANGED <<stage, rowVars, member, financeVars, request, late, provider>>

\* UpdateEvent: a new total that still covers the slots taken, which it keeps.
UpdateEvent(n) ==
    /\ stage = "upcoming"
    /\ n >= total - available
    /\ total' = n
    /\ available' = n - (total - available)
    /\ UNCHANGED <<stage, rowVars, member, financeVars, request, late, provider>>

\* CancelEvent, MarkEventLive, MarkEventEnded and RecordStreamFailure.
MoveEvent ==
    /\ stage' \in CASE stage = "upcoming" -> {"live", "cancelled"}
                    [] stage = "live" -> {"ended", "failed"}
                    [] OTHER -> {}
    /\ UNCHANGED <<total, available, rowVars, member, financeVars, request, late, provider>>

-----------------------------------------------------------------------------
RequestStepOf(r) ==
    \/ Purchase(r) \/ CheckEvent(r) \/ OpenPurchase(r) \/ ReservationUnread(r)
    \/ Reserve(r) \/ ResetForRetry(r)
    \/ InitiateCharge(r) \/ ReleaseRefused(r) \/ SetCheckoutURL(r)
    \/ Abandon(r)

CallbackStep(k) ==
    \/ ReportProcessing(k) \/ Conclude(k)
    \/ HandleProcessing(k) \/ HandleFailed(k) \/ HandlePaid(k)
    \/ \E type \in WebhookType : LoseWebhook(type, k)

UserStep(u) ==
    \/ RefundExpiredPurchase(u) \/ LoseLateRefund(u)
    \/ RefundEvent(u) \/ SettleRefund(u)
    \/ Lapse(u)

Sweep == \E S \in SUBSET Users : ExpireReservations(S)

HostStep ==
    \/ \E n \in 1..MaxTickets : UpdateEvent(n)
    \/ MoveEvent

Next ==
    \/ \E r \in Requests : RequestStepOf(r)
    \/ \E k \in Keys : CallbackStep(k)
    \/ \E u \in Users : UserStep(u)
    \/ Sweep
    \/ HostStep

Spec == Init /\ [][Next]_vars

\* The worker's loop keeps sweeping, oldest reservation first, and time passes;
\* nobody else need act.
FairSpec ==
    /\ Spec
    /\ \A u \in Users : WF_vars(\E S \in SUBSET Users : u \in S /\ ExpireReservations(S))
    /\ \A u \in Users : WF_vars(Lapse(u))
-----------------------------------------------------------------------------
(***************************************************************************)
(* Properties.                                                             *)
(***************************************************************************)
TypeOK ==
    /\ stage \in Stages
    /\ total \in 1..MaxTickets
    /\ available \in 0..total
    /\ purchase \in [Users -> PurchaseRow]
    /\ ticket \in [Users -> TicketStatus]
    /\ member \in [Users -> MemberStatus]
    /\ refund \in [Users -> RefundStatus]
    /\ mail \in SUBSET (MailType \X Users)
    /\ request \in [Requests -> RequestStep]
    /\ late \in SUBSET Users
    /\ charge \in [Keys -> ChargeStatus]
    /\ inbox \in SUBSET (WebhookType \X Keys)

\* The accounts whose ticket row stands for a slot taken from the event.
Occupied == {u \in Users : ticket[u] \in {"held", "lapsed", "issued", "revoked"}}

\* No overselling, whatever requests race, retry, fail or are swept, and however
\* the host changes the capacity: the slots still for sale and the tickets that
\* took one never exceed the total (Reserve, ResetForRetry, FailAndRelease,
\* ExpireReservations, UpdateEvent).
SlotsCovered == available + Cardinality(Occupied) <= total

\* ReleaseEventTicket always finds a slot to return, so no release and no batch of
\* the sweep rolls back: the sweep's one failure would repeat for ever and keep
\* every other reservation of the batch from lapsing.
ReleaseSucceeds ==
    /\ \A u \in Users : purchase[u].status \in Open => available < total
    /\ \A S \in SUBSET Users : Claimable(S) => available + Cardinality(S) <= total

\* An open purchase has exactly the one reservation its failure will give back,
\* and a live reservation belongs to an open purchase: what makes FailAndRelease
\* and the sweep return a slot once between them.
OpenHasReservation ==
    \A u \in Users :
        /\ purchase[u].status \in Open => ticket[u] \in Reserved
        /\ ticket[u] = "held" => purchase[u].status \in Open

\* Stream access is exactly an issued ticket of a paid purchase, although the
\* membership row is never reactivated: the settlement of every repeated purchase
\* still finds no revoked membership in its way.
AccessMatchesPayment ==
    \A u \in Users :
        /\ member[u] = "active" <=> ticket[u] = "issued"
        /\ ticket[u] = "issued" => purchase[u].status = "paid"

\* How the refund row, the handler of a late payment and the revoked membership
\* follow the purchase: a refund in processing is of a purchase still paid, and of
\* an issued ticket only once the stream failed; a membership is revoked only then,
\* so no purchase can be repeated over it; a handler about to refund still finds
\* the payment it saw, or its refund done after the stream failed.
RefundsFollowPayments ==
    \A u \in Users :
        /\ ticket[u] \in Reserved => purchase[u].status \in Open \cup {"paid"}
        /\ refund[u] = "processing" =>
              purchase[u].status = "paid" /\ (ticket[u] = "issued" => stage = "failed")
        /\ purchase[u].status = "refunded" => refund[u] = "refunded"
        /\ member[u] = "revoked" =>
              stage = "failed" /\ purchase[u].status = "refunded" /\ ticket[u] = "revoked"
        /\ u \in late =>
              /\ ticket[u] \in {"lapsed", "expired", "revoked"}
              /\ purchase[u].status = "refunded" \/ refund[u] = "processing" => stage = "failed"
              /\ purchase[u].status \in {"paid", "refunded"}

\* The inductive invariant behind the safety theorems of TicketingProofs.
IInv ==
    /\ TypeOK
    /\ SlotsCovered
    /\ OpenHasReservation
    /\ AccessMatchesPayment
    /\ RefundsFollowPayments

\* The account's charges that were paid and whose callback has been consumed.
PaidCharges(u) ==
    {k \in Keys : OwnerOf[k] = u /\ charge[k] = "paid" /\ <<"paid", k>> \notin inbox}

Count(condition) == IF condition THEN 1 ELSE 0

\* Every paid purchase and every refund is backed by a charge of its own: a
\* callback settles at most one attempt, so a buyer who was refunded is not let
\* in again on the old charge.
BackedByCharge ==
    \A u \in Users :
        Count(purchase[u].status = "paid") + Count(refund[u] = "refunded")
            <= Cardinality(PaidCharges(u))

\* The receipt of a ticket commits with its issue: who has a ticket and an
\* address has the receipt, and nobody has a receipt for a ticket never issued.
ReceiptMatchesTicket ==
    \A u \in Users :
        /\ ticket[u] = "issued" /\ u \in Reachable => <<"ticket.issued", u>> \in mail
        /\ <<"ticket.issued", u>> \in mail => ticket[u] \in {"issued", "revoked"}

\* A paid purchase ends only by the settlement of its refund: no late failure
\* callback, refused retry, sweep or repeated purchase takes the payment back.
PaidEndsByRefund ==
    [][\A u \in Users :
          purchase[u].status = "paid" =>
              \/ purchase'[u].status = "paid"
              \/ /\ purchase'[u].status = "refunded"
                 /\ refund[u] = "processing" /\ refund'[u] = "refunded"]_vars

\* No purchase stays open for ever: it is paid, fails, or its reservation lapses
\* and the worker's sweep fails it.
OpenPurchaseEnds ==
    \A u \in Users : purchase[u].status \in Open ~> purchase[u].status \notin Open

-----------------------------------------------------------------------------
(***************************************************************************)
(* What the repository says and the code does not do.                      *)
(***************************************************************************)

\* ARCHITECTURE.md:85, "Expired reservations are claimed [...] and their slots
\* returned to the event": every slot taken is accounted for by a ticket.
SlotsReturned == available + Cardinality(Occupied) = total
=============================================================================
