-------------------------------- MODULE Refunds --------------------------------
(***************************************************************************)
(* Refunds of one event: internal/finance, with the callers that start     *)
(* them.                                                                   *)
(*                                                                         *)
(* A refund is opened in one transaction, carried out by the provider, and *)
(* settled in another transaction.  Four callers run this concurrently:    *)
(* the handler of a late payment, the automatic refund of a failed stream, *)
(* an admin's refund and the workers' retry of pending refunds, which      *)
(* takes a lease of ten minutes.  Each may fail or die at every step.      *)
(***************************************************************************)
EXTENDS FiniteSets, Integers

CONSTANTS
    Purchases,   \* purchases of the event; each has at most one refund row
    Free,        \* those of amount 0, bought while the host asked nothing
    Handlers,    \* requests and callbacks of the API that may be refunding at once
    Workers,     \* cmd/worker processes
    NoPurchase,  \* a caller between two refunds
    BatchSize,   \* the limit of ClaimPendingRefunds
    MaxFaults    \* bound: refused provider calls, refused transactions, deaths

ASSUME RefundsAssumption ==
    /\ IsFiniteSet(Purchases)
    /\ Free \subseteq Purchases
    /\ NoPurchase \notin Purchases
    /\ Handlers \cap Workers = {}
    /\ BatchSize \in Nat \ {0}
    /\ MaxFaults \in Nat

Callers == Handlers \cup Workers

VARIABLES
    stream,     \* "none" while the event is upcoming, "live", or failed before or
                \* after a quarter of the duration
    purchase,   \* event_purchases.status; "open" before the payment of an attempt settles
    refund,     \* event_refunds.status
    lease,      \* event_refunds.locked_at: NULL, younger or older than ten minutes
    ledger,     \* ledger_entries of type refund
    moved,      \* external: refunds the provider carried out, one per idempotency key
    role,       \* what each caller is
    step,       \* where it is
    todo,       \* the refunds it has yet to take up
    current,    \* the refund it is at
    overdue,    \* the claims that are older than ten minutes
    faults

rows == <<purchase, refund, lease, ledger>>
caller == <<role, step, todo, current, overdue>>
vars == <<stream, purchase, refund, lease, ledger, moved, role, step, todo,
          current, overdue, faults>>

PurchaseStatus == {"open", "paid", "refunded"}
RefundStatus == {"none", "processing", "refunded"}
Lease == {"free", "held", "stale"}
Stream == {"none", "live", "early", "late"}
Role == {"none", "late", "event", "worker"}
Step == {"idle", "list", "create", "provider", "settle"}

Init ==
    /\ stream = "none"
    /\ purchase = [p \in Purchases |-> "open"]
    /\ refund = [p \in Purchases |-> "none"]
    /\ lease = [p \in Purchases |-> "free"]
    /\ ledger = {}
    /\ moved = {}
    /\ role = [c \in Callers |-> "none"]
    /\ step = [c \in Callers |-> "idle"]
    /\ todo = [c \in Callers |-> {}]
    /\ current = [c \in Callers |-> NoPurchase]
    /\ overdue = {}
    /\ faults = 0

-----------------------------------------------------------------------------
(***************************************************************************)
(* The queries.                                                            *)
(***************************************************************************)

\* GetEventStreamStatus.
GetEventStreamStatus == IF stream \in {"early", "late"} THEN "failed" ELSE stream

\* ListPaidPurchasesForEvent, without those it marks as already refunded.
ListPaidPurchasesForEvent == {p \in Purchases : purchase[p] = "paid" /\ refund[p] # "refunded"}

\* CreateEventRefund, ON CONFLICT (purchase_id) DO NOTHING;
\* event_refunds_amount_positive refuses the row of a free purchase.
CreateEventRefund(p) ==
    /\ refund[p] = "none"
    /\ p \notin Free
    /\ refund' = [refund EXCEPT ![p] = "processing"]

GetRefundByPurchaseID(p) == refund[p]

\* Mutation of Claimable: a lease is never taken over.
ClaimableFree(p) == refund[p] = "processing" /\ lease[p] = "free"

\* Mutation of Claimable: the lease is not looked at.
ClaimableLeased(p) == refund[p] = "processing"

\* The rows ClaimPendingRefunds selects from.
Claimable(p) == refund[p] = "processing" /\ lease[p] # "held"

\* ClaimPendingRefunds: pending refunds, up to the limit and without those another
\* transaction has locked.
ClaimPendingRefunds(S) ==
    /\ \A p \in S : Claimable(p)
    /\ Cardinality(S) <= BatchSize
    /\ lease' = [p \in Purchases |-> IF p \in S THEN "held" ELSE lease[p]]

\* MarkRefunded: only a refund in processing.
MarkRefunded(p) ==
    /\ refund[p] = "processing"
    /\ refund' = [refund EXCEPT ![p] = "refunded"]

\* Mutation of MarkPurchaseRefunded: the purchase is left to another transaction.
MarkPurchaseRefundedLater(p) == UNCHANGED purchase

\* MarkPurchaseRefunded; no paid purchase is no error.
MarkPurchaseRefunded(p) ==
    purchase' = [purchase EXCEPT ![p] = IF @ = "paid" THEN "refunded" ELSE @]

\* CreateLedgerEntry, unique on the refund.
CreateLedgerEntry(p) == ledger' = ledger \cup {p}

-----------------------------------------------------------------------------
(***************************************************************************)
(* Where a caller goes next.                                               *)
(***************************************************************************)

\* A free goroutine takes up a role.
Begin(c, kind, first, S, p) ==
    /\ step[c] = "idle"
    /\ role' = [role EXCEPT ![c] = kind]
    /\ step' = [step EXCEPT ![c] = first]
    /\ todo' = [todo EXCEPT ![c] = S]
    /\ current' = [current EXCEPT ![c] = p]

Forget(c, S) == overdue' = {claim \in overdue : claim[1] # c \/ claim[2] \notin S}

\* The caller returns.
Stop(c) ==
    /\ role' = [role EXCEPT ![c] = "none"]
    /\ step' = [step EXCEPT ![c] = "idle"]
    /\ todo' = [todo EXCEPT ![c] = {}]
    /\ current' = [current EXCEPT ![c] = NoPurchase]
    /\ Forget(c, Purchases)

Goto(c, next) == step' = [step EXCEPT ![c] = next] /\ UNCHANGED <<role, todo, current, overdue>>

\* Done with the current refund: on to the next of the list or batch, or return.
Advance(c) ==
    \/ todo[c] = {} /\ Stop(c)
    \/ \E p \in todo[c] :
          /\ todo' = [todo EXCEPT ![c] = @ \ {p}]
          /\ current' = [current EXCEPT ![c] = p]
          /\ step' = [step EXCEPT ![c] = IF role[c] = "worker" THEN "provider" ELSE "create"]
          /\ Forget(c, {current[c]})
          /\ UNCHANGED role

\* An error: the worker logs it and goes on, every other caller returns it.
GiveUp(c) == IF role[c] = "worker" THEN Advance(c) ELSE Stop(c)

-----------------------------------------------------------------------------
(***************************************************************************)
(* The callers.                                                            *)
(***************************************************************************)

\* SettlePaid inside the reservation window.
PayInTime(p) ==
    /\ purchase[p] = "open"
    /\ purchase' = [purchase EXCEPT ![p] = "paid"]
    /\ UNCHANGED <<stream, refund, lease, ledger, moved, caller, faults>>

\* SettlePaid after it: its handler goes on to RefundExpiredPurchase.
PayLate(c, p) ==
    /\ purchase[p] = "open"
    /\ purchase' = [purchase EXCEPT ![p] = "paid"]
    /\ Begin(c, "late", "create", {}, p)
    /\ UNCHANGED <<stream, refund, lease, ledger, moved, overdue, faults>>

\* ResetForRetry: while the event is upcoming a refunded purchase may be bought
\* again, in the same row; its refund row stays, and stays refunded.
ResetForRetry(p) ==
    /\ stream = "none"
    /\ purchase[p] = "refunded"
    /\ purchase' = [purchase EXCEPT ![p] = "open"]
    /\ UNCHANGED <<stream, refund, lease, ledger, moved, caller, faults>>

\* streaming Start.
StartStream ==
    /\ stream = "none"
    /\ stream' = "live"
    /\ UNCHANGED <<rows, moved, caller, faults>>

\* streaming Fail: early enough, the refund of the event follows by itself.
FailStream(c) ==
    /\ stream = "live"
    /\ stream' = "early"
    /\ Begin(c, "event", "list", {}, NoPurchase)
    /\ UNCHANGED <<rows, moved, overdue, faults>>

\* streaming Fail past a quarter of the duration: left to an admin.
FailStreamLate ==
    /\ stream = "live"
    /\ stream' = "late"
    /\ UNCHANGED <<rows, moved, caller, faults>>

\* An admin's RefundEvent, refused unless the stream failed.
AdminRefund(c) ==
    /\ GetEventStreamStatus = "failed"
    /\ Begin(c, "event", "list", {}, NoPurchase)
    /\ UNCHANGED <<stream, rows, moved, overdue, faults>>

\* RefundEvent, its list: paid purchases whose refund is not completed.
ListPaid(c) ==
    LET S == ListPaidPurchasesForEvent IN
    /\ step[c] = "list"
    /\ \/ S = {} /\ Stop(c)
       \/ \E p \in S :
             /\ todo' = [todo EXCEPT ![c] = S \ {p}]
             /\ current' = [current EXCEPT ![c] = p]
             /\ step' = [step EXCEPT ![c] = "create"]
             /\ UNCHANGED <<role, overdue>>
    /\ UNCHANGED <<stream, rows, moved, faults>>

\* ProcessPendingRefunds, its claim.
Claim(c, S) ==
    /\ S # {}
    /\ ClaimPendingRefunds(S)
    /\ \E p \in S : Begin(c, "worker", "provider", S \ {p}, p)
    /\ UNCHANGED <<stream, purchase, refund, ledger, moved, overdue, faults>>

-----------------------------------------------------------------------------
(***************************************************************************)
(* CreateRefund, InitiateRefund, SettleRefund.                             *)
(***************************************************************************)

\* Mutation of CreateRefund: the row is written with its settlement.
CreateRefundLater(c) ==
    /\ step[c] = "create"
    /\ Goto(c, "provider")
    /\ UNCHANGED <<stream, purchase, refund, lease, ledger, moved, faults>>

\* CreateRefund: on a conflict the late payment's handler leaves the refund to who
\* opened it, and RefundEvent takes up one still processing.
CreateRefund(c) ==
    LET p == current[c]
        existing == GetRefundByPurchaseID(p)
    IN
    /\ step[c] = "create"
    /\ \/ CreateEventRefund(p) /\ Goto(c, "provider")
       \/ p \in Free /\ Stop(c) /\ UNCHANGED refund
       \/ existing = "processing" /\ role[c] = "event" /\ Goto(c, "provider") /\ UNCHANGED refund
       \/ existing = "refunded" /\ role[c] = "event" /\ Advance(c) /\ UNCHANGED refund
       \/ existing # "none" /\ role[c] = "late" /\ Stop(c) /\ UNCHANGED refund
    /\ UNCHANGED <<stream, purchase, lease, ledger, moved, faults>>

\* provider.InitiateRefund under the key refund:<purchaseId>.
InitiateRefund(c) ==
    /\ step[c] = "provider"
    /\ moved' = moved \cup {current[c]}
    /\ Goto(c, "settle")
    /\ UNCHANGED <<stream, rows, faults>>

\* Mutation of RefuseRefund: the error is logged, and the refund settled all the same.
RefuseRefundLogged(c) ==
    /\ faults < MaxFaults
    /\ faults' = faults + 1
    /\ step[c] = "provider"
    /\ moved' \in {moved, moved \cup {current[c]}}
    /\ Goto(c, "settle")
    /\ UNCHANGED <<stream, rows>>

\* The provider refuses, or its answer is lost after it moved the money.
RefuseRefund(c) ==
    /\ faults < MaxFaults
    /\ faults' = faults + 1
    /\ step[c] = "provider"
    /\ moved' \in {moved, moved \cup {current[c]}}
    /\ GiveUp(c)
    /\ UNCHANGED <<stream, rows>>

\* SettleRefund: refund, purchase and ledger in one transaction; a refund no longer
\* in processing is ErrNotFound.
SettleRefund(c) ==
    LET p == current[c] IN
    /\ step[c] = "settle"
    /\ \/ MarkRefunded(p) /\ MarkPurchaseRefunded(p) /\ CreateLedgerEntry(p) /\ Advance(c)
       \/ refund[p] # "processing" /\ GiveUp(c) /\ UNCHANGED <<refund, purchase, ledger>>
    /\ UNCHANGED <<stream, lease, moved, faults>>

\* The database refuses a read or a transaction of the caller.
RefuseTransaction(c) ==
    /\ faults < MaxFaults
    /\ faults' = faults + 1
    /\ step[c] \in {"list", "create", "settle"}
    /\ GiveUp(c)
    /\ UNCHANGED <<stream, rows, moved>>

\* The caller's process dies.
Crash(c) ==
    /\ faults < MaxFaults
    /\ faults' = faults + 1
    /\ step[c] # "idle"
    /\ Stop(c)
    /\ UNCHANGED <<stream, rows, moved>>

\* Ten minutes pass since the refund was locked; settling does not unlock it.
LeaseExpires(p) ==
    /\ lease[p] = "held"
    /\ lease' = [lease EXCEPT ![p] = "stale"]
    /\ overdue' = overdue \cup
          {<<c, p>> : c \in {d \in Callers : role[d] = "worker" /\ p \in todo[d] \cup {current[d]}}}
    /\ UNCHANGED <<stream, purchase, refund, ledger, moved, role, step, todo, current, faults>>

-----------------------------------------------------------------------------
CallerStep(c) ==
    \/ ListPaid(c) \/ CreateRefund(c) \/ InitiateRefund(c) \/ SettleRefund(c)

Fault(c) == RefuseRefund(c) \/ RefuseTransaction(c) \/ Crash(c)

Next ==
    \/ \E c \in Callers : CallerStep(c) \/ Fault(c)
    \/ \E h \in Handlers :
          \/ FailStream(h) \/ AdminRefund(h)
          \/ \E p \in Purchases : PayLate(h, p)
    \/ \E w \in Workers, S \in SUBSET Purchases : Claim(w, S)
    \/ \E p \in Purchases : PayInTime(p) \/ ResetForRetry(p) \/ LeaseExpires(p)
    \/ StartStream \/ FailStreamLate

Spec == Init /\ [][Next]_vars

\* A caller that runs goes on, the worker's loop comes round to every pending
\* refund, time passes, and faults are not for ever.  Admins need not act.
FairSpec ==
    /\ Spec
    /\ \A c \in Callers : WF_vars(CallerStep(c))
    /\ \A p \in Purchases :
          /\ WF_vars(\E w \in Workers, S \in SUBSET Purchases : p \in S /\ Claim(w, S))
          /\ WF_vars(LeaseExpires(p))
-----------------------------------------------------------------------------
(***************************************************************************)
(* Properties.                                                             *)
(***************************************************************************)
TypeOK ==
    /\ stream \in Stream
    /\ purchase \in [Purchases -> PurchaseStatus]
    /\ refund \in [Purchases -> RefundStatus]
    /\ lease \in [Purchases -> Lease]
    /\ ledger \in SUBSET Purchases
    /\ moved \in SUBSET Purchases
    /\ role \in [Callers -> Role]
    /\ step \in [Callers -> Step]
    /\ todo \in [Callers -> SUBSET Purchases]
    /\ current \in [Callers -> Purchases \cup {NoPurchase}]
    /\ overdue \in SUBSET (Callers \X Purchases)
    /\ faults \in 0..MaxFaults
    /\ \A c \in Callers :
          /\ step[c] \in {"idle", "list"} <=> current[c] = NoPurchase
          /\ step[c] = "idle" <=> role[c] = "none"
          /\ step[c] = "list" => role[c] = "event"
          /\ role[c] = "worker" => c \in Workers
          /\ current[c] \notin todo[c]

\* A completed refund is one the provider carried out and the ledger has, and no
\* purchase is refunded without one, whichever of the racing callers settled it.  The
\* purchase of a completed refund may have been bought again since.
RefundedEverywhere ==
    \A p \in Purchases :
        /\ refund[p] = "refunded" => p \in moved
        /\ purchase[p] = "refunded" => refund[p] = "refunded"
        /\ refund[p] = "refunded" <=> p \in ledger

\* Money never moves without a row the worker can find: whatever dies between the
\* provider's answer and the settlement, a pending refund remains to be retried.
MovedIsOnRecord ==
    \A p \in Purchases : p \in moved => refund[p] \in {"processing", "refunded"}

\* The refunds a worker claimed and has not finished, with a lease still running.
Holds(c, p) ==
    /\ role[c] = "worker"
    /\ p \in todo[c] \cup {current[c]}
    /\ <<c, p>> \notin overdue

\* Two workers retry the same refund only when the lease of one has run out.
WorkersExclude ==
    \A c, d \in Callers, p \in Purchases : Holds(c, p) /\ Holds(d, p) => c = d

\* Behind the settlements: a purchase seen paid is paid still, or its refund is done.
Seen(p) == purchase[p] = "open" => refund[p] = "refunded"

\* What a caller has seen or done still holds.
CallersKnow ==
    \A c \in Callers :
        /\ \A p \in (todo[c] \cup {current[c]}) \ {NoPurchase} : Seen(p)
        /\ role[c] = "worker" => \A p \in todo[c] : refund[p] # "none"
        /\ role[c] = "worker" \/ step[c] \in {"provider", "settle"} =>
              refund[current[c]] # "none"
        /\ step[c] = "settle" => current[c] \in moved

\* A refund being settled is of a purchase still paid.
PendingIsPaid == \A p \in Purchases : refund[p] = "processing" => purchase[p] = "paid"

\* A claim whose lease has not run out still has the row locked.
HoldersLeased == \A c \in Callers, p \in Purchases : Holds(c, p) => lease[p] = "held"

\* The inductive invariant of RefundsProofs.
IInv ==
    /\ TypeOK
    /\ RefundedEverywhere
    /\ MovedIsOnRecord
    /\ WorkersExclude
    /\ CallersKnow
    /\ PendingIsPaid
    /\ HoldersLeased

\* Every refund that was opened is completed, although its first caller may fail or
\* die: the workers retry it until the provider and the database accept.
OpenRefundCompletes ==
    \A p \in Purchases : refund[p] = "processing" ~> refund[p] = "refunded"

Rep == INSTANCE Repayment WITH
    Buyers <- Purchases,
    held   <- {p \in Purchases : purchase[p] = "paid"}

\* Whoever of the racing callers opens, carries out and settles a refund, the
\* payments are returned as Repayment allows: put on record once, and completed
\* once, however often the provider was asked.
ImplementsRepayment == Rep!Spec
=============================================================================
