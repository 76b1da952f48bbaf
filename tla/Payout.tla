--------------------------------- MODULE Payout ---------------------------------
(***************************************************************************)
(* The host's payout of one event: streaming End and finance AccruePayout, *)
(* against Fail and the payments and refunds that still settle.            *)
(*                                                                         *)
(* End ends the event in one transaction; AccruePayout then reads two sums *)
(* with two statements, opens the payout in a transaction, has the         *)
(* provider pay it, and records that in two more.  Every purchase costs    *)
(* the same here: an amount is a number of purchases.                      *)
(***************************************************************************)
EXTENDS FiniteSets, Integers

CONSTANTS
    Purchases,   \* purchases of the event
    Requests     \* POST /events/{id}/end requests that may be in flight

ASSUME PayoutAssumption == IsFiniteSet(Purchases)

VARIABLES
    stage,      \* event_streams.status, from live on; it moves with events.status
    purchase,   \* event_purchases.status; "open" before the payment settles
    refund,     \* event_refunds.status
    late,       \* purchases whose callback handler is about to refund a late payment
    payout,     \* event_payouts.status
    amount,     \* event_payouts.amount_minor
    ledger,     \* whether the ledger has the payout's entry
    moved,      \* external: the amount the provider paid the host, one key per event
    step,       \* where each request is
    counted,    \* the purchases the request's SumPaidPurchases added up
    repaid      \* the refunds its SumRefundedPurchases added up

money == <<purchase, refund, late>>
record == <<payout, amount, ledger>>
request == <<step, counted, repaid>>
vars == <<stage, purchase, refund, late, payout, amount, ledger, moved, step, counted,
          repaid>>

Stage == {"live", "ended", "failed"}
PurchaseStatus == {"open", "paid", "refunded"}
RefundStatus == {"none", "processing", "refunded"}
PayoutStatus == {"none", "processing", "paid"}
Step == {"idle", "end", "sumPaid", "sumRefunded", "create", "provider", "mark", "ledger"}

Collected == {p \in Purchases : purchase[p] # "open"}

\* The stream goes live over what was bought and refunded before.  A refunded purchase
\* that was bought again is open or paid beside its completed refund; none is bought
\* again from here on, because the event is no longer upcoming.
Init ==
    /\ stage = "live"
    /\ purchase \in [Purchases -> PurchaseStatus]
    /\ refund \in [Purchases -> RefundStatus]
    /\ \A p \in Purchases :
          /\ refund[p] = "processing" => purchase[p] = "paid"
          /\ purchase[p] = "refunded" => refund[p] = "refunded"
    /\ late \in SUBSET {p \in Purchases : purchase[p] = "paid" /\ refund[p] # "processing"}
    /\ payout = "none"
    /\ amount = 0
    /\ ledger = FALSE
    /\ moved = 0
    /\ step = [r \in Requests |-> "idle"]
    /\ counted = [r \in Requests |-> {}]
    /\ repaid = [r \in Requests |-> {}]

-----------------------------------------------------------------------------
(***************************************************************************)
(* The queries.                                                            *)
(***************************************************************************)

\* SumPaidPurchases: a refunded purchase is not paid, and not in the sum.
SumPaidPurchases == {p \in Purchases : purchase[p] = "paid"}

SumRefundedPurchases == {p \in Purchases : refund[p] = "refunded"}

\* CreateEventPayout, ON CONFLICT (event_id) DO NOTHING.
CreateEventPayout(net) ==
    /\ payout = "none"
    /\ payout' = "processing"
    /\ amount' = net

\* MarkPayoutPaid: only a payout in processing.
MarkPayoutPaid == payout = "processing" /\ payout' = "paid"

\* CreateLedgerEntry, unique on the payout.
CreateLedgerEntry == ledger' = TRUE

-----------------------------------------------------------------------------
(***************************************************************************)
(* Payments and refunds, which go on after the event has ended.            *)
(***************************************************************************)

\* SettlePaid inside the reservation window.
PayInTime(p) ==
    /\ purchase[p] = "open"
    /\ purchase' = [purchase EXCEPT ![p] = "paid"]
    /\ UNCHANGED <<stage, refund, late, record, moved, request>>

\* SettlePaid after it: the handler goes on to the refund.
PayLate(p) ==
    /\ purchase[p] = "open"
    /\ purchase' = [purchase EXCEPT ![p] = "paid"]
    /\ late' = late \cup {p}
    /\ UNCHANGED <<stage, refund, record, moved, request>>

\* CreateEventRefund, ON CONFLICT (purchase_id) DO NOTHING.
CreateRefund(p) ==
    refund' = [refund EXCEPT ![p] = IF @ = "none" THEN "processing" ELSE @]

\* The handler opens the refund in a transaction of its own.
RefundExpiredPurchase(p) ==
    /\ p \in late
    /\ late' = late \ {p}
    /\ CreateRefund(p)
    /\ UNCHANGED <<stage, purchase, record, moved, request>>

\* It dies before that.
LoseLateRefund(p) ==
    /\ p \in late
    /\ late' = late \ {p}
    /\ UNCHANGED <<stage, purchase, refund, record, moved, request>>

\* Store Fail, and what follows: RefundEvent, by itself or by an admin.
FailStream ==
    /\ stage = "live"
    /\ stage' = "failed"
    /\ UNCHANGED <<money, record, moved, request>>

RefundEvent(p) ==
    /\ stage = "failed"
    /\ purchase[p] = "paid"
    /\ refund[p] # "refunded"
    /\ CreateRefund(p)
    /\ UNCHANGED <<stage, purchase, late, record, moved, request>>

\* SettleRefund: refund and purchase in one transaction.
SettleRefund(p) ==
    /\ refund[p] = "processing"
    /\ refund' = [refund EXCEPT ![p] = "refunded"]
    /\ purchase' = [purchase EXCEPT ![p] = IF @ = "paid" THEN "refunded" ELSE @]
    /\ UNCHANGED <<stage, late, record, moved, request>>

-----------------------------------------------------------------------------
(***************************************************************************)
(* End and AccruePayout.                                                   *)
(***************************************************************************)
Goto(r, next) == step' = [step EXCEPT ![r] = next]

\* The request returns.
Stop(r) ==
    /\ Goto(r, "idle")
    /\ counted' = [counted EXCEPT ![r] = {}]
    /\ repaid' = [repaid EXCEPT ![r] = {}]

\* service End reads the event: it is live.
ReadEvent(r) ==
    /\ step[r] = "idle"
    /\ stage = "live"
    /\ Goto(r, "end")
    /\ UNCHANGED <<stage, money, record, moved, counted, repaid>>

\* Mutation of EndStream: a stream no longer live is passed over, not refused.
EndStreamAgain(r) ==
    /\ step[r] = "end"
    /\ stage' = IF stage = "live" THEN "ended" ELSE stage
    /\ Goto(r, "sumPaid")
    /\ UNCHANGED <<counted, repaid, money, record, moved>>

\* Store End: stream and event end together; a stream no longer live refuses.
EndStream(r) ==
    /\ step[r] = "end"
    /\ \/ stage = "live" /\ stage' = "ended" /\ Goto(r, "sumPaid") /\ UNCHANGED <<counted, repaid>>
       \/ stage # "live" /\ Stop(r) /\ UNCHANGED stage
    /\ UNCHANGED <<money, record, moved>>

\* Store SumPaidPurchases.
SumPaid(r) ==
    /\ step[r] = "sumPaid"
    /\ counted' = [counted EXCEPT ![r] = SumPaidPurchases]
    /\ Goto(r, "sumRefunded")
    /\ UNCHANGED <<stage, money, record, moved, repaid>>

\* Store SumRefundedPurchases.
SumRefunded(r) ==
    /\ step[r] = "sumRefunded"
    /\ repaid' = [repaid EXCEPT ![r] = SumRefundedPurchases]
    /\ Goto(r, "create")
    /\ UNCHANGED <<stage, money, record, moved, counted>>

\* Mutation of Net: refunds are not taken off.
NetOfPaid(r) == Cardinality(counted[r])

Net(r) == Cardinality(counted[r]) - Cardinality(repaid[r])

\* Store CreatePayout; nothing to pay or a payout already opened ends the request.
CreatePayout(r) ==
    /\ step[r] = "create"
    /\ \/ /\ Net(r) > 0
          /\ CreateEventPayout(Net(r))
          /\ Goto(r, "provider")
          /\ UNCHANGED <<counted, repaid>>
       \/ /\ Net(r) <= 0 \/ payout # "none"
          /\ Stop(r)
          /\ UNCHANGED <<payout, amount>>
    /\ UNCHANGED <<stage, money, ledger, moved>>

\* Mutation of InitiatePayout: the net is computed afresh.
InitiatePayoutAfresh(r) ==
    /\ step[r] = "provider"
    /\ moved' = Cardinality(SumPaidPurchases)
    /\ Goto(r, "mark")
    /\ UNCHANGED <<stage, money, record, counted, repaid>>

\* provider.InitiatePayout, under the key payout:<eventId>.
InitiatePayout(r) ==
    /\ step[r] = "provider"
    /\ moved' = amount
    /\ Goto(r, "mark")
    /\ UNCHANGED <<stage, money, record, counted, repaid>>

\* Store MarkPayoutPaid.
MarkPaid(r) ==
    /\ step[r] = "mark"
    /\ \/ MarkPayoutPaid /\ Goto(r, "ledger") /\ UNCHANGED <<counted, repaid>>
       \/ payout # "processing" /\ Stop(r) /\ UNCHANGED payout
    /\ UNCHANGED <<stage, money, amount, ledger, moved>>

\* Store RecordLedger, in a transaction of its own.
RecordLedger(r) ==
    /\ step[r] = "ledger"
    /\ CreateLedgerEntry
    /\ Stop(r)
    /\ UNCHANGED <<stage, money, payout, amount, moved>>

\* A query fails, the provider refuses, or the process dies; the provider may have
\* paid although its answer is lost.
Abort(r) ==
    /\ step[r] # "idle"
    /\ moved' \in IF step[r] = "provider" THEN {moved, amount} ELSE {moved}
    /\ Stop(r)
    /\ UNCHANGED <<stage, money, record>>

-----------------------------------------------------------------------------
RequestStep(r) ==
    \/ ReadEvent(r) \/ EndStream(r)
    \/ SumPaid(r) \/ SumRefunded(r)
    \/ CreatePayout(r) \/ InitiatePayout(r) \/ MarkPaid(r) \/ RecordLedger(r)

Next ==
    \/ \E p \in Purchases :
          \/ PayInTime(p) \/ PayLate(p)
          \/ RefundExpiredPurchase(p) \/ LoseLateRefund(p)
          \/ RefundEvent(p) \/ SettleRefund(p)
    \/ FailStream
    \/ \E r \in Requests : RequestStep(r) \/ Abort(r)

Spec == Init /\ [][Next]_vars
-----------------------------------------------------------------------------
(***************************************************************************)
(* Properties.                                                             *)
(***************************************************************************)
TypeOK ==
    /\ stage \in Stage
    /\ purchase \in [Purchases -> PurchaseStatus]
    /\ refund \in [Purchases -> RefundStatus]
    /\ late \in SUBSET Purchases
    /\ payout \in PayoutStatus
    /\ amount \in Nat
    /\ payout = "none" <=> amount = 0
    /\ ledger \in BOOLEAN
    /\ moved \in Nat
    /\ step \in [Requests -> Step]
    /\ counted \in [Requests -> SUBSET Purchases]
    /\ repaid \in [Requests -> SUBSET Purchases]

Accruing(r) == step[r] \notin {"idle", "end"}
Paying(r) == step[r] \in {"provider", "mark", "ledger"}

\* At most one request accrues the payout, although several may have read a live
\* event: AccruePayout is never raced by itself.
OneAccrual ==
    \A q, r \in Requests : Accruing(q) /\ Accruing(r) => q = r

\* The host of an event whose stream failed is not paid out, although End and Fail
\* both read the event as live.
NoPayoutAfterFailure == payout # "none" => stage = "ended"

\* The payout and the refunds it was computed from never exceed what the buyers
\* paid, though two statements read the sums and refunds settle between them.
PayoutCovered ==
    /\ amount <= Cardinality(Collected)
    /\ \A r \in Requests : Paying(r) => amount + Cardinality(repaid[r]) <= Cardinality(Collected)

\* What the provider paid the host is the amount on record, whenever the request
\* dies; a payout recorded as paid was paid, and the ledger has no other.
PayoutOnRecord ==
    /\ moved \in {0, amount}
    /\ payout = "paid" => moved = amount
    /\ ledger => payout = "paid"

\* Behind them: what an accruing request knows.
RequestsKnow ==
    \A r \in Requests :
        /\ Accruing(r) => stage = "ended"
        /\ counted[r] \subseteq Collected
        /\ Paying(r) => payout # "none" /\ amount = Net(r)
        /\ step[r] \in {"sumPaid", "sumRefunded", "create"} => payout = "none"
        /\ step[r] \in {"mark", "ledger"} => moved = amount
        /\ step[r] = "ledger" => payout = "paid"

\* The inductive invariant of PayoutProofs.
IInv ==
    /\ TypeOK
    /\ OneAccrual
    /\ NoPayoutAfterFailure
    /\ PayoutCovered
    /\ PayoutOnRecord
    /\ RequestsKnow
=============================================================================
