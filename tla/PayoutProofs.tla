------------------------------ MODULE PayoutProofs ------------------------------
(***************************************************************************)
(* Proofs about Payout: its invariant, and what it says of the money.      *)
(***************************************************************************)
EXTENDS Payout, FiniteSetTheorems, TLAPS

\* Sums over sets of purchases are numbers, and more purchases never sum to less.
LEMMA Sums ==
    ASSUME NEW S \in SUBSET Purchases, NEW T \in SUBSET Purchases, S \subseteq T
    PROVE  /\ Cardinality(S) \in Nat
           /\ Cardinality(T) \in Nat
           /\ Cardinality(S) <= Cardinality(T)
BY PayoutAssumption, FS_Subset, FS_CardinalityType

\* The net a request computes, and how it is bounded by what was collected.
LEMMA NetBounded ==
    ASSUME TypeOK, RequestsKnow, NEW r \in Requests
    PROVE  /\ Net(r) \in Int
           /\ Cardinality(Collected) \in Nat
           /\ Cardinality(repaid[r]) \in Nat
           /\ Net(r) <= Cardinality(Collected)
           /\ Net(r) + Cardinality(repaid[r]) <= Cardinality(Collected)
<1>1. /\ counted[r] \in SUBSET Purchases /\ repaid[r] \in SUBSET Purchases
      /\ counted[r] \subseteq Collected /\ Collected \in SUBSET Purchases
  BY DEF TypeOK, RequestsKnow, Collected
<1>2. /\ Cardinality(counted[r]) \in Nat /\ Cardinality(repaid[r]) \in Nat
      /\ Cardinality(Collected) \in Nat
      /\ Cardinality(counted[r]) <= Cardinality(Collected)
  BY <1>1, Sums
<1> QED BY <1>2 DEF Net

LEMMA InitIInv == Init => IInv
<1> SUFFICES ASSUME Init PROVE IInv
  OBVIOUS
<1>1. TypeOK
  BY DEF Init, TypeOK, Stage, PurchaseStatus, RefundStatus, PayoutStatus, Step
<1>2. Cardinality(Collected) \in Nat
  BY Sums DEF Collected
<1> QED BY <1>1, <1>2 DEF Init, IInv, OneAccrual, NoPayoutAfterFailure, PayoutCovered,
        PayoutOnRecord, RequestsKnow, Accruing, Paying

-----------------------------------------------------------------------------
(***************************************************************************)
(* Payments, refunds and Fail.                                             *)
(***************************************************************************)

\* Steps that leave the payout and its requests alone keep what is known of them, if
\* nothing that was collected is lost.
LEMMA OtherIInv ==
    ASSUME IInv, TypeOK',
           UNCHANGED <<stage, payout, amount, ledger, moved, step, counted, repaid>>,
           Collected \subseteq Collected'
    PROVE  IInv'
<1>1. /\ Cardinality(Collected) \in Nat /\ Cardinality(Collected') \in Nat
      /\ Cardinality(Collected) <= Cardinality(Collected')
  <2>1. Collected \in SUBSET Purchases /\ Collected' \in SUBSET Purchases
    BY DEF Collected
  <2> QED BY <2>1, Sums
<1>2. RequestsKnow'
  BY DEF IInv, RequestsKnow, Accruing, Paying, Net
<1>3. PayoutCovered'
  <2>1. amount \in Nat /\ \A r \in Requests : Cardinality(repaid[r]) \in Nat
    BY Sums DEF IInv, TypeOK
  <2> QED BY <1>1, <2>1 DEF IInv, PayoutCovered, Paying
<1> QED BY <1>2, <1>3 DEF IInv, OneAccrual, NoPayoutAfterFailure, PayoutOnRecord, Accruing

\* Payments and refunds settle: no purchase opens again once the event is under way.
LEMMA MoneyIInv ==
    ASSUME IInv, NEW p \in Purchases,
           \/ PayInTime(p) \/ PayLate(p)
           \/ RefundExpiredPurchase(p) \/ LoseLateRefund(p)
           \/ RefundEvent(p) \/ SettleRefund(p)
    PROVE  IInv'
<1>1. UNCHANGED <<stage, payout, amount, ledger, moved, step, counted, repaid>>
  BY DEF PayInTime, PayLate, RefundExpiredPurchase, LoseLateRefund, RefundEvent, SettleRefund,
         record, request
<1>2. /\ late' \in SUBSET Purchases
      /\ refund' \in [Purchases -> RefundStatus]
  BY DEF PayInTime, PayLate, RefundExpiredPurchase, LoseLateRefund, RefundEvent, SettleRefund,
         CreateRefund, IInv, TypeOK, RefundStatus
<1>3. /\ purchase' \in [Purchases -> PurchaseStatus]
      /\ \A q \in Purchases : purchase[q] # "open" => purchase'[q] # "open"
  BY DEF PayInTime, PayLate, RefundExpiredPurchase, LoseLateRefund, RefundEvent, SettleRefund,
         IInv, TypeOK, PurchaseStatus
<1>4. TypeOK'
  BY <1>1, <1>2, <1>3 DEF IInv, TypeOK
<1> QED BY <1>1, <1>3, <1>4, OtherIInv DEF Collected

\* Fail ends a stream no request has ended.
LEMMA FailStreamIInv ==
    ASSUME IInv, FailStream
    PROVE  IInv'
<1>1. /\ stage = "live" /\ stage' = "failed"
      /\ UNCHANGED <<purchase, refund, late, payout, amount, ledger, moved, step, counted, repaid>>
  BY DEF FailStream, money, record, request
<1>2. payout = "none" /\ \A r \in Requests : ~Accruing(r)
  BY <1>1 DEF IInv, NoPayoutAfterFailure, RequestsKnow
<1>3. Collected' = Collected /\ \A r \in Requests : Net(r)' = Net(r)
  BY <1>1 DEF Collected, Net
<1>4. TypeOK'
  BY <1>1 DEF IInv, TypeOK, Stage
<1>5. RequestsKnow'
  BY <1>1, <1>2, <1>3 DEF IInv, RequestsKnow, Accruing, Paying
<1> QED BY <1>1, <1>2, <1>3, <1>4, <1>5 DEF IInv, OneAccrual, NoPayoutAfterFailure,
        PayoutCovered, PayoutOnRecord, Accruing, Paying

-----------------------------------------------------------------------------
(***************************************************************************)
(* The requests.                                                           *)
(***************************************************************************)

\* A request that returns keeps the invariant, whatever it leaves of the payout.
LEMMA StopIInv ==
    ASSUME IInv, NEW r \in Requests, Stop(r),
           UNCHANGED <<stage, purchase, refund, late, payout, amount>>,
           ledger' \in BOOLEAN, ledger' => payout = "paid",
           moved' \in {moved, amount}, step[r] # "provider" => moved' = moved
    PROVE  IInv'
<1>1. /\ step' = [step EXCEPT ![r] = "idle"]
      /\ counted' = [counted EXCEPT ![r] = {}]
      /\ repaid' = [repaid EXCEPT ![r] = {}]
  BY DEF Stop, Goto
<1>2. TypeOK'
  BY <1>1 DEF IInv, TypeOK, Step
<1>3. /\ step'[r] = "idle" /\ counted'[r] = {}
      /\ \A q \in Requests \ {r} :
            step'[q] = step[q] /\ counted'[q] = counted[q] /\ repaid'[q] = repaid[q]
  BY <1>1 DEF IInv, TypeOK
<1>4. Collected' = Collected
  BY DEF Collected
<1>5. ASSUME NEW q \in Requests, Accruing(q)' PROVE q # r /\ Accruing(q)
  BY <1>3, <1>5 DEF Accruing
<1>6. ASSUME NEW q \in Requests, Paying(q)'
      PROVE  q # r /\ Paying(q) /\ Net(q)' = Net(q) /\ repaid'[q] = repaid[q]
  BY <1>3, <1>6 DEF Paying, Net
<1>7. moved' \in {0, amount} /\ (payout = "paid" => moved' = amount)
  BY DEF IInv, PayoutOnRecord
<1>8. ASSUME NEW q \in Requests, step'[q] \in {"mark", "ledger"} PROVE moved' = amount
  BY <1>3, <1>8 DEF IInv, RequestsKnow
<1>9. RequestsKnow'
  BY <1>3, <1>4, <1>5, <1>6, <1>8 DEF IInv, RequestsKnow
<1>10. OneAccrual'
  BY <1>5 DEF IInv, OneAccrual
<1>11. PayoutCovered'
  BY <1>4, <1>6 DEF IInv, PayoutCovered
<1> QED BY <1>2, <1>7, <1>9, <1>10, <1>11
        DEF IInv, NoPayoutAfterFailure, PayoutOnRecord

\* The event is read, and nothing else happens.
LEMMA ReadEventIInv ==
    ASSUME IInv, NEW r \in Requests, ReadEvent(r)
    PROVE  IInv'
<1>1. /\ step' = [step EXCEPT ![r] = "end"] /\ step[r] = "idle"
      /\ UNCHANGED <<stage, purchase, refund, late, payout, amount, ledger, moved, counted, repaid>>
  BY DEF ReadEvent, Goto, money, record
<1>2. TypeOK'
  BY <1>1 DEF IInv, TypeOK, Step
<1>3. step'[r] = "end" /\ \A q \in Requests \ {r} : step'[q] = step[q]
  BY <1>1 DEF IInv, TypeOK
<1>4. Collected' = Collected /\ \A q \in Requests : Net(q)' = Net(q)
  BY <1>1 DEF Collected, Net
<1>5. \A q \in Requests : (Accruing(q)' => Accruing(q)) /\ (Paying(q)' => Paying(q))
  BY <1>3 DEF Accruing, Paying
<1>6. RequestsKnow'
  BY <1>1, <1>3, <1>4, <1>5 DEF IInv, RequestsKnow
<1> QED BY <1>1, <1>2, <1>4, <1>5, <1>6 DEF IInv, OneAccrual, NoPayoutAfterFailure,
        PayoutCovered, PayoutOnRecord

\* The one request that finds the stream live goes on to the payout.
LEMMA EndStreamIInv ==
    ASSUME IInv, NEW r \in Requests, EndStream(r)
    PROVE  IInv'
<1>1. CASE Stop(r) /\ UNCHANGED stage
  BY <1>1, StopIInv DEF EndStream, money, record, IInv, TypeOK, PayoutOnRecord
<1>2. CASE stage = "live" /\ stage' = "ended" /\ Goto(r, "sumPaid") /\ UNCHANGED <<counted, repaid>>
  <2>1. /\ step' = [step EXCEPT ![r] = "sumPaid"] /\ step[r] = "end"
        /\ UNCHANGED <<purchase, refund, late, payout, amount, ledger, moved, counted, repaid>>
    BY <1>2 DEF EndStream, Goto, money, record
  <2>2. payout = "none" /\ \A q \in Requests : ~Accruing(q)
    BY <1>2 DEF IInv, NoPayoutAfterFailure, RequestsKnow
  <2>3. TypeOK'
    BY <1>2, <2>1 DEF IInv, TypeOK, Step, Stage
  <2>4. /\ step'[r] = "sumPaid"
        /\ \A q \in Requests \ {r} : step'[q] \in {"idle", "end"}
    BY <2>1, <2>2 DEF IInv, TypeOK, Accruing
  <2>5. Collected' = Collected
    BY <2>1 DEF Collected
  <2>6. \A q \in Requests : ~Paying(q)' /\ (Accruing(q)' => q = r)
    BY <2>4 DEF Paying, Accruing
  <2>7. RequestsKnow'
    BY <1>2, <2>1, <2>2, <2>4, <2>5, <2>6 DEF IInv, RequestsKnow
  <2> QED BY <1>2, <2>1, <2>2, <2>3, <2>5, <2>6, <2>7 DEF IInv, OneAccrual,
          NoPayoutAfterFailure, PayoutCovered, PayoutOnRecord
<1> QED BY <1>1, <1>2 DEF EndStream

\* Both sums are read.
LEMMA SumIInv ==
    ASSUME IInv, NEW r \in Requests, SumPaid(r) \/ SumRefunded(r)
    PROVE  IInv'
<1>1. UNCHANGED <<stage, purchase, refund, late, payout, amount, ledger, moved>>
  BY DEF SumPaid, SumPaidPurchases, SumRefunded, SumRefundedPurchases, money, record
<1>2. /\ step' \in [Requests -> Step]
      /\ step[r] \in {"sumPaid", "sumRefunded"} /\ step'[r] \in {"sumRefunded", "create"}
      /\ \A q \in Requests \ {r} :
            step'[q] = step[q] /\ counted'[q] = counted[q] /\ repaid'[q] = repaid[q]
  BY DEF SumPaid, SumPaidPurchases, SumRefunded, SumRefundedPurchases, Goto, IInv, TypeOK,
         Step
<1>3. /\ counted' \in [Requests -> SUBSET Purchases]
      /\ repaid' \in [Requests -> SUBSET Purchases]
  BY DEF SumPaid, SumPaidPurchases, SumRefunded, SumRefundedPurchases, IInv, TypeOK
<1>4. counted'[r] \subseteq Collected
  BY DEF SumPaid, SumPaidPurchases, SumRefunded, SumRefundedPurchases, IInv, TypeOK,
         RequestsKnow, Collected
<1>5. TypeOK'
  BY <1>1, <1>2, <1>3 DEF IInv, TypeOK
<1>6. Collected' = Collected
  BY <1>1 DEF Collected
<1>7. ASSUME NEW q \in Requests
      PROVE  /\ Accruing(q)' <=> Accruing(q)
             /\ Paying(q)' => q # r /\ Paying(q) /\ Net(q)' = Net(q) /\ repaid'[q] = repaid[q]
  BY <1>2 DEF Accruing, Paying, Net
<1>8. payout = "none"
  BY <1>2 DEF IInv, RequestsKnow
<1>9. RequestsKnow'
  BY <1>1, <1>2, <1>4, <1>6, <1>7, <1>8 DEF IInv, RequestsKnow
<1> QED BY <1>1, <1>5, <1>6, <1>7, <1>9 DEF IInv, OneAccrual, NoPayoutAfterFailure,
        PayoutCovered, PayoutOnRecord

\* No other request is accruing.
LEMMA Alone ==
    ASSUME IInv, NEW r \in Requests, Accruing(r)
    PROVE  \A q \in Requests \ {r} : ~Accruing(q) /\ step[q] \in {"idle", "end"} /\ ~Paying(q)
BY DEF IInv, OneAccrual, Accruing, Paying

\* The payout is opened with the net, or there is nothing to pay.
LEMMA CreatePayoutIInv ==
    ASSUME IInv, NEW r \in Requests, CreatePayout(r)
    PROVE  IInv'
<1>1. CASE Stop(r) /\ UNCHANGED <<payout, amount>>
  BY <1>1, StopIInv DEF CreatePayout, CreateEventPayout, money, IInv, TypeOK, PayoutOnRecord
<1>2. CASE /\ Net(r) > 0 /\ payout = "none" /\ payout' = "processing" /\ amount' = Net(r)
           /\ Goto(r, "provider") /\ UNCHANGED <<counted, repaid>>
  <2>1. /\ step' = [step EXCEPT ![r] = "provider"] /\ step[r] = "create"
        /\ UNCHANGED <<stage, purchase, refund, late, ledger, moved, counted, repaid>>
    BY <1>2 DEF CreatePayout, CreateEventPayout, Goto, money
  <2>2. amount = 0 /\ moved = 0 /\ ledger = FALSE
    BY <1>2 DEF IInv, TypeOK, PayoutOnRecord
  <2>3. amount' \in Nat /\ amount' # 0
    BY <1>2, NetBounded DEF IInv
  <2>4. TypeOK'
    BY <1>2, <2>1, <2>3 DEF IInv, TypeOK, Step, PayoutStatus
  <2>5. Accruing(r)
    BY <2>1 DEF Accruing
  <2>6. /\ step'[r] = "provider"
        /\ \A q \in Requests \ {r} : step'[q] \in {"idle", "end"}
    BY <2>1, <2>5, Alone DEF IInv, TypeOK
  <2>7. Collected' = Collected /\ \A q \in Requests : Net(q)' = Net(q)
    BY <2>1 DEF Collected, Net
  <2>8. stage = "ended"
    BY <2>5 DEF IInv, RequestsKnow
  <2>9. \A q \in Requests : (Paying(q)' => q = r) /\ (Accruing(q)' => q = r)
    BY <2>6 DEF Paying, Accruing
  <2>10. RequestsKnow'
    BY <1>2, <2>1, <2>6, <2>7, <2>8, <2>9 DEF IInv, RequestsKnow
  <2>11. PayoutCovered'
    BY <1>2, <2>1, <2>7, <2>9, NetBounded DEF IInv, PayoutCovered
  <2> QED BY <1>2, <2>1, <2>2, <2>4, <2>8, <2>9, <2>10, <2>11
          DEF IInv, OneAccrual, NoPayoutAfterFailure, PayoutOnRecord
<1> QED BY <1>1, <1>2 DEF CreatePayout, CreateEventPayout

\* The provider pays, and MarkPaid records it.
LEMMA PayIInv ==
    ASSUME IInv, NEW r \in Requests, InitiatePayout(r) \/ MarkPaid(r)
    PROVE  IInv'
<1>1. CASE MarkPaid(r) /\ Stop(r) /\ UNCHANGED payout
  BY <1>1, StopIInv DEF MarkPaid, MarkPayoutPaid, money, IInv, TypeOK, PayoutOnRecord
<1>2. CASE InitiatePayout(r) \/ (MarkPaid(r) /\ payout' = "paid" /\ Goto(r, "ledger")
                                 /\ UNCHANGED <<counted, repaid>>)
  <2>1. /\ UNCHANGED <<stage, purchase, refund, late, amount, ledger, counted, repaid>>
        /\ moved' = amount /\ payout # "none" /\ payout' \in {payout, "paid"}
        /\ step[r] \in {"provider", "mark"}
    BY <1>2 DEF InitiatePayout, MarkPaid, MarkPayoutPaid, money, record, IInv, RequestsKnow,
                Paying
  <2>2. /\ step' \in [Requests -> Step]
        /\ step'[r] \in {"mark", "ledger"} /\ (step'[r] = "ledger" => payout' = "paid")
        /\ \A q \in Requests \ {r} : step'[q] = step[q]
    BY <1>2 DEF InitiatePayout, MarkPaid, MarkPayoutPaid, Goto, IInv, TypeOK, Step
  <2>3. Accruing(r) /\ Paying(r)
    BY <2>1 DEF Accruing, Paying
  <2>4. \A q \in Requests \ {r} : step'[q] \in {"idle", "end"}
    BY <2>2, <2>3, Alone
  <2>5. TypeOK'
    BY <2>1, <2>2 DEF IInv, TypeOK, PayoutStatus
  <2>6. Collected' = Collected /\ \A q \in Requests : Net(q)' = Net(q)
    BY <2>1 DEF Collected, Net
  <2>7. \A q \in Requests : (Paying(q)' => q = r) /\ (Accruing(q)' => q = r)
    BY <2>4 DEF Paying, Accruing
  <2>8. stage = "ended"
    BY <2>3 DEF IInv, RequestsKnow
  <2>9. payout' # "none"
    BY <2>1
  <2>10. RequestsKnow'
    BY <2>1, <2>2, <2>3, <2>4, <2>6, <2>7, <2>8, <2>9 DEF IInv, RequestsKnow
  <2>11. PayoutCovered'
    BY <2>1, <2>3, <2>6, <2>7 DEF IInv, PayoutCovered
  <2>12. PayoutOnRecord'
    BY <2>1 DEF IInv, PayoutOnRecord
  <2> QED BY <2>1, <2>5, <2>7, <2>8, <2>10, <2>11, <2>12
          DEF IInv, OneAccrual, NoPayoutAfterFailure
<1> QED BY <1>1, <1>2 DEF MarkPaid, MarkPayoutPaid

\* The ledger entry is written, or the request breaks off.
LEMMA EndingIInv ==
    ASSUME IInv, NEW r \in Requests, RecordLedger(r) \/ Abort(r)
    PROVE  IInv'
<1>1. CASE RecordLedger(r)
  <2>1. payout = "paid"
    BY <1>1 DEF RecordLedger, CreateLedgerEntry, IInv, RequestsKnow
  <2> QED BY <1>1, <2>1, StopIInv DEF RecordLedger, CreateLedgerEntry, money
<1>2. CASE Abort(r)
  BY <1>2, StopIInv DEF Abort, money, record, IInv, TypeOK, PayoutOnRecord
<1> QED BY <1>1, <1>2

-----------------------------------------------------------------------------
LEMMA NextIInv == IInv /\ [Next]_vars => IInv'
<1> SUFFICES ASSUME IInv, [Next]_vars PROVE IInv'
  OBVIOUS
<1>1. CASE UNCHANGED vars
  <2>1. UNCHANGED <<stage, purchase, refund, late, payout, amount, ledger, moved, step, counted,
                    repaid>>
    BY <1>1 DEF vars
  <2>2. TypeOK'
    BY <2>1 DEF IInv, TypeOK
  <2> QED BY <2>1, <2>2, OtherIInv DEF Collected
<1>2. ASSUME NEW p \in Purchases,
             \/ PayInTime(p) \/ PayLate(p)
             \/ RefundExpiredPurchase(p) \/ LoseLateRefund(p)
             \/ RefundEvent(p) \/ SettleRefund(p)
      PROVE  IInv'
  BY <1>2, MoneyIInv
<1>3. ASSUME NEW r \in Requests, RequestStep(r) \/ Abort(r) PROVE IInv'
  BY <1>3, ReadEventIInv, EndStreamIInv, SumIInv, CreatePayoutIInv, PayIInv, EndingIInv
     DEF RequestStep
<1> QED BY <1>1, <1>2, <1>3, FailStreamIInv DEF Next

\* IInv holds in every state the payout of an event reaches.
THEOREM PayoutInvariance == Spec => []IInv
BY InitIInv, NextIInv, PTL DEF Spec

\* Every reachable state is well typed; an open payout is of a positive amount.
THEOREM PayoutTypeCorrect == Spec => []TypeOK
BY PayoutInvariance, PTL DEF IInv

\* Requests that race on End never both accrue (RecordStreamEnd).
THEOREM AccruesOnce == Spec => []OneAccrual
BY PayoutInvariance, PTL DEF IInv

\* A failed event is never paid out, however End and Fail interleave.
THEOREM FailedIsUnpaid == Spec => []NoPayoutAfterFailure
BY PayoutInvariance, PTL DEF IInv

\* The payout never exceeds what was collected less the refunds it was computed from
\* (SumPaidPurchases before SumRefundedPurchases).
THEOREM PayoutIsCovered == Spec => []PayoutCovered
BY PayoutInvariance, PTL DEF IInv

\* The host is paid the amount on record, once (InitiatePayout, MarkPaid).
THEOREM PayoutRecorded == Spec => []PayoutOnRecord
BY PayoutInvariance, PTL DEF IInv
=============================================================================
