----------------------------- MODULE RefundsProofs -----------------------------
(***************************************************************************)
(* IInv is an inductive invariant of Refunds, for any number of purchases, *)
(* callers and faults.                                                     *)
(***************************************************************************)
EXTENDS Refunds, TLAPS

USE RefundsAssumption

\* Nothing is paid, refunded or in hand at the start.
LEMMA InitIInv == Init => IInv
BY DEF Init, IInv, TypeOK, RefundedEverywhere, MovedIsOnRecord, WorkersExclude,
       CallersKnow, Seen, PendingIsPaid, HoldersLeased, Holds, Callers, Stream, PurchaseStatus,
       RefundStatus, Lease, Role, Step

\* The part of TypeOK that is about the callers.
CallersTyped ==
    /\ role \in [Callers -> Role]
    /\ step \in [Callers -> Step]
    /\ todo \in [Callers -> SUBSET Purchases]
    /\ current \in [Callers -> Purchases \cup {NoPurchase}]
    /\ overdue \in SUBSET (Callers \X Purchases)
    /\ \A c \in Callers :
          /\ step[c] \in {"idle", "list"} <=> current[c] = NoPurchase
          /\ step[c] = "idle" <=> role[c] = "none"
          /\ step[c] = "list" => role[c] = "event"
          /\ role[c] = "worker" => c \in Workers
          /\ current[c] \notin todo[c]

\* The part of TypeOK that is about the rows.
RowsTyped ==
    /\ stream \in Stream
    /\ purchase \in [Purchases -> PurchaseStatus]
    /\ refund \in [Purchases -> RefundStatus]
    /\ lease \in [Purchases -> Lease]
    /\ ledger \in SUBSET Purchases
    /\ moved \in SUBSET Purchases
    /\ faults \in 0..MaxFaults

LEMMA Typed == TypeOK <=> CallersTyped /\ RowsTyped
BY DEF TypeOK, CallersTyped, RowsTyped

\* A caller moves on within what it has in hand and takes no claim.
Moves(c) ==
    /\ \A d \in Callers \ {c} :
          role'[d] = role[d] /\ step'[d] = step[d] /\ todo'[d] = todo[d] /\ current'[d] = current[d]
    /\ todo'[c] \cup {current'[c]} \subseteq todo[c] \cup {current[c], NoPurchase}
    /\ role'[c] \in {role[c], "none"}
    /\ \A d \in Callers, p \in Purchases : Holds(d, p)' => Holds(d, p)

\* The rows move only forward.
Keeps ==
    /\ \A p \in Purchases :
          /\ Seen(p) => Seen(p)'
          /\ refund[p] # "none" => refund'[p] # "none"
    /\ moved \subseteq moved'

\* Stop, Advance and GiveUp are such moves, and none of them leads to a settlement.
LEMMA Moving ==
    ASSUME CallersTyped, NEW c \in Callers,
           Stop(c) \/ (step[c] \notin {"idle", "list"} /\ Advance(c)) 
    PROVE  /\ CallersTyped'
           /\ Moves(c)
           /\ step'[c] # "settle"
           /\ step'[c] = "provider" => role[c] = "worker"
<1>1. CASE Stop(c)
  <2>1. CallersTyped'
    BY <1>1 DEF Stop, Forget, CallersTyped, Role, Step
  <2>2. \A d \in Callers, p \in Purchases : Holds(d, p)' => Holds(d, p)
    BY <1>1 DEF Stop, Forget, CallersTyped, Holds
  <2> QED BY <1>1, <2>1, <2>2 DEF Stop, Moves, CallersTyped
<1>2. CASE step[c] \notin {"idle", "list"} /\ Advance(c) /\ ~Stop(c)
  <2>1. PICK p \in todo[c] :
          /\ todo' = [todo EXCEPT ![c] = @ \ {p}]
          /\ current' = [current EXCEPT ![c] = p]
          /\ step' = [step EXCEPT ![c] = IF role[c] = "worker" THEN "provider" ELSE "create"]
          /\ Forget(c, {current[c]})
          /\ UNCHANGED role
    BY <1>2 DEF Advance
  <2>2. CallersTyped'
    BY <1>2, <2>1 DEF Forget, CallersTyped, Step
  <2>3. \A d \in Callers, q \in Purchases : Holds(d, q)' => Holds(d, q)
    BY <2>1 DEF Forget, CallersTyped, Holds
  <2>4. /\ todo'[c] \subseteq todo[c] /\ current'[c] \in todo[c]
        /\ role'[c] = role[c] /\ step'[c] = IF role[c] = "worker" THEN "provider" ELSE "create"
        /\ \A d \in Callers \ {c} : role'[d] = role[d] /\ step'[d] = step[d]
                                     /\ todo'[d] = todo[d] /\ current'[d] = current[d]
    BY <2>1 DEF CallersTyped
  <2>5. todo'[c] \cup {current'[c]} \subseteq todo[c] \cup {current[c], NoPurchase}
    BY <2>4
  <2>6. Moves(c)
    BY <2>3, <2>4, <2>5 DEF Moves
  <2> QED BY <2>2, <2>4, <2>6
<1> QED BY <1>1, <1>2

\* Giving up is one of the two.
LEMMA GivingUp ==
    ASSUME CallersTyped, NEW c \in Callers, step[c] # "idle", GiveUp(c)
    PROVE  Stop(c) \/ (step[c] \notin {"idle", "list"} /\ Advance(c))
BY DEF GiveUp, CallersTyped

\* What the callers know survives the moves of one of them over rows that only move
\* forward.
LEMMA KnowledgeKept ==
    ASSUME CallersTyped, CallersTyped', CallersKnow, HoldersLeased, WorkersExclude,
           NEW c \in Callers, Moves(c), Keeps,
           step'[c] = "settle" => current'[c] \in moved',
           step'[c] \in {"provider", "settle"} =>
               role[c] = "worker" \/ refund'[current'[c]] # "none",
           lease' = lease
    PROVE  CallersKnow' /\ HoldersLeased' /\ WorkersExclude'
<1>1. HoldersLeased' /\ WorkersExclude'
  BY DEF Moves, HoldersLeased, WorkersExclude
<1>2. ASSUME NEW d \in Callers, d # c
      PROVE  /\ \A p \in (todo'[d] \cup {current'[d]}) \ {NoPurchase} :
                    Seen(p)'
             /\ role'[d] = "worker" => \A p \in todo'[d] : refund'[p] # "none"
             /\ role'[d] = "worker" \/ step'[d] \in {"provider", "settle"} =>
                    refund'[current'[d]] # "none"
             /\ step'[d] = "settle" => current'[d] \in moved'
  <2>1. role'[d] = role[d] /\ step'[d] = step[d] /\ todo'[d] = todo[d] /\ current'[d] = current[d]
    BY <1>2 DEF Moves
  <2>2. role[d] = "worker" \/ step[d] \in {"provider", "settle"} => current[d] \in Purchases
    BY DEF CallersTyped, Role
  <2>3. todo[d] \subseteq Purchases /\ current[d] \in Purchases \cup {NoPurchase}
    BY DEF CallersTyped
  <2> QED BY <2>1, <2>2, <2>3 DEF Keeps, CallersKnow
<1>3. /\ \A p \in (todo'[c] \cup {current'[c]}) \ {NoPurchase} :
            Seen(p)'
      /\ role'[c] = "worker" => \A p \in todo'[c] : refund'[p] # "none"
      /\ role'[c] = "worker" \/ step'[c] \in {"provider", "settle"} =>
            refund'[current'[c]] # "none"
      /\ step'[c] = "settle" => current'[c] \in moved'
  <2>1. todo[c] \subseteq Purchases /\ current[c] \in Purchases \cup {NoPurchase}
    BY DEF CallersTyped
  <2>2. \A p \in (todo[c] \cup {current[c]}) \ {NoPurchase} : Seen(p)'
    BY <2>1 DEF Keeps, CallersKnow
  <2>3. role'[c] = "worker" => role[c] = "worker" /\ current'[c] \in Purchases
    BY DEF Moves, CallersTyped, Role
  <2>4. role[c] = "worker" => \A p \in (todo[c] \cup {current[c]}) \ {NoPurchase} : refund'[p] # "none"
    BY <2>1 DEF Keeps, CallersKnow
  <2>5. todo'[c] \cup {current'[c]} \subseteq todo[c] \cup {current[c], NoPurchase}
    BY DEF Moves
  <2>6. todo'[c] \subseteq Purchases
    BY DEF CallersTyped
  <2>7. step'[c] \in {"provider", "settle"} => current'[c] \in Purchases
    BY DEF CallersTyped, Role
  <2> QED BY <2>2, <2>3, <2>4, <2>5, <2>6, <2>7
<1>4. CallersKnow'
  BY <1>2, <1>3 DEF CallersKnow
<1> QED BY <1>1, <1>4

\* The rows alone: what a settlement leaves agreeing.
RowsAgree == RefundedEverywhere /\ MovedIsOnRecord /\ PendingIsPaid

\* A step of a caller that leaves the rows or moves them forward.
LEMMA CallerKeepsIInv ==
    ASSUME IInv, NEW c \in Callers, CallersTyped', RowsTyped', RowsAgree', Moves(c), Keeps,
           step'[c] = "settle" => current'[c] \in moved',
           step'[c] \in {"provider", "settle"} =>
               role[c] = "worker" \/ refund'[current'[c]] # "none",
           lease' = lease
    PROVE  IInv'
<1>1. TypeOK'
  BY Typed DEF TypeOK, CallersTyped, RowsTyped
<1>2. CallersTyped
  BY Typed DEF IInv
<1>3. CallersKnow' /\ HoldersLeased' /\ WorkersExclude'
  BY <1>2, KnowledgeKept DEF IInv
<1> QED BY <1>1, <1>3 DEF IInv, RowsAgree

\* Steps that change no row at all.
LEMMA SameRows ==
    ASSUME IInv, UNCHANGED <<purchase, refund, ledger, moved>>
    PROVE  RowsAgree' /\ Keeps
BY DEF IInv, RowsAgree, RefundedEverywhere, MovedIsOnRecord, PendingIsPaid, Keeps, Seen

\* Going on to the next step moves no caller's work.
LEMMA Going ==
    ASSUME CallersTyped, NEW c \in Callers, NEW next \in {"create", "provider", "settle"},
           step[c] \notin {"idle", "list"}, Goto(c, next)
    PROVE  CallersTyped' /\ Moves(c) /\ step'[c] = next /\ current'[c] = current[c]
BY DEF Goto, CallersTyped, Moves, Holds, Step

\* A refund is opened, found or passed by.
LEMMA CreateRefundIInv ==
    ASSUME IInv, NEW c \in Callers, CreateRefund(c)
    PROVE  IInv'
<1>1. /\ CallersTyped /\ RowsTyped
      /\ step[c] = "create" /\ current[c] \in Purchases
      /\ UNCHANGED <<stream, purchase, lease, ledger, moved, faults>>
  BY Typed DEF IInv, CreateRefund, CreateEventRefund, GetRefundByPurchaseID, CallersTyped,
               rows
<1>2. Seen(current[c])
  BY <1>1 DEF IInv, CallersKnow
<1>3. CASE refund[current[c]] = "none" /\ Goto(c, "provider")
           /\ refund' = [refund EXCEPT ![current[c]] = "processing"]
  <2>1. purchase[current[c]] = "paid" /\ current[c] \notin moved
    BY <1>1, <1>2, <1>3 DEF IInv, RowsTyped, PurchaseStatus, Seen, RefundedEverywhere,
       MovedIsOnRecord
  <2>2. RowsTyped' /\ RowsAgree' /\ Keeps
    BY <1>1, <1>3, <2>1 DEF IInv, RowsTyped, RowsAgree, RefundedEverywhere,
       MovedIsOnRecord, PendingIsPaid, Keeps, Seen, RefundStatus
  <2>3. CallersTyped' /\ Moves(c) /\ step'[c] = "provider" /\ current'[c] = current[c]
    BY <1>1, <1>3, Going
  <2>4. refund'[current'[c]] # "none"
    BY <1>1, <1>3, <2>3 DEF RowsTyped
  <2> QED BY <1>1, <2>2, <2>3, <2>4, CallerKeepsIInv
<1>4. CASE UNCHANGED refund /\ refund[current[c]] = "processing" /\ Goto(c, "provider")
  <2>1. CallersTyped' /\ Moves(c) /\ step'[c] = "provider" /\ current'[c] = current[c]
    BY <1>1, <1>4, Going
  <2>2. RowsAgree' /\ Keeps /\ RowsTyped'
    BY <1>1, <1>4, SameRows DEF RowsTyped
  <2> QED BY <1>1, <1>4, <2>1, <2>2, CallerKeepsIInv
<1>5. CASE UNCHANGED refund /\ (Advance(c) \/ Stop(c))
  <2>1. /\ CallersTyped' /\ Moves(c) /\ step'[c] # "settle"
        /\ step'[c] = "provider" => role[c] = "worker"
    BY <1>1, <1>5, Moving
  <2>2. RowsAgree' /\ Keeps /\ RowsTyped'
    BY <1>1, <1>5, SameRows DEF RowsTyped
  <2> QED BY <1>1, <2>1, <2>2, CallerKeepsIInv
<1> QED BY <1>3, <1>4, <1>5 DEF CreateRefund, CreateEventRefund, GetRefundByPurchaseID

\* The provider carries the refund out.
LEMMA InitiateRefundIInv ==
    ASSUME IInv, NEW c \in Callers, InitiateRefund(c)
    PROVE  IInv'
<1>1. /\ CallersTyped /\ RowsTyped
      /\ step[c] = "provider" /\ current[c] \in Purchases
      /\ UNCHANGED <<stream, purchase, refund, lease, ledger, faults>>
      /\ moved' = moved \cup {current[c]}
      /\ Goto(c, "settle")
  BY Typed DEF IInv, InitiateRefund, CallersTyped, rows
<1>2. refund[current[c]] \in {"processing", "refunded"}
  BY <1>1 DEF IInv, CallersKnow, RowsTyped, RefundStatus
<1>3. RowsTyped' /\ RowsAgree' /\ Keeps
  BY <1>1, <1>2 DEF IInv, RowsTyped, RowsAgree, RefundedEverywhere, MovedIsOnRecord,
     PendingIsPaid, Keeps, Seen
<1>4. CallersTyped' /\ Moves(c) /\ step'[c] = "settle" /\ current'[c] = current[c]
  BY <1>1, Going
<1> QED BY <1>1, <1>2, <1>3, <1>4, CallerKeepsIInv

\* The refund settles, or another caller has settled it.
LEMMA SettleRefundIInv ==
    ASSUME IInv, NEW c \in Callers, SettleRefund(c)
    PROVE  IInv'
<1>1. /\ CallersTyped /\ RowsTyped
      /\ step[c] = "settle" /\ current[c] \in Purchases /\ current[c] \in moved
      /\ UNCHANGED <<stream, lease, moved, faults>>
  BY Typed DEF IInv, SettleRefund, MarkRefunded, MarkPurchaseRefunded, CreateLedgerEntry,
               CallersTyped, CallersKnow
<1>2. Stop(c) \/ (step[c] \notin {"idle", "list"} /\ Advance(c))
  BY <1>1, GivingUp DEF SettleRefund, MarkRefunded, MarkPurchaseRefunded, CreateLedgerEntry
<1>3. /\ CallersTyped' /\ Moves(c) /\ step'[c] # "settle"
      /\ step'[c] = "provider" => role[c] = "worker"
  BY <1>1, <1>2, Moving
<1>4. CASE UNCHANGED <<refund, purchase, ledger>>
  <2>1. RowsAgree' /\ Keeps /\ RowsTyped'
    BY <1>1, <1>4, SameRows DEF RowsTyped
  <2> QED BY <1>1, <1>3, <2>1, CallerKeepsIInv
<1>5. CASE /\ refund[current[c]] = "processing"
           /\ refund' = [refund EXCEPT ![current[c]] = "refunded"]
           /\ purchase' = [purchase EXCEPT ![current[c]] = IF @ = "paid" THEN "refunded" ELSE @]
           /\ ledger' = ledger \cup {current[c]}
  <2>1. purchase[current[c]] = "paid"
    BY <1>1, <1>5 DEF IInv, PendingIsPaid
  <2>2. RowsTyped' /\ RowsAgree' /\ Keeps
    BY <1>1, <1>5, <2>1 DEF IInv, RowsTyped, RowsAgree, RefundedEverywhere,
       MovedIsOnRecord, PendingIsPaid, Keeps, Seen, RefundStatus, PurchaseStatus
  <2> QED BY <1>1, <1>3, <2>2, CallerKeepsIInv
<1> QED BY <1>4, <1>5 DEF SettleRefund, MarkRefunded, MarkPurchaseRefunded,
                          CreateLedgerEntry

\* A refused call, a refused transaction and a death lose the caller's work and
\* nothing else.
LEMMA FaultIInv ==
    ASSUME IInv, NEW c \in Callers, Fault(c)
    PROVE  IInv'
<1>1. /\ CallersTyped /\ RowsTyped /\ step[c] # "idle"
      /\ UNCHANGED <<stream, purchase, refund, lease, ledger>>
      /\ faults' \in 0..MaxFaults
      /\ moved' = moved \/ (step[c] = "provider" /\ moved' = moved \cup {current[c]})
  BY Typed DEF IInv, RowsTyped, Fault, RefuseRefund, RefuseTransaction, Crash, rows
<1>2. Stop(c) \/ (step[c] \notin {"idle", "list"} /\ Advance(c))
  BY <1>1, GivingUp DEF Fault, RefuseRefund, RefuseTransaction, Crash
<1>3. /\ CallersTyped' /\ Moves(c) /\ step'[c] # "settle"
      /\ step'[c] = "provider" => role[c] = "worker"
  BY <1>1, <1>2, Moving
<1>4. step[c] = "provider" =>
        current[c] \in Purchases /\ refund[current[c]] \in {"processing", "refunded"}
  BY <1>1 DEF IInv, CallersKnow, CallersTyped, RowsTyped, RefundStatus
<1>5. RowsTyped' /\ RowsAgree' /\ Keeps
  BY <1>1, <1>4 DEF IInv, RowsTyped, RowsAgree, RefundedEverywhere, MovedIsOnRecord,
     PendingIsPaid, Keeps, Seen
<1> QED BY <1>1, <1>3, <1>5, CallerKeepsIInv

\* An idle caller has nothing in hand; one that takes up a role other than the
\* worker's holds no claim.
LEMMA Beginning ==
    ASSUME CallersTyped, NEW c \in Callers, NEW kind \in {"late", "event"},
           NEW first \in {"list", "create"}, NEW p \in Purchases \cup {NoPurchase},
           first = "list" <=> p = NoPurchase, first = "list" => kind = "event",
           Begin(c, kind, first, {}, p), overdue' = overdue
    PROVE  /\ CallersTyped'
           /\ \A d \in Callers \ {c} : role'[d] = role[d] /\ step'[d] = step[d]
                                       /\ todo'[d] = todo[d] /\ current'[d] = current[d]
           /\ role'[c] = kind /\ step'[c] = first /\ todo'[c] = {} /\ current'[c] = p
           /\ \A d \in Callers, q \in Purchases : Holds(d, q)' => Holds(d, q)
<1>1. CallersTyped'
  BY DEF Begin, CallersTyped, Role, Step
<1>2. /\ \A d \in Callers \ {c} : role'[d] = role[d] /\ step'[d] = step[d]
                                  /\ todo'[d] = todo[d] /\ current'[d] = current[d]
      /\ role'[c] = kind /\ step'[c] = first /\ todo'[c] = {} /\ current'[c] = p
  BY DEF Begin, CallersTyped
<1>3. \A d \in Callers, q \in Purchases : Holds(d, q)' => Holds(d, q)
  BY <1>2 DEF Holds
<1> QED BY <1>1, <1>2, <1>3

\* What is known of every caller but one, when the rows move only forward.
LEMMA OthersKnow ==
    ASSUME CallersTyped, CallersKnow, NEW c \in Callers, Keeps,
           \A d \in Callers \ {c} : role'[d] = role[d] /\ step'[d] = step[d]
                                    /\ todo'[d] = todo[d] /\ current'[d] = current[d],
           \A p \in (todo'[c] \cup {current'[c]}) \ {NoPurchase} :
               Seen(p)',
           role'[c] = "worker" => \A p \in todo'[c] \cup {current'[c]} : refund'[p] # "none",
           step'[c] # "settle",
           step'[c] = "provider" => role'[c] = "worker"
    PROVE  CallersKnow'
<1>1. ASSUME NEW d \in Callers, d # c
      PROVE  /\ \A p \in (todo'[d] \cup {current'[d]}) \ {NoPurchase} :
                    Seen(p)'
             /\ role'[d] = "worker" => \A p \in todo'[d] : refund'[p] # "none"
             /\ role'[d] = "worker" \/ step'[d] \in {"provider", "settle"} =>
                    refund'[current'[d]] # "none"
             /\ step'[d] = "settle" => current'[d] \in moved'
  <2>1. role'[d] = role[d] /\ step'[d] = step[d] /\ todo'[d] = todo[d] /\ current'[d] = current[d]
    BY <1>1
  <2>2. role[d] = "worker" \/ step[d] \in {"provider", "settle"} => current[d] \in Purchases
    BY DEF CallersTyped, Role
  <2>3. todo[d] \subseteq Purchases /\ current[d] \in Purchases \cup {NoPurchase}
    BY DEF CallersTyped
  <2> QED BY <2>1, <2>2, <2>3 DEF Keeps, CallersKnow
<1> QED BY <1>1 DEF CallersKnow

\* A payment settles, or a refunded purchase is bought again: no refund is under way,
\* and who saw an earlier payment of the row finds its refund done.
LEMMA PurchaseRows ==
    ASSUME IInv, NEW p \in Purchases,
           \/ purchase[p] = "open" /\ purchase' = [purchase EXCEPT ![p] = "paid"]
           \/ purchase[p] = "refunded" /\ purchase' = [purchase EXCEPT ![p] = "open"],
           UNCHANGED <<stream, refund, lease, ledger, moved, faults>>
    PROVE  RowsTyped' /\ RowsAgree' /\ Keeps
<1>1. RowsTyped
  BY Typed DEF IInv
<1>2. refund[p] # "processing" /\ (purchase[p] = "refunded" => refund[p] = "refunded")
  BY DEF IInv, PendingIsPaid, RefundedEverywhere
<1>3. /\ purchase' \in [Purchases -> PurchaseStatus]
      /\ purchase'[p] = "paid" \/ (purchase'[p] = "open" /\ refund[p] = "refunded")
      /\ \A q \in Purchases \ {p} : purchase'[q] = purchase[q]
  BY <1>1, <1>2 DEF RowsTyped, PurchaseStatus
<1>4. RowsTyped'
  BY <1>1, <1>3 DEF RowsTyped
<1>5. RowsAgree'
  BY <1>2, <1>3 DEF IInv, RowsAgree, RefundedEverywhere, MovedIsOnRecord, PendingIsPaid
<1>6. Keeps
  BY <1>3 DEF Keeps, Seen
<1> QED BY <1>4, <1>5, <1>6

LEMMA PurchaseIInv ==
    ASSUME IInv, NEW p \in Purchases, PayInTime(p) \/ ResetForRetry(p)
    PROVE  IInv'
<1>1. RowsTyped' /\ RowsAgree' /\ Keeps /\ CallersTyped /\ RowsTyped
  BY PurchaseRows, Typed DEF PayInTime, ResetForRetry, IInv
<1>2. CallersTyped' /\ UNCHANGED <<caller, lease, moved>>
  BY <1>1 DEF PayInTime, ResetForRetry, caller, CallersTyped
<1>3. CallersKnow'
  BY <1>1, <1>2 DEF IInv, caller, Keeps, CallersKnow, CallersTyped, Role
<1>4. HoldersLeased' /\ WorkersExclude'
  BY <1>2 DEF IInv, caller, HoldersLeased, WorkersExclude, Holds
<1> QED BY <1>1, <1>2, <1>3, <1>4, Typed DEF IInv, RowsAgree, TypeOK, CallersTyped, RowsTyped

\* A late payment, an automatic and an admin's refund begin.
LEMMA BeginIInv ==
    ASSUME IInv, NEW c \in Callers,
           \/ \E p \in Purchases : PayLate(c, p)
           \/ FailStream(c) \/ AdminRefund(c)
    PROVE  IInv'
<1>1. CallersTyped /\ RowsTyped
  BY Typed DEF IInv
<1>2. PICK kind \in {"late", "event"}, first \in {"list", "create"},
           q \in Purchases \cup {NoPurchase} :
        /\ first = "list" <=> q = NoPurchase
        /\ first = "list" => kind = "event"
        /\ Begin(c, kind, first, {}, q) /\ overdue' = overdue
        /\ q \in Purchases => PayLate(c, q)
        /\ q = NoPurchase => FailStream(c) \/ AdminRefund(c)
  BY DEF PayLate, FailStream, AdminRefund, GetEventStreamStatus
<1>3. RowsTyped' /\ RowsAgree' /\ Keeps /\ UNCHANGED <<lease, moved>>
  <2>1. CASE q \in Purchases
    BY <1>2, <2>1, PurchaseRows DEF PayLate
  <2>2. CASE q = NoPurchase
    BY <1>1, <1>2, <2>2, SameRows DEF FailStream, AdminRefund, GetEventStreamStatus, rows,
                                      RowsTyped, Stream
  <2> QED BY <2>1, <2>2
<1>4. /\ CallersTyped'
      /\ \A d \in Callers \ {c} : role'[d] = role[d] /\ step'[d] = step[d]
                                  /\ todo'[d] = todo[d] /\ current'[d] = current[d]
      /\ role'[c] = kind /\ step'[c] = first /\ todo'[c] = {} /\ current'[c] = q
      /\ \A d \in Callers, r \in Purchases : Holds(d, r)' => Holds(d, r)
  BY <1>1, <1>2, Beginning
<1>5. q \in Purchases => Seen(q)'
  BY <1>1, <1>2 DEF PayLate, RowsTyped, Seen
<1>6. CallersKnow'
  BY <1>1, <1>3, <1>4, <1>5, OthersKnow DEF IInv
<1>7. HoldersLeased' /\ WorkersExclude'
  BY <1>3, <1>4 DEF IInv, HoldersLeased, WorkersExclude
<1> QED BY <1>3, <1>4, <1>6, <1>7, Typed DEF IInv, RowsAgree, TypeOK, CallersTyped, RowsTyped

\* The list holds purchases that are paid; an empty one ends the call.
LEMMA ListPaidIInv ==
    ASSUME IInv, NEW c \in Callers, ListPaid(c)
    PROVE  IInv'
<1> DEFINE S == {p \in Purchases : purchase[p] = "paid" /\ refund[p] # "refunded"}
<1>1. /\ CallersTyped /\ RowsTyped /\ step[c] = "list" /\ role[c] = "event"
      /\ UNCHANGED <<stream, purchase, refund, lease, ledger, moved, faults>>
  BY Typed DEF IInv, ListPaid, ListPaidPurchasesForEvent, rows, CallersTyped
<1>2. RowsTyped' /\ RowsAgree' /\ Keeps
  BY <1>1, SameRows DEF RowsTyped
<1>3. CASE Stop(c)
  BY <1>1, <1>2, <1>3, Moving, CallerKeepsIInv
<1>4. CASE \E p \in S :
             /\ todo' = [todo EXCEPT ![c] = S \ {p}]
             /\ current' = [current EXCEPT ![c] = p]
             /\ step' = [step EXCEPT ![c] = "create"]
             /\ UNCHANGED <<role, overdue>>
  <2>1. PICK p \in S :
             /\ todo' = [todo EXCEPT ![c] = S \ {p}]
             /\ current' = [current EXCEPT ![c] = p]
             /\ step' = [step EXCEPT ![c] = "create"]
             /\ UNCHANGED <<role, overdue>>
    BY <1>4
  <2>2. CallersTyped'
    BY <1>1, <2>1 DEF CallersTyped, Step
  <2>3. /\ \A d \in Callers \ {c} : role'[d] = role[d] /\ step'[d] = step[d]
                                  /\ todo'[d] = todo[d] /\ current'[d] = current[d]
        /\ role'[c] = "event" /\ step'[c] = "create" /\ todo'[c] = S \ {p} /\ current'[c] = p
    BY <1>1, <2>1 DEF CallersTyped
  <2>4. \A d \in Callers, q \in Purchases : Holds(d, q)' => Holds(d, q)
    BY <2>1, <2>3 DEF Holds
  <2>5. \A q \in (todo'[c] \cup {current'[c]}) \ {NoPurchase} : Seen(q)'
    BY <1>1, <2>1, <2>3 DEF Seen
  <2>6. CallersKnow'
    BY <1>1, <1>2, <2>3, <2>5, OthersKnow DEF IInv
  <2>7. HoldersLeased' /\ WorkersExclude'
    BY <1>1, <2>4 DEF IInv, HoldersLeased, WorkersExclude
  <2> QED BY <1>2, <2>2, <2>6, <2>7, Typed DEF IInv, RowsAgree, TypeOK, CallersTyped, RowsTyped
<1> QED BY <1>3, <1>4 DEF ListPaid, ListPaidPurchasesForEvent

\* A claim takes refunds no worker holds: a row whose lease is not running has no
\* holder.
LEMMA ClaimIInv ==
    ASSUME IInv, NEW c \in Workers, NEW S \in SUBSET Purchases, Claim(c, S)
    PROVE  IInv'
<1>1. /\ CallersTyped /\ RowsTyped /\ c \in Callers /\ step[c] = "idle"
      /\ UNCHANGED <<stream, purchase, refund, ledger, moved, overdue, faults>>
      /\ lease' = [p \in Purchases |-> IF p \in S THEN "held" ELSE lease[p]]
  BY Typed DEF IInv, Claim, ClaimPendingRefunds, Callers, Begin
<1>2. PICK p \in S : Begin(c, "worker", "provider", S \ {p}, p)
  BY DEF Claim, ClaimPendingRefunds
<1>3. \A q \in S : refund[q] = "processing" /\ lease[q] # "held"
  BY DEF Claim, ClaimPendingRefunds, Claimable
<1>4. RowsTyped' /\ RowsAgree' /\ Keeps
  BY <1>1, SameRows DEF RowsTyped, Lease
<1>5. CallersTyped'
  BY <1>1, <1>2 DEF Begin, CallersTyped, Role, Step
<1>6. /\ \A d \in Callers \ {c} : role'[d] = role[d] /\ step'[d] = step[d]
                                /\ todo'[d] = todo[d] /\ current'[d] = current[d]
      /\ role'[c] = "worker" /\ step'[c] = "provider" /\ todo'[c] = S \ {p} /\ current'[c] = p
  BY <1>1, <1>2 DEF Begin, CallersTyped
<1>7. CallersKnow'
  <2>1. \A q \in S : Seen(q)' /\ refund'[q] # "none"
    BY <1>1, <1>3 DEF IInv, PendingIsPaid, Seen
  <2> QED BY <1>1, <1>4, <1>6, <2>1, OthersKnow DEF IInv
<1>8. \A d \in Callers, q \in Purchases : Holds(d, q)' => (Holds(d, q) /\ q \notin S) \/ (d = c /\ q \in S)
  <2>1. \A d \in Callers, q \in S : ~Holds(d, q)
    BY <1>3 DEF IInv, HoldersLeased
  <2> QED BY <1>1, <1>6, <2>1 DEF Holds
<1>9. HoldersLeased' /\ WorkersExclude'
  BY <1>1, <1>8 DEF IInv, HoldersLeased, WorkersExclude
<1> QED BY <1>4, <1>5, <1>7, <1>9, Typed DEF IInv, RowsAgree, TypeOK, CallersTyped, RowsTyped

\* When a lease runs out, every claim of the row becomes overdue.
LEMMA LeaseExpiresIInv ==
    ASSUME IInv, NEW p \in Purchases, LeaseExpires(p)
    PROVE  IInv'
<1>1. CallersTyped /\ RowsTyped
      /\ UNCHANGED <<stream, purchase, refund, ledger, moved, role, step, todo, current, faults>>
  BY Typed DEF IInv, LeaseExpires
<1>2. RowsTyped' /\ RowsAgree' /\ Keeps
  BY <1>1, SameRows DEF LeaseExpires, RowsTyped, Lease
<1>3. CallersTyped'
  BY <1>1 DEF LeaseExpires, CallersTyped
<1>4. CallersKnow'
  BY <1>1 DEF IInv, CallersKnow, Seen
<1>5. \A d \in Callers, q \in Purchases : Holds(d, q)' => Holds(d, q) /\ q # p
  BY <1>1 DEF LeaseExpires, Holds
<1>6. HoldersLeased' /\ WorkersExclude'
  BY <1>1, <1>5 DEF IInv, LeaseExpires, HoldersLeased, WorkersExclude, RowsTyped
<1> QED BY <1>2, <1>3, <1>4, <1>6, Typed DEF IInv, RowsAgree, TypeOK, CallersTyped, RowsTyped

\* Nothing but the stream moves, or nothing at all.
LEMMA StreamIInv ==
    ASSUME IInv, StartStream \/ FailStreamLate \/ UNCHANGED vars
    PROVE  IInv'
<1>1. /\ stream' \in Stream
      /\ UNCHANGED <<purchase, refund, lease, ledger, moved, role, step, todo, current,
                     overdue, faults>>
  BY DEF StartStream, FailStreamLate, vars, rows, caller, IInv, TypeOK, Stream
<1>2. CallersTyped' /\ RowsTyped' /\ RowsAgree'
  BY <1>1, Typed, SameRows DEF IInv, CallersTyped, RowsTyped
<1>3. CallersKnow'
  BY <1>1 DEF IInv, CallersKnow, Seen
<1>4. WorkersExclude' /\ HoldersLeased'
  BY <1>1 DEF IInv, WorkersExclude, HoldersLeased, Holds
<1> QED BY <1>2, <1>3, <1>4, Typed DEF IInv, RowsAgree, TypeOK, CallersTyped, RowsTyped

LEMMA NextIInv == IInv /\ [Next]_vars => IInv'
<1> SUFFICES ASSUME IInv, [Next]_vars PROVE IInv'
  OBVIOUS
<1>1. ASSUME NEW c \in Callers, CallerStep(c) \/ Fault(c) PROVE IInv'
  BY <1>1, ListPaidIInv, CreateRefundIInv, InitiateRefundIInv, SettleRefundIInv, FaultIInv
     DEF CallerStep
<1>2. ASSUME NEW h \in Handlers,
             FailStream(h) \/ AdminRefund(h) \/ \E p \in Purchases : PayLate(h, p)
      PROVE  IInv'
  BY <1>2, BeginIInv DEF Callers
<1>3. ASSUME NEW w \in Workers, NEW S \in SUBSET Purchases, Claim(w, S) PROVE IInv'
  BY <1>3, ClaimIInv
<1>4. ASSUME NEW p \in Purchases, PayInTime(p) \/ ResetForRetry(p) \/ LeaseExpires(p)
      PROVE IInv'
  BY <1>4, PurchaseIInv, LeaseExpiresIInv
<1> QED BY <1>1, <1>2, <1>3, <1>4, StreamIInv DEF Next

\* IInv holds in every state the refunds of an event reach.
THEOREM RefundInvariance == Spec => []IInv
BY InitIInv, NextIInv, PTL DEF Spec

\* Every reachable state is well typed; a caller's place agrees with its work.
THEOREM RefundTypeCorrect == Spec => []TypeOK
BY RefundInvariance, PTL DEF IInv

\* A completed refund was carried out by the provider and is in the ledger, and no
\* purchase is refunded without one (SettleRefund after InitiateRefund, from every
\* caller), also of a purchase that has been bought again (ResetForRetry).
THEOREM RefundedAgrees == Spec => []RefundedEverywhere
BY RefundInvariance, PTL DEF IInv

\* Money that moved is on record and within the worker's reach (CreateRefund before
\* InitiateRefund).
THEOREM MovedRecorded == Spec => []MovedIsOnRecord
BY RefundInvariance, PTL DEF IInv

\* Two workers never retry a refund on live leases (ClaimPendingRefunds).
THEOREM RefundLeasesExclude == Spec => []WorkersExclude
BY RefundInvariance, PTL DEF IInv

-----------------------------------------------------------------------------
(***************************************************************************)
(* The refinement of Repayment, step by step, under IInv.                  *)
(***************************************************************************)
Paid == {p \in Purchases : purchase[p] = "paid"}

\* A payment that settles is one the platform did not have.
LEMMA PaymentPays ==
  ASSUME IInv, NEW p \in Purchases, purchase[p] = "open",
         purchase' = [purchase EXCEPT ![p] = "paid"], UNCHANGED refund
  PROVE  Rep!Pay(p)
  <1>1. refund[p] # "processing"
    BY DEF IInv, PendingIsPaid
  <1>2. Paid' = Paid \cup {p} /\ p \notin Paid
    BY DEF Paid, IInv, TypeOK
  <1>3. QED
    BY <1>1, <1>2 DEF Rep!Pay, Paid

\* Who opens a refund saw a payment, and it has not been returned since: that would
\* have left a refund that is done.
LEMMA OpeningPromises ==
  ASSUME IInv, NEW c \in Callers, step[c] = "create", CreateEventRefund(current[c]),
         UNCHANGED purchase
  PROVE  Rep!Next
  <1> DEFINE p == current[c]
  <1>1. p \in Purchases
    BY DEF IInv, TypeOK
  <1>2. Seen(p)
    BY <1>1, RefundsAssumption DEF IInv, CallersKnow
  <1>3. refund[p] = "none" /\ refund' = [refund EXCEPT ![p] = "processing"]
    BY DEF CreateEventRefund
  <1>4. purchase[p] = "paid"
    BY <1>1, <1>2, <1>3 DEF IInv, TypeOK, PurchaseStatus, Seen, RefundedEverywhere
  <1> HIDE DEF p
  <1>5. Rep!Promise(p)
    BY <1>1, <1>3, <1>4 DEF Rep!Promise
  <1>6. QED
    BY <1>1, <1>5 DEF Rep!Next

\* Whoever settles a refund first returns the payment it was opened for.
LEMMA SettlingRepays ==
  ASSUME IInv, NEW p \in Purchases, MarkRefunded(p), MarkPurchaseRefunded(p)
  PROVE  Rep!Repay(p)
  <1>1. refund[p] = "processing" /\ refund' = [refund EXCEPT ![p] = "refunded"]
    BY DEF MarkRefunded
  <1>2. purchase[p] = "paid"
    BY <1>1 DEF IInv, PendingIsPaid
  <1>3. Paid' = Paid \ {p}
    BY <1>2 DEF MarkPurchaseRefunded, Paid, IInv, TypeOK
  <1>4. QED
    BY <1>1, <1>2, <1>3 DEF Rep!Repay, Paid

LEMMA StepRepayment ==
  ASSUME IInv, [Next]_vars
  PROVE  Rep!Next \/ UNCHANGED <<Paid, refund>>
  <1>s. UNCHANGED <<purchase, refund>> => UNCHANGED <<Paid, refund>>
    BY DEF Paid
  <1>1. ASSUME NEW c \in Callers, CreateRefund(c)
        PROVE  Rep!Next \/ UNCHANGED <<Paid, refund>>
    <2>1. CASE CreateEventRefund(current[c])
      BY <1>1, <2>1, OpeningPromises DEF CreateRefund
    <2>2. CASE UNCHANGED refund
      BY <1>1, <1>s, <2>2 DEF CreateRefund
    <2>3. QED
      BY <1>1, <2>1, <2>2 DEF CreateRefund
  <1>2. ASSUME NEW c \in Callers, SettleRefund(c)
        PROVE  Rep!Next \/ UNCHANGED <<Paid, refund>>
    <2>1. current[c] \in Purchases
      BY <1>2 DEF SettleRefund, IInv, TypeOK
    <2>2. CASE MarkRefunded(current[c]) /\ MarkPurchaseRefunded(current[c])
      BY <2>1, <2>2, SettlingRepays DEF Rep!Next
    <2>3. CASE UNCHANGED <<refund, purchase>>
      BY <1>s, <2>3
    <2>4. QED
      BY <1>2, <2>2, <2>3 DEF SettleRefund
  <1>3. ASSUME NEW p \in Purchases, PayInTime(p) \/ \E h \in Handlers : PayLate(h, p)
        PROVE  Rep!Next
    BY <1>3, PaymentPays DEF PayInTime, PayLate, Rep!Next
  <1>4. ASSUME NEW c \in Callers, ListPaid(c) \/ InitiateRefund(c) \/ Fault(c)
        PROVE  UNCHANGED <<purchase, refund>>
    BY <1>4 DEF ListPaid, InitiateRefund, Fault, RefuseRefund, RefuseTransaction, Crash, rows
  <1>5. ASSUME NEW h \in Handlers, FailStream(h) \/ AdminRefund(h)
        PROVE  UNCHANGED <<purchase, refund>>
    BY <1>5 DEF FailStream, AdminRefund, rows
  <1>r. CASE \E p \in Purchases : ResetForRetry(p)
    BY <1>r DEF ResetForRetry, Paid, IInv, TypeOK
  <1>6. CASE \/ \E w \in Workers, S \in SUBSET Purchases : Claim(w, S)
             \/ \E p \in Purchases : LeaseExpires(p)
             \/ StartStream \/ FailStreamLate \/ UNCHANGED vars
    BY <1>s, <1>6 DEF Claim, LeaseExpires, StartStream, FailStreamLate, rows, vars
  <1>7. QED
    BY <1>s, <1>1, <1>2, <1>3, <1>4, <1>5, <1>6, <1>r DEF Next, CallerStep

\* The refunds implement Repayment for every set of purchases and callers: each
\* payment that is returned was put on record first, and once, whoever asked.
THEOREM RefundsRepay == Spec => ImplementsRepayment
  <1>1. Init => Rep!Init
    BY DEF Init, Rep!Init
  <1>2. IInv /\ [Next]_vars => [Rep!Next]_(Rep!repaymentVars)
    BY StepRepayment DEF Rep!repaymentVars, Paid
  <1>3. QED
    BY <1>1, <1>2, RefundInvariance, PTL DEF Spec, ImplementsRepayment, Rep!Spec
=============================================================================
