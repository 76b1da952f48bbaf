----------------------------- MODULE WebhooksProofs -----------------------------
(***************************************************************************)
(* Proofs about Webhooks: its invariant, and that it implements Inbox.     *)
(***************************************************************************)
EXTENDS Webhooks, TLAPS

LEMMA InitIInv == Init => IInv
BY WebhooksAssumption DEF Init, IInv, TypeOK, AppliedOnce, ProcessedWasApplied, OneDelivery,
   Row, Step, Past

\* A request that is not idle carries a callback.
LEMMA Carrying ==
    ASSUME TypeOK, NEW r \in Requests, step[r] # "idle"
    PROVE  carries[r] \in Events
BY DEF TypeOK

\* A request that ends leaves the others where they are.
LEMMA Returning ==
    ASSUME TypeOK, NEW r \in Requests, Return(r)
    PROVE  /\ step' \in [Requests -> Step]
           /\ carries' \in [Requests -> Events \cup {NoEvent}]
           /\ \A q \in Requests : step'[q] = "idle" <=> carries'[q] = NoEvent
           /\ step'[r] = "idle"
           /\ \A q \in Requests \ {r} : step'[q] = step[q] /\ carries'[q] = carries[q]
BY WebhooksAssumption DEF TypeOK, Return, Step

\* A request that goes on keeps its callback.
LEMMA GoingOn ==
    ASSUME TypeOK, NEW r \in Requests, NEW next \in Step \ {"idle"},
           step[r] # "idle", Goto(r, next)
    PROVE  /\ step' \in [Requests -> Step]
           /\ carries' = carries
           /\ \A q \in Requests : step'[q] = "idle" <=> carries'[q] = NoEvent
           /\ step'[r] = next
           /\ \A q \in Requests \ {r} : step'[q] = step[q]
BY DEF TypeOK, Goto, Step

\* The callback a request is past the record with is in no other's hands.
LEMMA Alone ==
    ASSUME OneDelivery, NEW r \in Requests, Past(r)
    PROVE  \A q \in Requests \ {r} : Past(q) => carries[q] # carries[r]
BY DEF OneDelivery

LEMMA DeliverIInv ==
    ASSUME IInv, NEW r \in Requests, NEW e \in Events, Deliver(r, e)
    PROVE  IInv'
<1>1. /\ step[r] = "idle"
      /\ step' = [step EXCEPT ![r] = "record"] /\ carries' = [carries EXCEPT ![r] = e]
      /\ UNCHANGED <<row, applied>>
  BY DEF Deliver
<1>2. TypeOK'
  BY <1>1, WebhooksAssumption DEF IInv, TypeOK, Step
<1>3. /\ step'[r] = "record"
      /\ \A q \in Requests \ {r} : step'[q] = step[q] /\ carries'[q] = carries[q]
  BY <1>1 DEF IInv, TypeOK
<1>4. OneDelivery'
  BY <1>1, <1>3 DEF IInv, OneDelivery, Past
<1> QED BY <1>1, <1>2, <1>4 DEF IInv, AppliedOnce, ProcessedWasApplied

LEMMA RecordIInv ==
    ASSUME IInv, NEW r \in Requests, Record(r)
    PROVE  IInv'
<1>1. /\ step[r] = "record" /\ carries[r] \in Events /\ ~Past(r)
      /\ UNCHANGED applied
  BY Carrying DEF Record, InsertWebhookEvent, IInv, TypeOK, Past
<1>2. CASE row[carries[r]] = "none" /\ row' = [row EXCEPT ![carries[r]] = "received"]
           /\ Goto(r, "handle")
  <2>1. /\ step' \in [Requests -> Step] /\ carries' = carries /\ step'[r] = "handle"
        /\ \A q \in Requests : step'[q] = "idle" <=> carries'[q] = NoEvent
        /\ \A q \in Requests \ {r} : step'[q] = step[q]
    BY <1>1, <1>2, GoingOn DEF IInv, Step
  <2>2. TypeOK'
    BY <1>1, <1>2, <2>1 DEF IInv, TypeOK, Row
  <2>3. \A q \in Requests : Past(q) => carries[q] # carries[r]
    BY <1>2 DEF IInv, OneDelivery
  <2>4. /\ applied[carries[r]] = 0 /\ row'[carries[r]] = "received"
        /\ \A e \in Events : e # carries[r] => row'[e] = row[e]
    BY <1>1, <1>2 DEF IInv, OneDelivery, TypeOK
  <2>5. \A q \in Requests \ {r} : Past(q)' => Past(q) /\ carries[q] \in Events
    BY <2>1, Carrying DEF Past, IInv
  <2>6. \A p, q \in Requests : (Past(p) /\ Past(q) /\ carries[p] = carries[q] => p = q)'
    BY <2>1, <2>3, <2>5 DEF IInv, OneDelivery
  <2>7. \A e \in Events : (row[e] = "none" => applied[e] = 0)'
    BY <1>1, <2>4 DEF IInv, OneDelivery
  <2>8. ASSUME NEW q \in Requests \ {r}
        PROVE  /\ Past(q)' => row'[carries'[q]] = "received"
               /\ step'[q] = "handle" => applied'[carries'[q]] = 0
               /\ step'[q] = "processed" /\ carries'[q] \notin Foreign => applied'[carries'[q]] = 1
    BY <1>1, <2>1, <2>3, <2>4, <2>5, <2>8 DEF IInv, OneDelivery
  <2>9. OneDelivery'
    BY <1>1, <2>1, <2>4, <2>6, <2>7, <2>8 DEF OneDelivery
  <2> QED BY <1>1, <2>2, <2>4, <2>9 DEF IInv, AppliedOnce, ProcessedWasApplied
<1>3. CASE Return(r) /\ UNCHANGED row
  <2>1. /\ step' \in [Requests -> Step] /\ carries' \in [Requests -> Events \cup {NoEvent}]
        /\ \A q \in Requests : step'[q] = "idle" <=> carries'[q] = NoEvent
        /\ step'[r] = "idle"
        /\ \A q \in Requests \ {r} : step'[q] = step[q] /\ carries'[q] = carries[q]
    BY <1>3, Returning DEF IInv
  <2>2. TypeOK'
    BY <1>1, <1>3, <2>1 DEF IInv, TypeOK
  <2>3. OneDelivery'
    BY <1>1, <1>3, <2>1 DEF IInv, OneDelivery, Past
  <2> QED BY <1>1, <1>3, <2>2, <2>3 DEF IInv, AppliedOnce, ProcessedWasApplied
<1> QED BY <1>2, <1>3 DEF Record, InsertWebhookEvent

\* The three outcomes of routing.
LEMMA RouteIInv ==
    ASSUME IInv, NEW r \in Requests, Handle(r) \/ HandleFails(r) \/ NobodyHandles(r)
    PROVE  IInv'
<1>1. /\ step[r] = "handle" /\ carries[r] \in Events /\ Past(r)
      /\ applied[carries[r]] = 0 /\ row[carries[r]] = "received"
      /\ UNCHANGED row
  BY Carrying DEF Handle, HandleFails, NobodyHandles, IInv, TypeOK, Past, OneDelivery
<1>2. PICK next \in {"processed", "failed"} :
         /\ Goto(r, next)
         /\ applied' \in {applied, [applied EXCEPT ![carries[r]] = @ + 1]}
         /\ next = "processed" /\ carries[r] \notin Foreign =>
               applied' = [applied EXCEPT ![carries[r]] = @ + 1]
  BY DEF Handle, HandleFails, NobodyHandles
<1>3. /\ step' \in [Requests -> Step] /\ carries' = carries /\ step'[r] = next
      /\ \A q \in Requests : step'[q] = "idle" <=> carries'[q] = NoEvent
      /\ \A q \in Requests \ {r} : step'[q] = step[q]
  BY <1>1, <1>2, GoingOn DEF IInv, Step
<1>4. /\ applied' \in [Events -> Nat]
      /\ applied'[carries[r]] \in {0, 1}
      /\ \A e \in Events : e # carries[r] => applied'[e] = applied[e]
      /\ next = "processed" /\ carries[r] \notin Foreign => applied'[carries[r]] = 1
  BY <1>1, <1>2 DEF IInv, TypeOK
<1>5. TypeOK'
  BY <1>1, <1>3, <1>4 DEF IInv, TypeOK
<1>6. \A q \in Requests \ {r} :
         Past(q)' => Past(q) /\ carries[q] \in Events /\ carries[q] # carries[r]
  BY <1>1, <1>3, Alone, Carrying DEF Past, IInv
<1>7. \A p, q \in Requests : (Past(p) /\ Past(q) /\ carries[p] = carries[q] => p = q)'
  BY <1>3, <1>6 DEF IInv, OneDelivery
<1>8. \A e \in Events : (row[e] = "none" => applied[e] = 0)'
  BY <1>1, <1>4 DEF IInv, OneDelivery
<1>9. ASSUME NEW q \in Requests \ {r}
      PROVE  /\ Past(q)' => row'[carries'[q]] = "received"
             /\ step'[q] = "handle" => applied'[carries'[q]] = 0
             /\ step'[q] = "processed" /\ carries'[q] \notin Foreign => applied'[carries'[q]] = 1
  <2>1. CASE ~Past(q)'
    BY <2>1 DEF Past
  <2>2. CASE Past(q)'
    BY <1>1, <1>3, <1>4, <1>6, <2>2 DEF IInv, OneDelivery
  <2> QED BY <2>1, <2>2
<1>10. OneDelivery'
  BY <1>1, <1>2, <1>3, <1>4, <1>7, <1>8, <1>9 DEF OneDelivery
<1>11. AppliedOnce' /\ ProcessedWasApplied'
  BY <1>1, <1>4 DEF IInv, AppliedOnce, ProcessedWasApplied
<1> QED BY <1>5, <1>10, <1>11 DEF IInv

\* The marks, and the requests that break off.
LEMMA EndIInv ==
    ASSUME IInv, NEW r \in Requests, MarkProcessed(r) \/ MarkFailed(r) \/ Abort(r)
    PROVE  IInv'
<1>1. /\ step[r] # "idle" /\ carries[r] \in Events
      /\ Return(r)
      /\ UNCHANGED applied
  BY Carrying DEF MarkProcessed, MarkWebhookProcessed, MarkFailed, MarkWebhookFailed, Abort,
                  IInv, TypeOK
<1>2. /\ row' \in [Events -> Row]
      /\ \A e \in Events : e # carries[r] => row'[e] = row[e]
      /\ row'[carries[r]] = row[carries[r]] \/ (Past(r) /\ row'[carries[r]] # "none")
      /\ row'[carries[r]] = "processed" =>
            row[carries[r]] = "processed" \/ step[r] = "processed"
  BY <1>1 DEF MarkProcessed, MarkWebhookProcessed, MarkFailed, MarkWebhookFailed, Abort,
              IInv, TypeOK, Row, Past
<1>3. /\ step' \in [Requests -> Step] /\ carries' \in [Requests -> Events \cup {NoEvent}]
      /\ \A q \in Requests : step'[q] = "idle" <=> carries'[q] = NoEvent
      /\ step'[r] = "idle"
      /\ \A q \in Requests \ {r} : step'[q] = step[q] /\ carries'[q] = carries[q]
  BY <1>1, Returning DEF IInv
<1>4. TypeOK'
  BY <1>1, <1>2, <1>3 DEF IInv, TypeOK
<1>5. \A q \in Requests : Past(q)' =>
         /\ q # r /\ Past(q) /\ carries[q] \in Events
         /\ row'[carries[q]] = row[carries[q]]
  BY <1>2, <1>3, Alone, Carrying DEF Past, IInv
<1>6. \A p, q \in Requests : (Past(p) /\ Past(q) /\ carries[p] = carries[q] => p = q)'
  BY <1>3, <1>5 DEF IInv, OneDelivery
<1>7. \A e \in Events : (row[e] = "none" => applied[e] = 0)'
  BY <1>1, <1>2 DEF IInv, OneDelivery
<1>8. ASSUME NEW q \in Requests
      PROVE  /\ Past(q)' => row'[carries'[q]] = "received"
             /\ step'[q] = "handle" => applied'[carries'[q]] = 0
             /\ step'[q] = "processed" /\ carries'[q] \notin Foreign => applied'[carries'[q]] = 1
  <2>1. CASE ~Past(q)'
    BY <2>1 DEF Past
  <2>2. CASE Past(q)'
    BY <1>1, <1>3, <1>5, <2>2 DEF IInv, OneDelivery
  <2> QED BY <2>1, <2>2
<1>9. OneDelivery'
  BY <1>6, <1>7, <1>8 DEF OneDelivery
<1>10. AppliedOnce' /\ ProcessedWasApplied'
  BY <1>1, <1>2 DEF IInv, AppliedOnce, ProcessedWasApplied, OneDelivery
<1> QED BY <1>4, <1>9, <1>10 DEF IInv

LEMMA NextIInv == IInv /\ [Next]_vars => IInv'
<1> SUFFICES ASSUME IInv, [Next]_vars PROVE IInv'
  OBVIOUS
<1>1. CASE UNCHANGED vars
  BY <1>1 DEF vars, IInv, TypeOK, AppliedOnce, ProcessedWasApplied, OneDelivery, Past
<1>2. ASSUME NEW r \in Requests, Process(r) \/ Abort(r) \/ \E e \in Events : Deliver(r, e)
      PROVE  IInv'
  BY <1>2, DeliverIInv, RecordIInv, RouteIInv, EndIInv DEF Process
<1> QED BY <1>1, <1>2 DEF Next

\* IInv holds in every state deliveries reach.
THEOREM WebhookInvariance == Spec => []IInv
BY InitIInv, NextIInv, PTL DEF Spec

\* Every reachable state is well typed; a request carries a callback unless idle.
THEOREM WebhookTypeCorrect == Spec => []TypeOK
BY WebhookInvariance, PTL DEF IInv

\* A callback is never applied twice (InsertWebhookEvent before Handle).
THEOREM AtMostOnce == Spec => []AppliedOnce
BY WebhookInvariance, PTL DEF IInv

\* A callback marked processed was applied by its domain (Handle before MarkProcessed).
THEOREM MarksAreTrue == Spec => []ProcessedWasApplied
BY WebhookInvariance, PTL DEF IInv

-----------------------------------------------------------------------------
(***************************************************************************)
(* Webhooks implements Inbox.                                              *)
(***************************************************************************)
LEMMA InitFate == Init => Promise!Init
BY DEF Init, Promise!Init, Fate

\* A callback no request handles or routes keeps its fate.
LEMMA SameFate ==
    ASSUME IInv, NEW e \in Events,
           applied'[e] = applied[e],
           row'[e] = "none" <=> row[e] = "none",
           InHand(e)' <=> InHand(e)
    PROVE  Fate'[e] = Fate[e]
BY DEF Fate

\* A step of one callback's fate is a step of Inbox or none.
LEMMA OneFate ==
    ASSUME IInv, IInv', NEW e \in Events,
           \A d \in Events \ {e} : Fate'[d] = Fate[d],
           Fate[e] = "pending" \/ Fate'[e] = Fate[e]
    PROVE  [Promise!Next]_Fate
<1>1. Fate'[e] \in {"pending", "applied", "dropped"}
  BY DEF Fate
<1>2. Fate = [d \in Events |-> Fate[d]] /\ Fate' = [d \in Events |-> Fate'[d]]
  BY DEF Fate
<1>3. Fate' = [Fate EXCEPT ![e] = Fate'[e]]
  BY <1>2
<1>4. CASE Fate'[e] = Fate[e]
  BY <1>2, <1>4
<1>5. CASE Fate[e] = "pending" /\ Fate'[e] \in {"applied", "dropped"}
  BY <1>3, <1>5 DEF Promise!Next, Promise!Apply, Promise!Drop
<1> QED BY <1>1, <1>4, <1>5

\* Deliveries and records: the fate of every callback stays pending or as it was.
LEMMA ReceivingFate ==
    ASSUME IInv, NEW r \in Requests, Record(r) \/ \E e \in Events : Deliver(r, e)
    PROVE  \A e \in Events : Fate'[e] = Fate[e]
<1>1. CASE \E e \in Events : Deliver(r, e)
  <2>1. /\ UNCHANGED <<row, applied>> /\ step[r] = "idle" /\ step'[r] = "record"
        /\ \A q \in Requests \ {r} : step'[q] = step[q] /\ carries'[q] = carries[q]
    BY <1>1 DEF Deliver, IInv, TypeOK
  <2>2. \A e \in Events : InHand(e)' <=> InHand(e)
    BY <2>1 DEF InHand
  <2> QED BY <2>1, <2>2, SameFate
<1>2. CASE Record(r)
  <2>1. step[r] = "record" /\ carries[r] \in Events /\ UNCHANGED applied
    BY <1>2, Carrying DEF Record, InsertWebhookEvent, IInv
  <2>2. CASE Return(r) /\ UNCHANGED row
    <3>1. \A e \in Events : InHand(e)' <=> InHand(e)
      BY <2>1, <2>2, Returning DEF InHand, IInv
    <3> QED BY <2>1, <2>2, <3>1, SameFate
  <2>3. CASE row[carries[r]] = "none" /\ row' = [row EXCEPT ![carries[r]] = "received"]
             /\ Goto(r, "handle")
    <3>1. /\ carries' = carries /\ step'[r] = "handle"
          /\ \A q \in Requests \ {r} : step'[q] = step[q]
      BY <2>1, <2>3, GoingOn DEF IInv, Step
    <3>2. PICK c \in Events : c = carries[r]
      BY <2>1
    <3>3. InHand(c)' /\ \A e \in Events \ {c} : InHand(e)' <=> InHand(e)
      BY <3>1, <3>2 DEF InHand
    <3>4. \A e \in Events \ {c} : Fate'[e] = Fate[e]
      BY <2>1, <2>3, <3>2, <3>3, SameFate DEF IInv, TypeOK
    <3>5. applied[c] = 0 /\ applied'[c] = 0 /\ row[c] = "none"
      BY <2>1, <2>3, <3>2 DEF IInv, OneDelivery
    <3>6. Fate'[c] = "pending" /\ Fate[c] = "pending"
      BY <3>3, <3>5 DEF Fate
    <3> QED BY <3>4, <3>6
  <2> QED BY <1>2, <2>2, <2>3 DEF Record, InsertWebhookEvent
<1> QED BY <1>1, <1>2

\* Routing, marking and breaking off: one callback's fate is decided, if pending.
LEMMA DecidingFate ==
    ASSUME IInv, IInv', NEW r \in Requests,
           \/ Handle(r) \/ HandleFails(r) \/ NobodyHandles(r)
           \/ MarkProcessed(r) \/ MarkFailed(r) \/ (Abort(r) /\ step[r] # "record")
    PROVE  [Promise!Next]_Fate
<1>1. Past(r) /\ carries[r] \in Events
  BY Carrying DEF Handle, HandleFails, NobodyHandles, MarkProcessed, MarkWebhookProcessed,
                  MarkFailed, MarkWebhookFailed, Abort, IInv, TypeOK, Step, Past
<1>2. PICK c \in Events : c = carries[r]
  BY <1>1
<1>3. /\ \A q \in Requests \ {r} : step'[q] = step[q] /\ carries'[q] = carries[q]
      /\ \A d \in Events \ {c} : applied'[d] = applied[d] /\ row'[d] = row[d]
      /\ step'[r] # "handle"
  BY <1>2 DEF Handle, HandleFails, NobodyHandles, MarkProcessed, MarkWebhookProcessed,
              MarkFailed, MarkWebhookFailed, Abort, Goto, Return, IInv, TypeOK
<1>4. \A d \in Events \ {c} : InHand(d)' <=> InHand(d)
  BY <1>2, <1>3 DEF InHand
<1>5. \A d \in Events \ {c} : Fate'[d] = Fate[d]
  BY <1>3, <1>4, SameFate
<1>6. CASE step[r] = "handle"
  <2>1. applied[c] = 0 /\ InHand(c)
    BY <1>2, <1>6 DEF IInv, OneDelivery, InHand, Past
  <2>2. Fate[c] = "pending"
    BY <2>1 DEF Fate
  <2> QED BY <1>5, <2>2, OneFate
<1>7. CASE step[r] \in {"processed", "failed"}
  <2>1. /\ applied' = applied
        /\ row[c] # "none" /\ row'[c] # "none"
    BY <1>1, <1>2, <1>7 DEF Handle, HandleFails, NobodyHandles, MarkProcessed,
                            MarkWebhookProcessed, MarkFailed, MarkWebhookFailed, Abort,
                            IInv, TypeOK, OneDelivery
  <2>2. ~InHand(c)
    BY <1>1, <1>2, <1>7, Alone DEF InHand, Past, IInv
  <2>3. ~InHand(c)'
    BY <1>3, <2>2 DEF InHand
  <2>4. Fate'[c] = Fate[c]
    BY <2>1, <2>2, <2>3, SameFate
  <2> QED BY <1>5, <2>4, OneFate
<1> QED BY <1>1, <1>6, <1>7 DEF Past

\* A delivery that breaks off before the record leaves the callback pending.
LEMMA AbortedFate ==
    ASSUME IInv, NEW r \in Requests, Abort(r), step[r] = "record"
    PROVE  \A e \in Events : Fate'[e] = Fate[e]
<1>1. /\ UNCHANGED <<row, applied>> /\ step'[r] = "idle"
      /\ \A q \in Requests \ {r} : step'[q] = step[q] /\ carries'[q] = carries[q]
  BY Returning DEF Abort, IInv
<1>2. \A e \in Events : InHand(e)' <=> InHand(e)
  BY <1>1 DEF InHand
<1> QED BY <1>1, <1>2, SameFate

LEMMA NextFate == IInv /\ IInv' /\ [Next]_vars => [Promise!Next]_Fate
<1> SUFFICES ASSUME IInv, IInv', [Next]_vars PROVE [Promise!Next]_Fate
  OBVIOUS
<1>1. ASSUME \A e \in Events : Fate'[e] = Fate[e] PROVE Fate' = Fate
  <2>1. Fate = [e \in Events |-> Fate[e]] /\ Fate' = [e \in Events |-> Fate'[e]]
    BY DEF Fate
  <2> QED BY <1>1, <2>1
<1>2. CASE UNCHANGED vars
  BY <1>2 DEF vars, Fate, InHand
<1>3. ASSUME NEW r \in Requests, Process(r) \/ Abort(r) \/ \E e \in Events : Deliver(r, e)
      PROVE  [Promise!Next]_Fate
  BY <1>1, <1>3, ReceivingFate, DecidingFate, AbortedFate DEF Process
<1> QED BY <1>2, <1>3 DEF Next

\* Webhooks implements Inbox: at most once, and never again after it was given up
\* (Process records the callback before it is handled).
THEOREM InboxImplemented == Spec => ImplementsInbox
<1> QED BY WebhookInvariance, InitFate, NextFate, PTL DEF Spec, ImplementsInbox, Promise!Spec
=============================================================================
