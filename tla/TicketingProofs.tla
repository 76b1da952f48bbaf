--------------------------- MODULE TicketingProofs ---------------------------
(***************************************************************************)
(* Proofs about Ticketing for every set of accounts, keys and requests,    *)
(* every capacity and every sweep limit.  IInv is inductive; the safety    *)
(* properties are parts of it, follow from it, or are proved inductive     *)
(* relative to it; and under it every step is a step of Admission.         *)
(***************************************************************************)
EXTENDS TicketingPromises, TLAPS, FiniteSetTheorems

-----------------------------------------------------------------------------
\* What Reserve and ResetForRetry come to when they commit: the buyer's slot is
\* taken and the rows stand for attempt k.
TakeSlot(u, k) ==
    /\ available' = available - 1
    /\ purchase' = [purchase EXCEPT ![u] = Initiated(k)]
    /\ ticket' = [ticket EXCEPT ![u] = "held"]
    /\ UNCHANGED <<stage, total>>

LEMMA AttemptTakesSlot ==
  ASSUME NEW r \in Requests, Reserve(r) \/ ResetForRetry(r)
  PROVE  \/ UNCHANGED <<eventVars, rowVars>>
         \/ /\ SlotFree /\ TakeSlot(Buyer(r), KeyOf[r])
            /\ purchase[Buyer(r)].status \in {"none", "initiated", "failed", "refunded"}
  <1>1. CASE Reserve(r)
    BY <1>1 DEF Reserve, ReserveEventTicket, CreatePurchase, CreateTemporaryTicket, TakeSlot
  <1>2. CASE ResetForRetry(r)
    BY <1>2
    DEF ResetForRetry, ReserveEventTicket, ResetPurchaseForRetry, ResetTicketForRetry, TakeSlot
  <1>3. QED
    BY <1>1, <1>2

-----------------------------------------------------------------------------
(***************************************************************************)
(* Type correctness.                                                       *)
(***************************************************************************)

LEMMA InitTypeOK == Init => TypeOK
  BY TicketingAssumption
  DEF Init, TypeOK, NoPurchase, PurchaseRow, PurchaseStatus, TicketStatus, MemberStatus,
      RefundStatus, RequestStep, ChargeStatus, Stages

\* Giving a reservation back keeps the types of the rows it writes.
LEMMA FailAndReleaseTypeOK ==
  ASSUME TypeOK, NEW u \in Users, FailAndRelease(u)
  PROVE  /\ stage' \in Stages /\ total' \in 1..MaxTickets /\ available' \in 0..total'
         /\ purchase' \in [Users -> PurchaseRow] /\ ticket' \in [Users -> TicketStatus]
  <1> USE DEF TypeOK
  <1>1. CASE UNCHANGED <<eventVars, rowVars>>
    BY <1>1 DEF eventVars, rowVars
  <1>2. CASE ~UNCHANGED <<eventVars, rowVars>>
    <2>1. /\ available < total /\ available' = available + 1 /\ UNCHANGED <<stage, total>>
          /\ purchase' = [purchase EXCEPT ![u].status = "failed"]
          /\ ticket' = [ticket EXCEPT ![u] = IF @ \in Reserved THEN "expired" ELSE @]
      BY <1>2 DEF FailAndRelease, MarkPurchaseFailed, ExpireTicketByPurchase,
                  ReleaseEventTicket
    <2>2. available' \in 0..total'
      BY <2>1, TicketingAssumption
    <2>3. purchase' \in [Users -> PurchaseRow]
      BY <2>1 DEF PurchaseRow, PurchaseStatus
    <2>4. ticket' \in [Users -> TicketStatus]
      BY <2>1 DEF TicketStatus
    <2>5. QED
      BY <2>1, <2>2, <2>3, <2>4
  <1>3. QED
    BY <1>1, <1>2

\* The steps of a Purchase request keep the types.
LEMMA RequestTypeOK ==
  ASSUME TypeOK, NEW r \in Requests, RequestStepOf(r)
  PROVE  TypeOK'
  <1> USE TicketingAssumption
      DEF TypeOK, eventVars, rowVars, financeVars, provider, Buyer, Goto, RequestStep
  <1>k. KeyOf[r] \in Keys /\ Buyer(r) \in Users
    OBVIOUS
  <1>t. ASSUME NEW k \in Keys, NEW u \in Users, SlotFree, TakeSlot(u, k)
        PROVE  /\ stage' \in Stages /\ total' \in 1..MaxTickets /\ available' \in 0..total'
               /\ purchase' \in [Users -> PurchaseRow] /\ ticket' \in [Users -> TicketStatus]
    BY <1>t DEF SlotFree, TakeSlot, Initiated, PurchaseRow, PurchaseStatus, TicketStatus
  <1>1. CASE Purchase(r)
    BY <1>1 DEF Purchase
  <1>2. CASE CheckEvent(r)
    BY <1>2 DEF CheckEvent
  <1>3. CASE OpenPurchase(r) \/ ReservationUnread(r)
    BY <1>3 DEF OpenPurchase, ReservationUnread
  <1>4. CASE Reserve(r)
    BY <1>4, <1>k, <1>t, AttemptTakesSlot DEF Reserve
  <1>5. CASE ResetForRetry(r)
    BY <1>5, <1>k, <1>t, AttemptTakesSlot DEF ResetForRetry
  <1>6. CASE InitiateCharge(r)
    <2>1. charge' = charge \/ charge' = [charge EXCEPT ![KeyOf[r]] = IF @ = "none" THEN "open" ELSE @]
      BY <1>6 DEF InitiateCharge
    <2>2. charge' \in [Keys -> ChargeStatus]
      BY <2>1, <1>k DEF ChargeStatus
    <2>3. QED
      BY <1>6, <2>2 DEF InitiateCharge
  <1>7. CASE ReleaseRefused(r)
    BY <1>7, <1>k, FailAndReleaseTypeOK DEF ReleaseRefused
  <1>8. CASE SetCheckoutURL(r)
    <2>1. purchase' \in [Users -> PurchaseRow]
      <3>1. purchase' = [purchase EXCEPT ![Buyer(r)].checkout = KeyOf[r]]
        BY <1>8 DEF SetCheckoutURL, UpdatePurchaseCheckout
      <3>2. [purchase[Buyer(r)] EXCEPT !.checkout = KeyOf[r]] \in PurchaseRow
        BY <1>k DEF PurchaseRow
      <3> HIDE DEF Buyer
      <3>3. QED
        BY <1>k, <3>1, <3>2
    <2>2. QED
      BY <1>8, <2>1 DEF SetCheckoutURL
  <1>9. CASE Abandon(r)
    BY <1>9 DEF Abandon
  <1>10. QED
    BY <1>1, <1>2, <1>3, <1>4, <1>5, <1>6, <1>7, <1>8, <1>9 DEF RequestStepOf

\* The provider's steps and the webhook handlers keep the types.
LEMMA CallbackTypeOK ==
  ASSUME TypeOK, NEW k \in Keys, CallbackStep(k)
  PROVE  TypeOK'
  <1> USE TicketingAssumption
      DEF TypeOK, eventVars, rowVars, financeVars, provider, WebhookType
  <1>o. OwnerOf[k] \in Users
    OBVIOUS
  <1>1. CASE ReportProcessing(k)
    BY <1>1 DEF ReportProcessing
  <1>2. CASE Conclude(k)
    BY <1>2 DEF Conclude, ChargeStatus
  <1>3. CASE HandleProcessing(k)
    <2> DEFINE row == purchase[OwnerOf[k]]
               s == IF row.status = "initiated" THEN "processing" ELSE row.status
    <2>1. purchase' = [purchase EXCEPT ![OwnerOf[k]] = [row EXCEPT !.status = s]]
      BY <1>3 DEF HandleProcessing, MarkPurchaseProcessing
    <2>2. purchase' \in [Users -> PurchaseRow]
      <3>1. row \in PurchaseRow
        BY <1>o
      <3>2. s \in PurchaseStatus
        BY <3>1 DEF PurchaseRow, PurchaseStatus
      <3> HIDE DEF row, s
      <3>3. [row EXCEPT !.status = s] \in PurchaseRow
        BY <3>1, <3>2 DEF PurchaseRow
      <3>4. QED
        BY <1>o, <2>1, <3>3
    <2>3. QED
      BY <1>3, <2>2 DEF HandleProcessing, MarkPurchaseProcessing, Consume
  <1>4. CASE HandleFailed(k)
    BY <1>4, <1>o, FailAndReleaseTypeOK DEF HandleFailed, Consume
  <1>5. CASE HandlePaid(k)
    <2>1. CASE SettleInTime(OwnerOf[k])
      <3>1. purchase' \in [Users -> PurchaseRow]
        <4>1. purchase' = [purchase EXCEPT ![OwnerOf[k]].status = "paid"]
          BY <2>1 DEF SettleInTime, MarkPurchasePaid
        <4>2. [purchase[OwnerOf[k]] EXCEPT !.status = "paid"] \in PurchaseRow
          BY <1>o DEF PurchaseRow, PurchaseStatus
        <4>3. QED
          BY <1>o, <4>1, <4>2
      <3>2. ticket' \in [Users -> TicketStatus] /\ member' \in [Users -> MemberStatus]
        BY <1>o, <2>1 DEF SettleInTime, MarkPurchasePaid, IssueTicketByPurchase,
                          CreateEventMember, Enqueue, TicketStatus, MemberStatus
      <3>3. mail' \in SUBSET (MailType \X Users)
        BY <1>o, <2>1 DEF SettleInTime, MarkPurchasePaid, IssueTicketByPurchase,
                          CreateEventMember, Enqueue, MailType
      <3>4. QED
        BY <1>5, <2>1, <3>1, <3>2, <3>3 DEF HandlePaid, Consume, SettleInTime,
                                            MarkPurchasePaid, IssueTicketByPurchase,
                                            CreateEventMember, Enqueue
    <2>2. CASE SettleLate(OwnerOf[k])
      <3>1. purchase' = [purchase EXCEPT ![OwnerOf[k]].status = "paid"]
        BY <2>2 DEF SettleLate, MarkPurchasePaid
      <3>2. [purchase[OwnerOf[k]] EXCEPT !.status = "paid"] \in PurchaseRow
        BY <1>o DEF PurchaseRow, PurchaseStatus
      <3>3. purchase' \in [Users -> PurchaseRow]
        BY <1>o, <3>1, <3>2
      <3>4. QED
        BY <1>5, <1>o, <2>2, <3>3 DEF HandlePaid, Consume, SettleLate
    <2>3. CASE SettleNothing(OwnerOf[k])
      BY <1>5, <2>3 DEF HandlePaid, Consume, SettleNothing
    <2>4. QED
      BY <1>5, <2>1, <2>2, <2>3 DEF HandlePaid
  <1>6. ASSUME NEW type \in WebhookType, LoseWebhook(type, k)
        PROVE  TypeOK'
    BY <1>6 DEF LoseWebhook, Consume
  <1>7. QED
    BY <1>1, <1>2, <1>3, <1>4, <1>5, <1>6 DEF CallbackStep

\* Refunds and the passing of time keep the types.
LEMMA UserTypeOK ==
  ASSUME TypeOK, NEW u \in Users, UserStep(u)
  PROVE  TypeOK'
  <1> USE DEF TypeOK, eventVars, rowVars, financeVars, provider
  <1>1. CASE RefundExpiredPurchase(u)
    BY <1>1 DEF RefundExpiredPurchase, CreateRefund, RefundStatus
  <1>2. CASE LoseLateRefund(u)
    BY <1>2 DEF LoseLateRefund
  <1>3. CASE RefundEvent(u)
    BY <1>3 DEF RefundEvent, CreateRefund, RefundStatus
  <1>4. CASE SettleRefund(u)
    BY <1>4
    DEF SettleRefund, RevokeEntitlementByPurchase, Enqueue, RefundStatus, PurchaseRow,
        PurchaseStatus, TicketStatus, MemberStatus, MailType
  <1>5. CASE Lapse(u)
    BY <1>5 DEF Lapse, TicketStatus
  <1>6. QED
    BY <1>1, <1>2, <1>3, <1>4, <1>5 DEF UserStep

LEMMA SweepTypeOK ==
  ASSUME TypeOK, Sweep
  PROVE  TypeOK'
  <1>1. PICK S \in SUBSET Users : ExpireReservations(S)
    BY DEF Sweep
  <1>2. Cardinality(S) \in Nat
    BY TicketingAssumption, FS_Subset, FS_CardinalityType
  <1>3. available' \in 0..total'
    BY <1>1, <1>2 DEF TypeOK, ExpireReservations, ClaimExpiredTicketReservations,
                      ReleaseEventTicket, MarkPurchaseFailedForTicket
  <1>4. ticket' \in [Users -> TicketStatus]
    BY <1>1 DEF TypeOK, ExpireReservations, ClaimExpiredTicketReservations,
                ReleaseEventTicket, MarkPurchaseFailedForTicket, TicketStatus
  <1>5. purchase' \in [Users -> PurchaseRow]
    BY <1>1 DEF TypeOK, ExpireReservations, ClaimExpiredTicketReservations,
                ReleaseEventTicket, MarkPurchaseFailedForTicket, PurchaseRow, PurchaseStatus
  <1>6. QED
    BY <1>1, <1>3, <1>4, <1>5 DEF TypeOK, ExpireReservations,
                                  ClaimExpiredTicketReservations, ReleaseEventTicket,
                                  MarkPurchaseFailedForTicket, financeVars, provider

LEMMA HostTypeOK ==
  ASSUME TypeOK, HostStep
  PROVE  TypeOK'
  <1> USE TicketingAssumption DEF TypeOK, rowVars, financeVars, provider
  <1>1. ASSUME NEW n \in 1..MaxTickets, UpdateEvent(n)
        PROVE  TypeOK'
    BY <1>1 DEF UpdateEvent
  <1>2. CASE MoveEvent
    BY <1>2 DEF MoveEvent, Stages
  <1>3. QED
    BY <1>1, <1>2 DEF HostStep

LEMMA NextTypeOK == TypeOK /\ [Next]_vars => TypeOK'
  <1>1. ASSUME TypeOK, UNCHANGED vars
        PROVE  TypeOK'
    BY <1>1 DEF TypeOK, vars
  <1>2. QED
    BY <1>1, RequestTypeOK, CallbackTypeOK, UserTypeOK, SweepTypeOK, HostTypeOK DEF Next

\* Every reachable state is well typed: in particular available_tickets stays
\* between zero and total_tickets (events_available_tickets_valid) by the guards
\* of the updates alone.
THEOREM TypeCorrect == Spec => []TypeOK
  BY InitTypeOK, NextTypeOK, PTL DEF Spec
-----------------------------------------------------------------------------
(***************************************************************************)
(* The rows of an account agree.                                           *)
(***************************************************************************)
Rows == OpenHasReservation /\ AccessMatchesPayment /\ RefundsFollowPayments

LEMMA InitRows == Init => Rows
  BY DEF Init, Rows, OpenHasReservation, AccessMatchesPayment, RefundsFollowPayments,
         NoPurchase, Open, Reserved

\* Most steps leave alone everything the rows relate.
LEMMA SameRows ==
  ASSUME Rows, UNCHANGED <<stage, purchase, ticket, member, refund, late>>
  PROVE  Rows'
  BY DEF Rows, OpenHasReservation, AccessMatchesPayment, RefundsFollowPayments

\* A fresh slot reopens a row that was never paid, or whose refund is done.
LEMMA TakeSlotRows ==
  ASSUME TypeOK, Rows, NEW u \in Users, NEW k \in Keys, SlotFree, TakeSlot(u, k),
         purchase[u].status \in {"none", "initiated", "failed", "refunded"},
         UNCHANGED <<member, refund, late>>
  PROVE  Rows'
  <1> USE DEF TypeOK, PurchaseRow, PurchaseStatus, TicketStatus, MemberStatus, RefundStatus,
              Rows, SlotFree, TakeSlot, Initiated, Open, Reserved
  <1>1. OpenHasReservation'
    BY DEF OpenHasReservation
  <1>2. AccessMatchesPayment'
    BY DEF AccessMatchesPayment, RefundsFollowPayments
  <1>3. RefundsFollowPayments'
    BY DEF AccessMatchesPayment, RefundsFollowPayments
  <1>4. QED
    BY <1>1, <1>2, <1>3

LEMMA FailAndReleaseRows ==
  ASSUME TypeOK, Rows, NEW u \in Users, FailAndRelease(u),
         UNCHANGED <<member, refund, late>>
  PROVE  Rows'
  <1>1. CASE UNCHANGED <<eventVars, rowVars>>
    BY <1>1, SameRows DEF eventVars, rowVars
  <1>2. CASE ~UNCHANGED <<eventVars, rowVars>>
    <2>1. /\ purchase[u].status \in Open /\ UNCHANGED stage
          /\ purchase' = [purchase EXCEPT ![u].status = "failed"]
          /\ ticket' = [ticket EXCEPT ![u] = IF @ \in Reserved THEN "expired" ELSE @]
      BY <1>2 DEF FailAndRelease, MarkPurchaseFailed, ExpireTicketByPurchase,
                  ReleaseEventTicket
    <2> USE <2>1 DEF TypeOK, PurchaseRow, TicketStatus, Rows, Open, Reserved
    <2>2. OpenHasReservation'
      BY DEF OpenHasReservation
    <2>3. AccessMatchesPayment'
      BY DEF AccessMatchesPayment, OpenHasReservation
    <2>4. RefundsFollowPayments'
      BY DEF RefundsFollowPayments, OpenHasReservation
    <2>5. QED
      BY <2>2, <2>3, <2>4
  <1>3. QED
    BY <1>1, <1>2

LEMMA RequestRows ==
  ASSUME TypeOK, Rows, NEW r \in Requests, RequestStepOf(r)
  PROVE  Rows'
  <1> USE TicketingAssumption DEF eventVars, rowVars, financeVars
  <1>k. KeyOf[r] \in Keys /\ Buyer(r) \in Users
    BY DEF Buyer
  <1>1. CASE \/ Purchase(r) \/ CheckEvent(r) \/ OpenPurchase(r) \/ ReservationUnread(r)
             \/ InitiateCharge(r) \/ Abandon(r)
    BY <1>1, SameRows DEF Purchase, CheckEvent, OpenPurchase, ReservationUnread,
                          InitiateCharge, Abandon
  <1>2. CASE Reserve(r)
    BY <1>2, <1>k, SameRows, TakeSlotRows, AttemptTakesSlot DEF Reserve
  <1>3. CASE ResetForRetry(r)
    BY <1>3, <1>k, SameRows, TakeSlotRows, AttemptTakesSlot DEF ResetForRetry
  <1>4. CASE ReleaseRefused(r)
    BY <1>4, <1>k, FailAndReleaseRows DEF ReleaseRefused
  <1>5. CASE SetCheckoutURL(r)
    <2>1. \A u \in Users : purchase'[u].status = purchase[u].status
      BY <1>5, <1>k DEF SetCheckoutURL, UpdatePurchaseCheckout, TypeOK, PurchaseRow
    <2>2. UNCHANGED <<stage, ticket, member, refund, late>>
      BY <1>5 DEF SetCheckoutURL, UpdatePurchaseCheckout
    <2>3. QED
      BY <2>1, <2>2
      DEF Rows, OpenHasReservation, AccessMatchesPayment, RefundsFollowPayments
  <1>6. QED
    BY <1>1, <1>2, <1>3, <1>4, <1>5 DEF RequestStepOf

\* A payment in time turns the live reservation of an open purchase into a ticket:
\* no membership of the account is in the way.
LEMMA SettleInTimeRows ==
  ASSUME TypeOK, Rows, NEW u \in Users, SettleInTime(u), UNCHANGED <<stage, refund>>
  PROVE  Rows'
  <1> USE DEF TypeOK, PurchaseRow, TicketStatus, MemberStatus, Rows, SettleInTime,
              MarkPurchasePaid, IssueTicketByPurchase, CreateEventMember, Enqueue, Open,
              Reserved
  <1>1. member[u] = "none"
    BY DEF AccessMatchesPayment, RefundsFollowPayments
  <1>2. OpenHasReservation'
    BY DEF OpenHasReservation
  <1>3. AccessMatchesPayment'
    BY <1>1 DEF AccessMatchesPayment
  <1>4. RefundsFollowPayments'
    BY <1>1 DEF RefundsFollowPayments
  <1>5. QED
    BY <1>2, <1>3, <1>4

LEMMA SettleLateRows ==
  ASSUME TypeOK, Rows, NEW u \in Users, SettleLate(u), UNCHANGED <<stage, refund>>
  PROVE  Rows'
  <1> USE DEF TypeOK, PurchaseRow, TicketStatus, MemberStatus, Rows, SettleLate,
              MarkPurchasePaid, Open, Reserved
  <1>1. ticket[u] = "lapsed"
    BY DEF OpenHasReservation
  <1>2. OpenHasReservation'
    BY <1>1 DEF OpenHasReservation
  <1>3. AccessMatchesPayment'
    BY <1>1 DEF AccessMatchesPayment
  <1>4. RefundsFollowPayments'
    BY <1>1 DEF RefundsFollowPayments
  <1>5. QED
    BY <1>2, <1>3, <1>4

LEMMA CallbackRows ==
  ASSUME TypeOK, Rows, NEW k \in Keys, CallbackStep(k)
  PROVE  Rows'
  <1> USE TicketingAssumption DEF eventVars, rowVars, financeVars
  <1>o. OwnerOf[k] \in Users
    OBVIOUS
  <1>1. CASE ReportProcessing(k) \/ Conclude(k)
    BY <1>1, SameRows DEF ReportProcessing, Conclude
  <1>2. CASE HandleProcessing(k)
    <2>1. \A u \in Users : \/ purchase'[u].status = purchase[u].status
                           \/ /\ purchase[u].status = "initiated"
                              /\ purchase'[u].status = "processing"
      BY <1>2, <1>o DEF HandleProcessing, MarkPurchaseProcessing, TypeOK, PurchaseRow
    <2>2. UNCHANGED <<stage, ticket, member, refund, late>>
      BY <1>2 DEF HandleProcessing, MarkPurchaseProcessing
    <2>3. QED
      BY <2>1, <2>2
      DEF Rows, OpenHasReservation, AccessMatchesPayment, RefundsFollowPayments, Open, Reserved
  <1>3. CASE HandleFailed(k)
    BY <1>3, <1>o, FailAndReleaseRows DEF HandleFailed
  <1>4. CASE HandlePaid(k)
    BY <1>4, <1>o, SettleInTimeRows, SettleLateRows, SameRows DEF HandlePaid, SettleNothing
  <1>5. ASSUME NEW type \in WebhookType, LoseWebhook(type, k)
        PROVE  Rows'
    BY <1>5, SameRows DEF LoseWebhook
  <1>6. QED
    BY <1>1, <1>2, <1>3, <1>4, <1>5 DEF CallbackStep

\* A refund settles a payment that is still there, and takes the access with it.
LEMMA SettleRefundRows ==
  ASSUME TypeOK, Rows, NEW u \in Users, SettleRefund(u)
  PROVE  Rows'
  <1>1. /\ refund[u] = "processing" /\ purchase[u].status = "paid"
        /\ ticket[u] = "issued" => stage = "failed"
        /\ purchase' = [purchase EXCEPT ![u].status = "refunded"]
        /\ UNCHANGED <<stage, late>>
    BY DEF SettleRefund, RevokeEntitlementByPurchase, Enqueue, Rows, RefundsFollowPayments,
           eventVars, TypeOK, PurchaseRow
  <1>2. \A w \in Users : w # u => /\ purchase'[w] = purchase[w] /\ ticket'[w] = ticket[w]
                                  /\ member'[w] = member[w] /\ refund'[w] = refund[w]
    BY <1>1 DEF SettleRefund, RevokeEntitlementByPurchase, Enqueue, TypeOK
  <1>3. /\ purchase'[u].status = "refunded" /\ refund'[u] = "refunded"
        /\ ticket'[u] = IF ticket[u] \in {"issued"} \cup Reserved THEN "revoked" ELSE ticket[u]
        /\ member'[u] = IF ticket[u] \in {"issued"} \cup Reserved /\ member[u] = "active"
                        THEN "revoked" ELSE member[u]
    BY <1>1 DEF SettleRefund, RevokeEntitlementByPurchase, Enqueue, TypeOK, PurchaseRow
  <1>4. OpenHasReservation'
    BY <1>1, <1>2, <1>3 DEF Rows, OpenHasReservation, Open, Reserved
  <1>5. AccessMatchesPayment'
    BY <1>1, <1>2, <1>3 DEF Rows, AccessMatchesPayment, TypeOK, TicketStatus, MemberStatus, Reserved
  <1>6. RefundsFollowPayments'
    BY <1>1, <1>2, <1>3
    DEF Rows, AccessMatchesPayment, RefundsFollowPayments, TypeOK, TicketStatus, MemberStatus,
        Reserved, Open
  <1>7. QED
    BY <1>4, <1>5, <1>6 DEF Rows

LEMMA UserRows ==
  ASSUME TypeOK, Rows, NEW u \in Users, UserStep(u)
  PROVE  Rows'
  <1> USE DEF eventVars, rowVars, financeVars
  <1>1. CASE RefundExpiredPurchase(u) \/ RefundEvent(u)
    <2>1. /\ UNCHANGED <<stage, purchase, ticket, member>> /\ late' \subseteq late
          /\ refund' = [refund EXCEPT ![u] = IF @ = "none" THEN "processing" ELSE @]
      BY <1>1 DEF RefundExpiredPurchase, RefundEvent, CreateRefund
    <2>2. purchase[u].status = "paid" \/ refund[u] # "none"
      BY <1>1 DEF RefundExpiredPurchase, RefundEvent, Rows, RefundsFollowPayments
    <2>3. ticket[u] = "issued" => stage = "failed" \/ refund[u] # "none"
      BY <1>1 DEF RefundExpiredPurchase, RefundEvent, Rows, RefundsFollowPayments
    <2>4. u \in late' => stage = "failed"
      BY <1>1 DEF RefundExpiredPurchase, RefundEvent
    <2>5. /\ \A w \in Users : w # u => refund'[w] = refund[w]
          /\ refund'[u] = IF refund[u] = "none" THEN "processing" ELSE refund[u]
      BY <2>1 DEF TypeOK
    <2>6. OpenHasReservation' /\ AccessMatchesPayment'
      BY <2>1 DEF Rows, OpenHasReservation, AccessMatchesPayment
    <2>7. RefundsFollowPayments'
      BY <2>1, <2>2, <2>3, <2>4, <2>5 DEF Rows, RefundsFollowPayments
    <2>8. QED
      BY <2>6, <2>7 DEF Rows
  <1>2. CASE LoseLateRefund(u)
    BY <1>2
    DEF LoseLateRefund, Rows, OpenHasReservation, AccessMatchesPayment, RefundsFollowPayments
  <1>3. CASE SettleRefund(u)
    BY <1>3, SettleRefundRows
  <1>4. CASE Lapse(u)
    <2>1. /\ \A w \in Users : w # u => ticket'[w] = ticket[w]
          /\ ticket[u] = "held" /\ ticket'[u] = "lapsed"
          /\ UNCHANGED <<stage, purchase, member, refund, late>>
      BY <1>4 DEF Lapse, TypeOK
    <2>2. QED
      BY <2>1
      DEF Rows, OpenHasReservation, AccessMatchesPayment, RefundsFollowPayments, Reserved
  <1>5. QED
    BY <1>1, <1>2, <1>3, <1>4 DEF UserStep

LEMMA SweepRows ==
  ASSUME TypeOK, Rows, Sweep
  PROVE  Rows'
  <1>1. PICK S \in SUBSET Users : ExpireReservations(S)
    BY DEF Sweep
  <1>2. \A u \in S : ticket[u] = "lapsed" /\ ticket'[u] = "expired"
    BY <1>1 DEF ExpireReservations, ClaimExpiredTicketReservations, ReleaseEventTicket,
                MarkPurchaseFailedForTicket, Claimable
  <1>3. \A u \in Users \ S : ticket'[u] = ticket[u] /\ purchase'[u] = purchase[u]
    BY <1>1 DEF ExpireReservations, ClaimExpiredTicketReservations, ReleaseEventTicket,
                MarkPurchaseFailedForTicket
  <1>4. \A u \in S : purchase'[u].status =
                        IF purchase[u].status \in Open THEN "failed" ELSE purchase[u].status
    BY <1>1 DEF ExpireReservations, ClaimExpiredTicketReservations, ReleaseEventTicket,
                MarkPurchaseFailedForTicket, TypeOK, PurchaseRow
  <1>5. UNCHANGED <<stage, member, refund, late>>
    BY <1>1 DEF ExpireReservations, ClaimExpiredTicketReservations, ReleaseEventTicket,
                MarkPurchaseFailedForTicket, financeVars
  <1>6. OpenHasReservation'
    BY <1>2, <1>3, <1>4, <1>5 DEF Rows, OpenHasReservation, Open
  <1>7. AccessMatchesPayment'
    BY <1>2, <1>3, <1>4, <1>5 DEF Rows, AccessMatchesPayment
  <1>8. RefundsFollowPayments'
    BY <1>2, <1>3, <1>4, <1>5 DEF Rows, RefundsFollowPayments, Open, Reserved
  <1>9. QED
    BY <1>6, <1>7, <1>8 DEF Rows

LEMMA HostRows ==
  ASSUME TypeOK, Rows, HostStep
  PROVE  Rows'
  <1> USE DEF rowVars, financeVars
  <1>1. ASSUME NEW n \in 1..MaxTickets, UpdateEvent(n)
        PROVE  Rows'
    BY <1>1, SameRows DEF UpdateEvent
  <1>2. CASE MoveEvent
    <2>1. stage # "failed" /\ UNCHANGED <<purchase, ticket, member, refund, late>>
      BY <1>2 DEF MoveEvent, TypeOK, Stages
    <2>2. QED
      BY <2>1 DEF Rows, OpenHasReservation, AccessMatchesPayment, RefundsFollowPayments
  <1>3. QED
    BY <1>1, <1>2 DEF HostStep

LEMMA NextRows == TypeOK /\ Rows /\ [Next]_vars => Rows'
  <1>1. ASSUME Rows, UNCHANGED vars
        PROVE  Rows'
    BY <1>1, SameRows DEF vars
  <1>2. QED
    BY <1>1, RequestRows, CallbackRows, UserRows, SweepRows, HostRows DEF Next

-----------------------------------------------------------------------------
(***************************************************************************)
(* Slots: available_tickets and the tickets that took one fit the total.   *)
(***************************************************************************)
LEMMA OccupiedFinite ==
  /\ IsFiniteSet(Occupied) /\ Cardinality(Occupied) \in Nat
  /\ IsFiniteSet(Occupied') /\ Cardinality(Occupied') \in Nat
  <1>1. Occupied \subseteq Users /\ Occupied' \subseteq Users
    BY DEF Occupied
  <1>2. QED
    BY <1>1, TicketingAssumption, FS_Subset, FS_CardinalityType

LEMMA InitSlots == Init => SlotsCovered
  <1>1. Init => Occupied = {}
    BY DEF Init, Occupied
  <1>2. QED
    BY <1>1, FS_EmptySet DEF Init, SlotsCovered

LEMMA SameSlots ==
  ASSUME SlotsCovered, Occupied' = Occupied, UNCHANGED <<total, available>>
  PROVE  SlotsCovered'
  BY DEF SlotsCovered

LEMMA TakeSlotSlots ==
  ASSUME TypeOK, SlotsCovered, NEW u \in Users, NEW k \in Keys, TakeSlot(u, k)
  PROVE  SlotsCovered'
  <1>1. Occupied' = Occupied \cup {u}
    BY DEF Occupied, TakeSlot, TypeOK
  <1>2. Cardinality(Occupied') <= Cardinality(Occupied) + 1
    BY <1>1, OccupiedFinite, FS_AddElement
  <1>3. QED
    BY <1>2, OccupiedFinite DEF SlotsCovered, TakeSlot, TypeOK

\* The failed purchase was open, so its ticket did take a slot.
LEMMA FailAndReleaseSlots ==
  ASSUME TypeOK, OpenHasReservation, SlotsCovered, NEW u \in Users, FailAndRelease(u)
  PROVE  SlotsCovered'
  <1>1. CASE UNCHANGED <<eventVars, rowVars>>
    BY <1>1, SameSlots DEF eventVars, rowVars, Occupied
  <1>2. CASE ~UNCHANGED <<eventVars, rowVars>>
    <2>1. /\ ticket[u] \in Reserved /\ ticket' = [ticket EXCEPT ![u] = "expired"]
          /\ available' = available + 1 /\ total' = total
      BY <1>2 DEF FailAndRelease, MarkPurchaseFailed, ExpireTicketByPurchase,
                  ReleaseEventTicket, OpenHasReservation
    <2>2. u \in Occupied /\ Occupied' = Occupied \ {u}
      BY <2>1 DEF Occupied, Reserved, TypeOK
    <2>3. Cardinality(Occupied') = Cardinality(Occupied) - 1
      BY <2>2, OccupiedFinite, FS_RemoveElement
    <2>4. QED
      BY <2>1, <2>3, OccupiedFinite DEF SlotsCovered, TypeOK
  <1>3. QED
    BY <1>1, <1>2

LEMMA RequestSlots ==
  ASSUME TypeOK, Rows, SlotsCovered, NEW r \in Requests, RequestStepOf(r)
  PROVE  SlotsCovered'
  <1> USE TicketingAssumption DEF eventVars, rowVars
  <1>k. KeyOf[r] \in Keys /\ Buyer(r) \in Users
    BY DEF Buyer
  <1>1. CASE \/ Purchase(r) \/ CheckEvent(r) \/ OpenPurchase(r) \/ ReservationUnread(r)
             \/ InitiateCharge(r) \/ SetCheckoutURL(r) \/ Abandon(r)
    BY <1>1, SameSlots
    DEF Purchase, CheckEvent, OpenPurchase, ReservationUnread, InitiateCharge,
        SetCheckoutURL, UpdatePurchaseCheckout, Abandon, Occupied
  <1>2. CASE Reserve(r) \/ ResetForRetry(r)
    <2>1. TakeSlot(Buyer(r), KeyOf[r]) \/ UNCHANGED <<eventVars, rowVars>>
      BY <1>2, AttemptTakesSlot
    <2>2. QED
      BY <2>1, <1>k, TakeSlotSlots, SameSlots DEF Occupied
  <1>3. CASE ReleaseRefused(r)
    BY <1>3, <1>k, FailAndReleaseSlots DEF ReleaseRefused, Rows
  <1>4. QED
    BY <1>1, <1>2, <1>3 DEF RequestStepOf

LEMMA CallbackSlots ==
  ASSUME TypeOK, Rows, SlotsCovered, NEW k \in Keys, CallbackStep(k)
  PROVE  SlotsCovered'
  <1> USE TicketingAssumption DEF eventVars, rowVars
  <1>o. OwnerOf[k] \in Users
    OBVIOUS
  <1>1. CASE ReportProcessing(k) \/ Conclude(k) \/ HandleProcessing(k)
    BY <1>1, SameSlots DEF ReportProcessing, Conclude, HandleProcessing,
                           MarkPurchaseProcessing, Occupied
  <1>2. CASE HandleFailed(k)
    BY <1>2, <1>o, FailAndReleaseSlots DEF HandleFailed, Rows
  <1>3. CASE HandlePaid(k)
    <2>1. Occupied' = Occupied
      BY <1>3, <1>o DEF HandlePaid, SettleInTime, MarkPurchasePaid, IssueTicketByPurchase,
                        CreateEventMember, Enqueue, SettleLate, SettleNothing, Occupied,
                        TypeOK
    <2>2. QED
      BY <1>3, <2>1, SameSlots DEF HandlePaid
  <1>4. ASSUME NEW type \in WebhookType, LoseWebhook(type, k)
        PROVE  SlotsCovered'
    BY <1>4, SameSlots DEF LoseWebhook, Occupied
  <1>5. QED
    BY <1>1, <1>2, <1>3, <1>4 DEF CallbackStep

LEMMA UserSlots ==
  ASSUME TypeOK, SlotsCovered, NEW u \in Users, UserStep(u)
  PROVE  SlotsCovered'
  <1>1. UNCHANGED <<total, available>>
    BY DEF UserStep, RefundExpiredPurchase, LoseLateRefund, RefundEvent, SettleRefund,
           RevokeEntitlementByPurchase, Enqueue, Lapse, eventVars
  <1>2. Occupied' = Occupied
    BY DEF UserStep, RefundExpiredPurchase, LoseLateRefund, RefundEvent, SettleRefund,
           RevokeEntitlementByPurchase, Enqueue, Lapse, rowVars, Occupied, Reserved, TypeOK
  <1>3. QED
    BY <1>1, <1>2, SameSlots

\* A batch of the sweep returns exactly the slots its reservations took.
LEMMA SweepSlots ==
  ASSUME TypeOK, SlotsCovered, Sweep
  PROVE  SlotsCovered'
  <1>1. PICK S \in SUBSET Users : ExpireReservations(S)
    BY DEF Sweep
  <1>2. S \subseteq Occupied /\ Occupied' = Occupied \ S
    BY <1>1 DEF ExpireReservations, ClaimExpiredTicketReservations, ReleaseEventTicket,
                MarkPurchaseFailedForTicket, Claimable, Occupied
  <1>3. Cardinality(Occupied') = Cardinality(Occupied) - Cardinality(S)
    <2>1. Occupied \cap S = S
      BY <1>2
    <2>2. Cardinality(Occupied \ S) = Cardinality(Occupied) - Cardinality(Occupied \cap S)
      BY OccupiedFinite, FS_Difference
    <2>3. QED
      BY <1>2, <2>1, <2>2
  <1>4. Cardinality(S) \in Nat
    <2>1. IsFiniteSet(S)
      BY <1>2, OccupiedFinite, FS_Subset
    <2>2. QED
      BY <2>1, FS_CardinalityType
  <1>5. available' = available + Cardinality(S) /\ total' = total
    BY <1>1 DEF ExpireReservations, ReleaseEventTicket
  <1>6. available + Cardinality(Occupied) <= total /\ total \in Int /\ available \in Int
    BY TicketingAssumption DEF SlotsCovered, TypeOK
  <1>7. QED
    BY <1>3, <1>4, <1>5, <1>6, OccupiedFinite DEF SlotsCovered

\* A new total keeps the slots that are taken.
LEMMA HostSlots ==
  ASSUME TypeOK, SlotsCovered, HostStep
  PROVE  SlotsCovered'
  <1>1. Occupied' = Occupied
    BY DEF HostStep, UpdateEvent, MoveEvent, rowVars, Occupied
  <1>2. total' - available' = total - available
    BY TicketingAssumption DEF HostStep, UpdateEvent, MoveEvent, TypeOK
  <1>3. available \in Int /\ total \in Int /\ available' \in Int /\ total' \in Int
    BY HostTypeOK, TicketingAssumption DEF TypeOK
  <1>4. Cardinality(Occupied') = Cardinality(Occupied) /\ Cardinality(Occupied) \in Int
    BY <1>1, OccupiedFinite
  <1>5. available + Cardinality(Occupied) <= total
    BY DEF SlotsCovered
  <1>6. \A a, t, b, n, c \in Int : n - b = t - a /\ a + c <= t => b + c <= n
    OBVIOUS
  <1>7. available' + Cardinality(Occupied') <= total'
    BY <1>2, <1>3, <1>4, <1>5, <1>6
  <1>8. QED
    BY <1>7 DEF SlotsCovered

LEMMA NextSlots == TypeOK /\ Rows /\ SlotsCovered /\ [Next]_vars => SlotsCovered'
  <1>1. ASSUME SlotsCovered, UNCHANGED vars
        PROVE  SlotsCovered'
    BY <1>1, SameSlots DEF vars, Occupied
  <1>2. QED
    BY <1>1, RequestSlots, CallbackSlots, UserSlots, SweepSlots, HostSlots DEF Next

-----------------------------------------------------------------------------
(***************************************************************************)
(* The theorems.                                                           *)
(***************************************************************************)
LEMMA NextIInv == IInv /\ [Next]_vars => IInv'
  BY NextTypeOK, NextRows, NextSlots DEF IInv, Rows

\* The inductive invariant holds of every reachable state.
THEOREM Invariance == Spec => []IInv
  <1>1. Init => IInv
    BY InitTypeOK, InitRows, InitSlots DEF IInv, Rows
  <1>2. QED
    BY <1>1, NextIInv, PTL DEF Spec

\* No overselling: slots for sale and tickets holding one never exceed the total.
THEOREM NoOverselling == Spec => []SlotsCovered
  <1>1. IInv => SlotsCovered
    BY DEF IInv
  <1>2. QED
    BY <1>1, Invariance, PTL

\* A reservation and its open purchase come and go together.
THEOREM ReservationsPaired == Spec => []OpenHasReservation
  <1>1. IInv => OpenHasReservation
    BY DEF IInv
  <1>2. QED
    BY <1>1, Invariance, PTL

\* Stream access is exactly an issued ticket of a paid purchase.
THEOREM AccessIsPaid == Spec => []AccessMatchesPayment
  <1>1. IInv => AccessMatchesPayment
    BY DEF IInv
  <1>2. QED
    BY <1>1, Invariance, PTL

\* Refund rows, late payments and revoked memberships follow the purchase.
THEOREM RefundsAreOfPayments == Spec => []RefundsFollowPayments
  <1>1. IInv => RefundsFollowPayments
    BY DEF IInv
  <1>2. QED
    BY <1>1, Invariance, PTL

\* A slot can always be returned, so neither FailAndRelease nor a batch of the sweep
\* ever rolls back for want of one.
THEOREM ReleasesNeverFail == Spec => []ReleaseSucceeds
  <1>1. IInv => ReleaseSucceeds
    <2>1. SUFFICES ASSUME IInv PROVE ReleaseSucceeds
      OBVIOUS
    <2>2. available \in Nat /\ total \in Nat
      BY TicketingAssumption, <2>1 DEF IInv, TypeOK
    <2>3. ASSUME NEW u \in Users, purchase[u].status \in Open
          PROVE  available < total
      <3>1. u \in Occupied
        BY <2>1, <2>3 DEF IInv, OpenHasReservation, Occupied, Reserved
      <3>2. Cardinality(Occupied) # 0
        BY <3>1, OccupiedFinite, FS_EmptySet
      <3>3. QED
        BY <2>1, <2>2, <3>2, OccupiedFinite DEF IInv, SlotsCovered
    <2>4. ASSUME NEW S \in SUBSET Users, Claimable(S)
          PROVE  available + Cardinality(S) <= total
      <3>1. S \subseteq Occupied
        BY <2>4 DEF Claimable, Occupied
      <3>2. Cardinality(S) <= Cardinality(Occupied) /\ Cardinality(S) \in Nat
        BY <3>1, OccupiedFinite, FS_Subset, FS_CardinalityType
      <3>3. QED
        BY <2>1, <2>2, <3>2, OccupiedFinite DEF IInv, SlotsCovered
    <2>5. QED
      BY <2>3, <2>4 DEF ReleaseSucceeds
  <1>2. QED
    BY <1>1, Invariance, PTL

\* What PaidEndsByRefund says of one step, for one account.
PaidKept(u) ==
    purchase[u].status = "paid" =>
        \/ purchase'[u].status = "paid"
        \/ /\ purchase'[u].status = "refunded"
           /\ refund[u] = "processing" /\ refund'[u] = "refunded"

LEMMA PaidStep ==
  ASSUME TypeOK, Next, NEW u \in Users
  PROVE  PaidKept(u)
  <1> USE TicketingAssumption DEF TypeOK, PurchaseRow, Open
  <1>1. ASSUME NEW r \in Requests, RequestStepOf(r)
        PROVE  PaidKept(u)
    BY <1>1
    DEF PaidKept, RequestStepOf, Purchase, CheckEvent, OpenPurchase, ReservationUnread,
        Reserve, ReserveEventTicket, CreatePurchase, CreateTemporaryTicket, Initiated, ResetForRetry,
        ResetPurchaseForRetry, ResetTicketForRetry, TakeSlot, InitiateCharge,
        ReleaseRefused, FailAndRelease, MarkPurchaseFailed, ExpireTicketByPurchase,
        ReleaseEventTicket, SetCheckoutURL, UpdatePurchaseCheckout, Abandon, rowVars, Buyer
  <1>2. ASSUME NEW k \in Keys, CallbackStep(k)
        PROVE  PaidKept(u)
    BY <1>2
    DEF PaidKept, CallbackStep, ReportProcessing, Conclude, HandleProcessing,
        MarkPurchaseProcessing, HandleFailed, FailAndRelease, MarkPurchaseFailed,
        ExpireTicketByPurchase, ReleaseEventTicket, HandlePaid, SettleInTime,
        MarkPurchasePaid, IssueTicketByPurchase, CreateEventMember, Enqueue, SettleLate,
        SettleNothing, LoseWebhook, rowVars
  <1>3. ASSUME NEW w \in Users, UserStep(w)
        PROVE  PaidKept(u)
    BY <1>3
    DEF PaidKept, UserStep, RefundExpiredPurchase, LoseLateRefund, RefundEvent,
        SettleRefund, RevokeEntitlementByPurchase, Enqueue, Lapse, rowVars
  <1>4. CASE Sweep
    BY <1>4 DEF PaidKept, Sweep, ExpireReservations, ClaimExpiredTicketReservations,
                ReleaseEventTicket, MarkPurchaseFailedForTicket
  <1>5. CASE HostStep
    BY <1>5 DEF PaidKept, HostStep, UpdateEvent, MoveEvent, rowVars
  <1>6. QED
    BY <1>1, <1>2, <1>3, <1>4, <1>5 DEF Next

\* A paid purchase ends only by the settlement of its refund.
THEOREM PaidIsFinal == Spec => PaidEndsByRefund
  <1>1. TypeOK /\ [Next]_vars =>
           [\A u \in Users :
              purchase[u].status = "paid" =>
                  \/ purchase'[u].status = "paid"
                  \/ /\ purchase'[u].status = "refunded"
                     /\ refund[u] = "processing" /\ refund'[u] = "refunded"]_vars
    BY PaidStep DEF PaidKept
  <1>2. QED
    BY <1>1, TypeCorrect, PTL DEF Spec, PaidEndsByRefund

-----------------------------------------------------------------------------
(***************************************************************************)
(* Receipts.                                                               *)
(***************************************************************************)

\* ReceiptMatchesTicket is not inductive: a revoked ticket is overwritten by a
\* repeated purchase.  One that was issued is revoked only after the stream failed,
\* when nothing is for sale any more.
HasReceipt(u) == <<"ticket.issued", u>> \in mail

ReceiptFollowsTicket ==
    \A u \in Users :
        /\ ticket[u] = "issued" /\ u \in Reachable => HasReceipt(u)
        /\ HasReceipt(u) =>
              ticket[u] = "issued" \/ (ticket[u] = "revoked" /\ stage = "failed")

\* A transition of one ticket row that neither issues nor touches an issued one.
LEMMA SameReceipts ==
  ASSUME ReceiptFollowsTicket, mail' = mail, (stage = "failed" => stage' = "failed"),
         \A u \in Users :
            \/ ticket'[u] = ticket[u]
            \/ /\ ticket[u] # "issued" /\ ticket'[u] # "issued"
               /\ ~(ticket[u] = "revoked" /\ stage = "failed")
  PROVE  ReceiptFollowsTicket'
  <1>1. \A u \in Users : HasReceipt(u)' <=> HasReceipt(u)
    BY DEF HasReceipt
  <1>2. QED
    BY <1>1 DEF ReceiptFollowsTicket

LEMMA FailAndReleaseTickets ==
  ASSUME TypeOK, NEW u \in Users, FailAndRelease(u)
  PROVE  /\ stage' = stage
         /\ \A v \in Users : ticket'[v] = ticket[v]
                             \/ (ticket[v] \in Reserved /\ ticket'[v] = "expired")
  BY DEF FailAndRelease, MarkPurchaseFailed, ExpireTicketByPurchase, ReleaseEventTicket,
         TypeOK, eventVars, rowVars

LEMMA RequestReceipts ==
  ASSUME IInv, ReceiptFollowsTicket, NEW r \in Requests, RequestStepOf(r)
  PROVE  ReceiptFollowsTicket'
  <1> USE DEF IInv, eventVars, rowVars, financeVars
  <1>u. Buyer(r) \in Users
    BY TicketingAssumption DEF Buyer
  <1>1. CASE Reserve(r) \/ ResetForRetry(r)
    <2>1. mail' = mail
      BY <1>1 DEF Reserve, ResetForRetry
    <2>2. CASE UNCHANGED <<eventVars, rowVars>>
      BY <2>1, <2>2, SameReceipts
    <2>3. CASE /\ SlotFree /\ TakeSlot(Buyer(r), KeyOf[r])
               /\ purchase[Buyer(r)].status \in {"none", "initiated", "failed", "refunded"}
      <3>1. ticket[Buyer(r)] # "issued" /\ stage = "upcoming"
        BY <1>u, <2>3 DEF SlotFree, AccessMatchesPayment
      <3>2. QED
        BY <1>u, <2>1, <2>3, <3>1, SameReceipts DEF TakeSlot, TypeOK
    <2>4. QED
      BY <1>1, <2>2, <2>3, AttemptTakesSlot
  <1>2. CASE ReleaseRefused(r)
    BY <1>2, <1>u, FailAndReleaseTickets, SameReceipts DEF ReleaseRefused, Reserved
  <1>3. CASE ~(Reserve(r) \/ ResetForRetry(r) \/ ReleaseRefused(r))
    BY <1>3, SameReceipts
    DEF RequestStepOf, Purchase, CheckEvent, OpenPurchase, ReservationUnread,
        InitiateCharge, SetCheckoutURL, Abandon
  <1>4. QED
    BY <1>1, <1>2, <1>3

LEMMA CallbackReceipts ==
  ASSUME IInv, ReceiptFollowsTicket, NEW k \in Keys, CallbackStep(k)
  PROVE  ReceiptFollowsTicket'
  <1> USE DEF IInv, eventVars, rowVars, financeVars
  <1>o. OwnerOf[k] \in Users
    BY TicketingAssumption
  <1>1. CASE HandleFailed(k)
    BY <1>1, <1>o, FailAndReleaseTickets, SameReceipts DEF HandleFailed, Reserved
  <1>2. CASE HandlePaid(k) /\ SettleInTime(OwnerOf[k])
    <2>1. /\ ticket' = [ticket EXCEPT ![OwnerOf[k]] = "issued"] /\ stage' = stage
          /\ mail' = mail \cup ({"ticket.issued"} \X (Reachable \cap {OwnerOf[k]}))
      BY <1>2 DEF HandlePaid, SettleInTime, IssueTicketByPurchase, Enqueue
    <2>2. \A v \in Users : HasReceipt(v)' <=>
                            HasReceipt(v) \/ (v = OwnerOf[k] /\ v \in Reachable)
      BY <2>1, Zenon DEF HasReceipt
    <2>3. ticket[OwnerOf[k]] = "held"
      BY <1>2 DEF SettleInTime, IssueTicketByPurchase
    <2>4. QED
      BY <1>o, <2>1, <2>2, <2>3 DEF ReceiptFollowsTicket, TypeOK
  <1>3. CASE ~HandleFailed(k) /\ ~(HandlePaid(k) /\ SettleInTime(OwnerOf[k]))
    BY <1>3, SameReceipts
    DEF CallbackStep, ReportProcessing, Conclude, HandleProcessing, HandlePaid, SettleLate,
        SettleNothing, LoseWebhook
  <1>4. QED
    BY <1>1, <1>2, <1>3

LEMMA UserReceipts ==
  ASSUME IInv, ReceiptFollowsTicket, NEW u \in Users, UserStep(u)
  PROVE  ReceiptFollowsTicket'
  <1> USE DEF IInv, eventVars, rowVars, financeVars
  <1>1. CASE SettleRefund(u)
    <2>1. /\ ticket' = [ticket EXCEPT ![u] = IF @ \in {"issued"} \cup Reserved
                                             THEN "revoked" ELSE @]
          /\ mail' = mail \cup ({"refund.completed"} \X (Reachable \cap {u}))
          /\ stage' = stage
      BY <1>1 DEF SettleRefund, RevokeEntitlementByPurchase, Enqueue
    <2>2. ticket[u] = "issued" => stage = "failed"
      BY <1>1 DEF SettleRefund, RefundsFollowPayments
    <2>3. \A v \in Users : HasReceipt(v)' <=> HasReceipt(v)
      BY <2>1 DEF HasReceipt
    <2>4. QED
      BY <2>1, <2>2, <2>3 DEF ReceiptFollowsTicket, TypeOK, Reserved
  <1>2. CASE ~SettleRefund(u)
    BY <1>2, SameReceipts
    DEF UserStep, RefundExpiredPurchase, LoseLateRefund, RefundEvent, Lapse, TypeOK
  <1>3. QED
    BY <1>1, <1>2

LEMMA NextReceipts == IInv /\ ReceiptFollowsTicket /\ [Next]_vars => ReceiptFollowsTicket'
  <1> SUFFICES ASSUME IInv, ReceiptFollowsTicket, [Next]_vars PROVE ReceiptFollowsTicket'
    OBVIOUS
  <1>1. CASE Sweep
    BY <1>1, SameReceipts DEF Sweep, ExpireReservations, ClaimExpiredTicketReservations,
       Claimable, ReleaseEventTicket, MarkPurchaseFailedForTicket, financeVars
  <1>2. CASE HostStep
    BY <1>2, SameReceipts DEF HostStep, UpdateEvent, MoveEvent, rowVars, financeVars, IInv,
       TypeOK, Stages
  <1>3. CASE UNCHANGED vars
    BY <1>3, SameReceipts DEF vars
  <1>4. QED
    BY <1>1, <1>2, <1>3, RequestReceipts, CallbackReceipts, UserReceipts DEF Next

\* The receipt of a ticket commits with its issue, and with nothing else.
THEOREM ReceiptsAreOfTickets == Spec => []ReceiptMatchesTicket
  <1>1. Init => ReceiptFollowsTicket
    BY DEF Init, ReceiptFollowsTicket, HasReceipt
  <1>2. ReceiptFollowsTicket => ReceiptMatchesTicket
    BY Zenon DEF ReceiptFollowsTicket, ReceiptMatchesTicket, HasReceipt
  <1>3. QED
    BY <1>1, <1>2, NextReceipts, Invariance, PTL DEF Spec
-----------------------------------------------------------------------------
(***************************************************************************)
(* Payments.                                                               *)
(***************************************************************************)
Awaited(k) == <<"paid", k>> \in inbox

Settled(u) == Count(purchase[u].status = "paid") + Count(refund[u] = "refunded")

\* BackedByCharge with what makes it inductive: a callback reports a payment that
\* was made, so that consuming it adds a charge to those of its account.
Backed ==
    /\ \A k \in Keys : Awaited(k) => charge[k] = "paid"
    /\ \A u \in Users : /\ IsFiniteSet(PaidCharges(u))
                        /\ Settled(u) <= Cardinality(PaidCharges(u))

\* A step that consumes no callback of a payment leaves every account's charges.
LEMMA SameCharges ==
  ASSUME Backed,
         \A k \in Keys : Awaited(k)' <=> Awaited(k),
         \A k \in Keys : charge'[k] = "paid" <=> charge[k] = "paid",
         \A u \in Users : Settled(u)' <= Settled(u)
  PROVE  Backed'
  <1>1. \A k \in Keys : Awaited(k)' => charge'[k] = "paid"
    BY DEF Backed
  <1>2. ASSUME NEW u \in Users
        PROVE  /\ IsFiniteSet(PaidCharges(u))'
               /\ (Settled(u) <= Cardinality(PaidCharges(u)))'
    <2>1. PaidCharges(u)' = PaidCharges(u)
      BY DEF PaidCharges, Awaited
    <2>2. /\ Settled(u) \in Int /\ Settled(u)' \in Int
          /\ Cardinality(PaidCharges(u)) \in Int
      BY FS_CardinalityType DEF Settled, Count, Backed
    <2>3. QED
      BY <2>1, <2>2 DEF Backed
  <1>3. QED
    BY <1>1, <1>2 DEF Backed

\* The callback of a payment is consumed, and settles one attempt of its account
\* at most.
LEMMA ChargeConsumed ==
  ASSUME Backed, NEW k \in Keys, Consume("paid", k),
         \A u \in Users : Settled(u)' <= Settled(u) + Count(u = OwnerOf[k])
  PROVE  Backed'
  <1>1. /\ Awaited(k) /\ charge' = charge /\ charge[k] = "paid"
        /\ \A j \in Keys : Awaited(j)' <=> Awaited(j) /\ j # k
    BY DEF Consume, Awaited, Backed
  <1>2. \A j \in Keys : Awaited(j)' => charge'[j] = "paid"
    BY <1>1 DEF Backed
  <1>3. ASSUME NEW u \in Users
        PROVE  /\ IsFiniteSet(PaidCharges(u))'
               /\ (Settled(u) <= Cardinality(PaidCharges(u)))'
    <2>t. /\ Settled(u) \in Int /\ Settled(u)' \in Int
          /\ Cardinality(PaidCharges(u)) \in Int /\ IsFiniteSet(PaidCharges(u))
          /\ Settled(u) <= Cardinality(PaidCharges(u))
      BY FS_CardinalityType DEF Settled, Count, Backed
    <2>1. CASE u = OwnerOf[k]
      <3>1. PaidCharges(u)' = PaidCharges(u) \cup {k} /\ k \notin PaidCharges(u)
        BY <1>1, <2>1 DEF PaidCharges, Awaited
      <3>2. /\ IsFiniteSet(PaidCharges(u)')
            /\ Cardinality(PaidCharges(u)') = Cardinality(PaidCharges(u)) + 1
        BY <2>t, <3>1, FS_AddElement
      <3>3. Settled(u)' <= Settled(u) + 1
        BY <2>1 DEF Count
      <3>4. QED
        BY <2>t, <3>2, <3>3
    <2>2. CASE u # OwnerOf[k]
      <3>1. PaidCharges(u)' = PaidCharges(u)
        BY <1>1, <2>2 DEF PaidCharges, Awaited
      <3>2. Settled(u)' <= Settled(u) + 0
        BY <2>2 DEF Count
      <3>3. QED
        BY <2>t, <3>1, <3>2
    <2>3. QED
      BY <2>1, <2>2
  <1>4. QED
    BY <1>2, <1>3 DEF Backed

\* An account's count rises only with a payment or a refund that was not there.
LEMMA NothingSettled ==
  ASSUME NEW u \in Users,
         (purchase'[u].status = "paid" => purchase[u].status = "paid"),
         (refund'[u] = "refunded" => refund[u] = "refunded")
  PROVE  Settled(u)' <= Settled(u)
  BY DEF Settled, Count

LEMMA RequestBacked ==
  ASSUME IInv, Backed, NEW r \in Requests, RequestStepOf(r)
  PROVE  Backed'
  <1> USE TicketingAssumption DEF IInv, TypeOK, PurchaseRow
  <1>u. Buyer(r) \in Users /\ KeyOf[r] \in Keys
    BY DEF Buyer
  <1>1. inbox' = inbox /\ refund' = refund
    BY DEF RequestStepOf, Purchase, CheckEvent, OpenPurchase, ReservationUnread,
           Reserve, ResetForRetry, InitiateCharge, ReleaseRefused, SetCheckoutURL, Abandon, financeVars, provider
  <1>2. \A k \in Keys : charge'[k] = "paid" <=> charge[k] = "paid"
    BY <1>u DEF RequestStepOf, Purchase, CheckEvent, OpenPurchase, ReservationUnread,
                Reserve, ResetForRetry, InitiateCharge, ReleaseRefused, SetCheckoutURL, Abandon, provider
  <1>3. \A v \in Users : purchase'[v].status = "paid" => purchase[v].status = "paid"
    <2>1. CASE Reserve(r) \/ ResetForRetry(r)
      <3>1. purchase' = purchase \/ purchase' = [purchase EXCEPT ![Buyer(r)] = Initiated(KeyOf[r])]
        BY <2>1, AttemptTakesSlot DEF rowVars, TakeSlot
      <3>2. QED
        BY <1>u, <3>1 DEF Initiated
    <2>2. CASE ReleaseRefused(r)
      BY <1>u, <2>2 DEF ReleaseRefused, FailAndRelease, MarkPurchaseFailed, rowVars
    <2>3. CASE SetCheckoutURL(r)
      BY <1>u, <2>3 DEF SetCheckoutURL, UpdatePurchaseCheckout
    <2>4. CASE \/ Purchase(r) \/ CheckEvent(r) \/ OpenPurchase(r) \/ ReservationUnread(r)
             \/ InitiateCharge(r) \/ Abandon(r)
      BY <2>4 DEF Purchase, CheckEvent, OpenPurchase, ReservationUnread,
                    InitiateCharge, Abandon, rowVars
    <2>5. QED
      BY <2>1, <2>2, <2>3, <2>4 DEF RequestStepOf
  <1>4. QED
    BY <1>1, <1>2, <1>3, NothingSettled, SameCharges DEF Awaited

LEMMA CallbackBacked ==
  ASSUME IInv, Backed, NEW k \in Keys, CallbackStep(k)
  PROVE  Backed'
  <1> USE TicketingAssumption DEF IInv, TypeOK, PurchaseRow
  <1>o. OwnerOf[k] \in Users
    OBVIOUS
  <1>1. CASE ReportProcessing(k) \/ HandleProcessing(k) \/ HandleFailed(k)
             \/ LoseWebhook("processing", k) \/ LoseWebhook("failed", k)
    <2>1. \A j \in Keys : Awaited(j)' <=> Awaited(j)
      BY <1>1 DEF ReportProcessing, HandleProcessing, HandleFailed, LoseWebhook, Consume,
                  Awaited
    <2>2. charge' = charge /\ refund' = refund
      BY <1>1 DEF ReportProcessing, HandleProcessing, HandleFailed, LoseWebhook, Consume,
                  financeVars
    <2>3. \A v \in Users : purchase'[v].status = "paid" => purchase[v].status = "paid"
      BY <1>o, <1>1 DEF ReportProcessing, HandleProcessing, MarkPurchaseProcessing,
         HandleFailed, FailAndRelease, MarkPurchaseFailed, ExpireTicketByPurchase,
         ReleaseEventTicket, LoseWebhook, rowVars
    <2>4. QED
      BY <2>1, <2>2, <2>3, NothingSettled, SameCharges
  <1>2. CASE Conclude(k)
    <2>1. PICK outcome \in {"paid", "failed"} :
             /\ charge[k] = "open" /\ charge' = [charge EXCEPT ![k] = outcome]
             /\ inbox' = inbox \cup {<<outcome, k>>}
      BY <1>2 DEF Conclude
    <2>2. \A v \in Users : Settled(v)' = Settled(v)
      BY <1>2 DEF Conclude, rowVars, financeVars, Settled
    <2>3. \A j \in Keys : /\ Awaited(j)' <=> Awaited(j) \/ (j = k /\ outcome = "paid")
                          /\ charge'[j] = "paid" <=>
                                charge[j] = "paid" \/ (j = k /\ outcome = "paid")
      BY <2>1 DEF Awaited
    <2>4. \A v \in Users : PaidCharges(v)' = PaidCharges(v)
      BY <2>1, <2>3 DEF PaidCharges, Awaited
    <2>5. QED
      BY <2>2, <2>3, <2>4 DEF Backed
  <1>3. CASE HandlePaid(k)
    <2>1. Consume("paid", k) /\ refund' = refund
      BY <1>3 DEF HandlePaid
    <2>2. \A v \in Users : purchase'[v].status = "paid" =>
                              purchase[v].status = "paid" \/ v = OwnerOf[k]
      BY <1>o, <1>3 DEF HandlePaid, SettleInTime, MarkPurchasePaid, IssueTicketByPurchase,
         CreateEventMember, Enqueue, SettleLate, SettleNothing, rowVars
    <2>3. \A v \in Users : Settled(v)' <= Settled(v) + Count(v = OwnerOf[k])
      BY <2>1, <2>2 DEF Settled, Count
    <2>4. QED
      BY <2>1, <2>3, ChargeConsumed
  <1>4. CASE LoseWebhook("paid", k)
    <2>1. Consume("paid", k) /\ refund' = refund /\ purchase' = purchase
      BY <1>4 DEF LoseWebhook, rowVars, financeVars
    <2>2. \A v \in Users : Settled(v)' <= Settled(v) + Count(v = OwnerOf[k])
      BY <2>1 DEF Settled, Count
    <2>3. QED
      BY <2>1, <2>2, ChargeConsumed
  <1>5. QED
    BY <1>1, <1>2, <1>3, <1>4 DEF CallbackStep, WebhookType

LEMMA UserBacked ==
  ASSUME IInv, Backed, NEW u \in Users, UserStep(u)
  PROVE  Backed'
  <1> USE DEF IInv, TypeOK, PurchaseRow
  <1>1. inbox' = inbox /\ charge' = charge
    BY DEF UserStep, RefundExpiredPurchase, LoseLateRefund, RefundEvent, SettleRefund, Lapse,
           provider
  <1>2. CASE SettleRefund(u)
    <2>1. purchase[u].status = "paid" /\ refund[u] = "processing"
      BY <1>2 DEF SettleRefund, RefundsFollowPayments
    <2>2. /\ purchase' = [purchase EXCEPT ![u].status = "refunded"]
          /\ refund' = [refund EXCEPT ![u] = "refunded"]
      BY <1>2, <2>1 DEF SettleRefund
    <2>3. \A v \in Users : Settled(v)' <= Settled(v)
      BY <2>1, <2>2 DEF Settled, Count
    <2>4. QED
      BY <1>1, <2>3, SameCharges DEF Awaited
  <1>3. CASE ~SettleRefund(u)
    <2>1. purchase' = purchase
      BY <1>3 DEF UserStep, RefundExpiredPurchase, LoseLateRefund, RefundEvent, Lapse, rowVars
    <2>2. \A v \in Users : refund'[v] = "refunded" => refund[v] = "refunded"
      BY <1>3 DEF UserStep, RefundExpiredPurchase, LoseLateRefund, RefundEvent, Lapse,
                  CreateRefund, financeVars, RefundStatus
    <2>3. QED
      BY <1>1, <2>1, <2>2, NothingSettled, SameCharges DEF Awaited
  <1>4. QED
    BY <1>2, <1>3

LEMMA NextBacked == IInv /\ Backed /\ [Next]_vars => Backed'
  <1> SUFFICES ASSUME IInv, Backed, [Next]_vars PROVE Backed'
    OBVIOUS
  <1>1. CASE Sweep \/ HostStep \/ UNCHANGED vars
    <2>1. inbox' = inbox /\ charge' = charge /\ refund' = refund
      BY <1>1 DEF Sweep, ExpireReservations, HostStep, UpdateEvent, MoveEvent, financeVars,
                  provider, vars
    <2>2. \A v \in Users : purchase'[v].status = "paid" => purchase[v].status = "paid"
      BY <1>1 DEF Sweep, ExpireReservations, MarkPurchaseFailedForTicket, HostStep,
         UpdateEvent, MoveEvent, rowVars, vars, IInv, TypeOK, PurchaseRow
    <2>3. QED
      BY <2>1, <2>2, NothingSettled, SameCharges DEF Awaited
  <1>2. QED
    BY <1>1, RequestBacked, CallbackBacked, UserBacked DEF Next

\* Every paid purchase and every refund is backed by a charge of its own, however
\* many attempts and callbacks an account makes.
THEOREM PaymentsAreBacked == Spec => []BackedByCharge
  <1>1. Init => Backed
    <2>1. SUFFICES ASSUME Init PROVE Backed
      OBVIOUS
    <2>2. \A u \in Users : PaidCharges(u) = {} /\ Settled(u) = 0
      BY <2>1 DEF Init, PaidCharges, Settled, Count, NoPurchase
    <2>3. \A k \in Keys : ~Awaited(k)
      BY <2>1 DEF Init, Awaited
    <2>4. QED
      BY <2>2, <2>3, FS_EmptySet DEF Backed
  <1>2. Backed => BackedByCharge
    BY DEF Backed, BackedByCharge, Settled
  <1>3. QED
    BY <1>1, <1>2, NextBacked, Invariance, PTL DEF Spec

-----------------------------------------------------------------------------
(***************************************************************************)
(* The refinement of Admission, step by step, under IInv.                  *)
(***************************************************************************)
Admitted  == {u \in Users : member[u] = "active"}
Withdrawn == {u \in Users : member[u] = "revoked"}

AdmVars == <<Admitted, Withdrawn, total, stage = "failed">>

\* Admission counts with the same operator.
LEMMA SameCardinality == \A S : Adm!Cardinality(S) = Cardinality(S)
  BY DEF Adm!Cardinality, Cardinality

\* Who is or was a member holds a slot, so the members fit the total, and so does a
\* total that covers the slots taken.
LEMMA MembersHoldSlots ==
  ASSUME IInv
  PROVE  /\ Admitted \cup Withdrawn \subseteq Occupied
         /\ Cardinality(Admitted \cup Withdrawn) \in Nat
         /\ Cardinality(Admitted \cup Withdrawn) <= total - available
  <1>1. Admitted \cup Withdrawn \subseteq Occupied
    BY DEF Admitted, Withdrawn, Occupied, IInv, AccessMatchesPayment, RefundsFollowPayments
  <1>2. /\ Cardinality(Admitted \cup Withdrawn) \in Nat
        /\ Cardinality(Admitted \cup Withdrawn) <= Cardinality(Occupied)
    BY <1>1, OccupiedFinite, FS_Subset, FS_CardinalityType
  <1>3. available \in Int /\ total \in Int
    BY TicketingAssumption DEF IInv, TypeOK
  <1>4. QED
    BY <1>1, <1>2, <1>3, OccupiedFinite DEF IInv, SlotsCovered

\* The one step that lets an account in finds a place for it.
LEMMA SettleInTimeAdmits ==
  ASSUME IInv, NEW u \in Users, SettleInTime(u), UNCHANGED eventVars
  PROVE  Adm!Admit(u)
  <1>1. ticket[u] = "held" /\ member[u] = "none"
    BY DEF SettleInTime, MarkPurchasePaid, IssueTicketByPurchase, CreateEventMember,
           Enqueue, IInv, TypeOK, MemberStatus, AccessMatchesPayment, RefundsFollowPayments
  <1>2. u \in Occupied /\ u \notin Admitted \cup Withdrawn
    BY <1>1 DEF Occupied, Admitted, Withdrawn
  <1>3. Cardinality(Admitted \cup Withdrawn) < total
    <2>1. Admitted \cup Withdrawn \subseteq Occupied \ {u}
      BY <1>2, MembersHoldSlots
    <2>2. /\ Cardinality(Admitted \cup Withdrawn) <= Cardinality(Occupied \ {u})
          /\ Cardinality(Occupied \ {u}) = Cardinality(Occupied) - 1
      BY <1>2, <2>1, OccupiedFinite, FS_RemoveElement, FS_Subset
    <2>3. available \in Nat /\ total \in Int
      BY TicketingAssumption DEF IInv, TypeOK
    <2>4. QED
      BY <2>2, <2>3, MembersHoldSlots, OccupiedFinite DEF IInv, SlotsCovered
  <1>4. Admitted' = Admitted \cup {u} /\ Withdrawn' = Withdrawn
    BY <1>1 DEF SettleInTime, MarkPurchasePaid, IssueTicketByPurchase, CreateEventMember,
                Enqueue, Admitted, Withdrawn, IInv, TypeOK
  <1>5. u \notin Adm!Seated /\ Adm!Cardinality(Adm!Seated) < total
    BY <1>2, <1>3, SameCardinality DEF Adm!Seated, Admitted, Withdrawn
  <1>6. UNCHANGED <<total, stage>>
    BY DEF eventVars
  <1>7. QED
    BY <1>4, <1>5, <1>6 DEF Adm!Admit, Admitted, Withdrawn

\* A settled refund withdraws a member, or changes nothing anyone can see.
LEMMA SettleRefundWithdraws ==
  ASSUME IInv, NEW u \in Users, SettleRefund(u)
  PROVE  Adm!Withdraw(u) \/ UNCHANGED AdmVars
  <1>1. UNCHANGED <<total, stage>>
    BY DEF SettleRefund, RevokeEntitlementByPurchase, Enqueue, eventVars
  <1>2. CASE member[u] = "active"
    <2>1. ticket[u] = "issued" /\ stage = "failed"
      BY <1>2 DEF SettleRefund, RevokeEntitlementByPurchase, Enqueue, IInv,
                  AccessMatchesPayment, RefundsFollowPayments
    <2>2. Admitted' = Admitted \ {u} /\ Withdrawn' = Withdrawn \cup {u} /\ u \in Admitted
      BY <1>2, <2>1 DEF SettleRefund, RevokeEntitlementByPurchase, Enqueue, Admitted,
                        Withdrawn, IInv, TypeOK
    <2>3. QED
      BY <1>1, <2>1, <2>2 DEF Adm!Withdraw, Admitted, Withdrawn
  <1>3. CASE member[u] # "active"
    <2>1. member' = member
      BY <1>3 DEF SettleRefund, RevokeEntitlementByPurchase, Enqueue, IInv, TypeOK
    <2>2. QED
      BY <1>1, <2>1 DEF AdmVars, Admitted, Withdrawn
  <1>4. QED
    BY <1>2, <1>3

\* The steps that change neither a membership, nor the total, nor the stage.
LEMMA SameMembers ==
  ASSUME UNCHANGED <<member, total, stage>>
  PROVE  UNCHANGED AdmVars
  BY DEF AdmVars, Admitted, Withdrawn

LEMMA StepAdmission ==
  ASSUME IInv, IInv', [Next]_vars
  PROVE  Adm!Next \/ UNCHANGED AdmVars
  <1> USE DEF eventVars
  <1>1. ASSUME NEW r \in Requests, RequestStepOf(r)
        PROVE  UNCHANGED AdmVars
    BY <1>1, SameMembers
    DEF RequestStepOf, Purchase, CheckEvent, OpenPurchase, ReservationUnread,
        Reserve, ReserveEventTicket, CreatePurchase, CreateTemporaryTicket, Initiated, ResetForRetry,
        ResetPurchaseForRetry, ResetTicketForRetry, TakeSlot, InitiateCharge,
        ReleaseRefused, FailAndRelease, MarkPurchaseFailed, ExpireTicketByPurchase,
        ReleaseEventTicket, SetCheckoutURL, UpdatePurchaseCheckout, Abandon
  <1>2. ASSUME NEW k \in Keys, CallbackStep(k)
        PROVE  Adm!Next \/ UNCHANGED AdmVars
    <2>1. CASE HandlePaid(k) /\ SettleInTime(OwnerOf[k])
      <3>1. OwnerOf[k] \in Users
        BY TicketingAssumption
      <3>2. Adm!Admit(OwnerOf[k])
        BY <2>1, <3>1, SettleInTimeAdmits DEF HandlePaid
      <3>3. QED
        BY <3>1, <3>2 DEF Adm!Next
    <2>2. CASE ~(HandlePaid(k) /\ SettleInTime(OwnerOf[k]))
      BY <1>2, <2>2, SameMembers
      DEF CallbackStep, ReportProcessing, Conclude, HandleProcessing,
          MarkPurchaseProcessing, HandleFailed, FailAndRelease, MarkPurchaseFailed,
          ExpireTicketByPurchase, ReleaseEventTicket, HandlePaid, SettleLate,
          MarkPurchasePaid, SettleNothing, LoseWebhook
    <2>3. QED
      BY <2>1, <2>2
  <1>3. ASSUME NEW u \in Users, UserStep(u)
        PROVE  Adm!Next \/ UNCHANGED AdmVars
    <2>1. CASE SettleRefund(u)
      BY <2>1, SettleRefundWithdraws DEF Adm!Next
    <2>2. CASE ~SettleRefund(u)
      BY <1>3, <2>2, SameMembers
      DEF UserStep, RefundExpiredPurchase, LoseLateRefund, RefundEvent, Lapse
    <2>3. QED
      BY <2>1, <2>2
  <1>4. CASE Sweep
    BY <1>4, SameMembers DEF Sweep, ExpireReservations, ClaimExpiredTicketReservations,
                             ReleaseEventTicket, MarkPurchaseFailedForTicket
  <1>5. ASSUME NEW n \in 1..MaxTickets, UpdateEvent(n)
        PROVE  Adm!Next
    <2>1. n >= Cardinality(Admitted \cup Withdrawn)
      <3>1. total - available \in Int /\ n \in Int /\ n >= total - available
        BY <1>5, TicketingAssumption DEF UpdateEvent, IInv, TypeOK
      <3>2. QED
        BY <3>1, MembersHoldSlots
    <2>2. n >= Adm!Cardinality(Adm!Seated)
      BY <2>1, SameCardinality DEF Adm!Seated, Admitted, Withdrawn
    <2>3. UNCHANGED <<Admitted, Withdrawn, stage>> /\ total' = n
      BY <1>5 DEF UpdateEvent, Admitted, Withdrawn
    <2>4. Adm!Resize(n)
      BY <2>2, <2>3 DEF Adm!Resize, Admitted, Withdrawn
    <2>5. QED
      BY <2>4 DEF Adm!Next
  <1>6. CASE MoveEvent
    <2>1. stage # "failed" /\ UNCHANGED <<member, total>>
      BY <1>6 DEF MoveEvent, IInv, TypeOK, Stages
    <2>2. CASE stage' = "failed"
      BY <2>1, <2>2 DEF Adm!Next, Adm!Fail
    <2>3. CASE stage' # "failed"
      BY <2>1, <2>3 DEF AdmVars, Admitted, Withdrawn
    <2>4. QED
      BY <2>2, <2>3
  <1>7. CASE UNCHANGED vars
    BY <1>7, SameMembers DEF vars
  <1>8. QED
    BY <1>1, <1>2, <1>3, <1>4, <1>5, <1>6, <1>7 DEF Next, HostStep

\* Ticketing implements Admission for every set of accounts, keys and requests:
\* the members fit the capacity, are let in once, and lose their place only after
\* the stream failed.
THEOREM AdmissionImplemented == Spec => ImplementsAdmission
  <1>1. Init => Adm!Init
    BY TicketingAssumption DEF Init, Adm!Init
  <1>2. IInv /\ IInv' /\ [Next]_vars => [Adm!Next]_(Adm!admissionVars)
    BY StepAdmission DEF Adm!admissionVars, AdmVars, Admitted, Withdrawn
  <1>3. QED
    BY <1>1, <1>2, Invariance, PTL DEF Spec, ImplementsAdmission, Adm!Spec

-----------------------------------------------------------------------------
(***************************************************************************)
(* The refinement of Repayment, step by step, under IInv.                  *)
(***************************************************************************)
Paid == {u \in Users : purchase[u].status = "paid"}

RepVars == <<Paid, refund>>

\* Steps after which the same purchases are paid and no refund has moved.
LEMMA SamePayments ==
  ASSUME UNCHANGED refund,
         \A u \in Users : purchase'[u].status = "paid" <=> purchase[u].status = "paid"
  PROVE  UNCHANGED RepVars
  BY DEF RepVars, Paid

\* Who pays had an open purchase, and so neither a payment nor a refund under way.
LEMMA SettlingPays ==
  ASSUME IInv, NEW u \in Users, MarkPurchasePaid(u), UNCHANGED refund
  PROVE  Rep!Pay(u)
  <1>1. purchase[u].status \in Open /\ purchase' = [purchase EXCEPT ![u].status = "paid"]
    BY DEF MarkPurchasePaid
  <1>2. purchase[u].status # "paid" /\ refund[u] # "processing"
    BY <1>1 DEF Open, IInv, RefundsFollowPayments
  <1>3. Paid' = Paid \cup {u}
    <2>1. purchase \in [Users -> PurchaseRow]
      BY DEF IInv, TypeOK
    <2>2. /\ purchase'[u].status = "paid"
          /\ \A w \in Users \ {u} : purchase'[w] = purchase[w]
      BY <1>1, <2>1 DEF PurchaseRow
    <2>3. QED
      BY <2>2 DEF Paid
  <1>4. QED
    BY <1>2, <1>3 DEF Rep!Pay, Paid

\* A refund is opened of a payment the platform still has, or it was opened before.
LEMMA RefundingPromises ==
  ASSUME IInv, NEW u \in Users, CreateRefund(u), UNCHANGED purchase,
         purchase[u].status \in {"paid", "refunded"}
  PROVE  Rep!Promise(u) \/ UNCHANGED RepVars
  <1>1. refund \in [Users -> RefundStatus] /\ Paid' = Paid
    BY DEF IInv, TypeOK, Paid
  <1>2. CASE refund[u] = "none"
    <2>1. purchase[u].status = "paid"
      BY <1>2 DEF IInv, RefundsFollowPayments
    <2>2. refund' = [refund EXCEPT ![u] = "processing"]
      BY <1>2 DEF CreateRefund
    <2>3. QED
      BY <1>1, <1>2, <2>1, <2>2 DEF Rep!Promise, Paid
  <1>3. CASE refund[u] # "none"
    <2>1. refund' = refund
      BY <1>1, <1>3 DEF CreateRefund
    <2>2. QED
      BY <1>1, <2>1 DEF RepVars
  <1>4. QED
    BY <1>2, <1>3

\* A refund that settles returns the payment it was promised for.
LEMMA SettleRefundRepays ==
  ASSUME IInv, NEW u \in Users, SettleRefund(u)
  PROVE  Rep!Repay(u)
  <1>1. /\ refund[u] = "processing" /\ refund' = [refund EXCEPT ![u] = "refunded"]
        /\ purchase' = [purchase EXCEPT ![u].status = IF @ = "paid" THEN "refunded" ELSE @]
    BY DEF SettleRefund, RevokeEntitlementByPurchase, Enqueue
  <1>2. purchase[u].status = "paid"
    BY <1>1 DEF IInv, RefundsFollowPayments
  <1>3. Paid' = Paid \ {u}
    <2>1. purchase \in [Users -> PurchaseRow]
      BY DEF IInv, TypeOK
    <2>2. /\ purchase'[u].status = "refunded"
          /\ \A w \in Users \ {u} : purchase'[w] = purchase[w]
      BY <1>1, <1>2, <2>1 DEF PurchaseRow
    <2>3. QED
      BY <2>2 DEF Paid
  <1>4. QED
    BY <1>1, <1>2, <1>3 DEF Rep!Repay, Paid

\* An open purchase fails, or another row of the account is written.
LEMMA FailingPaysNothing ==
  ASSUME TypeOK, NEW u \in Users, FailAndRelease(u), NEW w \in Users
  PROVE  purchase'[w].status = "paid" <=> purchase[w].status = "paid"
  BY DEF FailAndRelease, MarkPurchaseFailed, ExpireTicketByPurchase, ReleaseEventTicket,
         Open, rowVars, TypeOK, PurchaseRow

\* A Purchase request opens, reopens and fails purchases, and pays none.
LEMMA RequestPaysNothing ==
  ASSUME TypeOK, NEW r \in Requests, RequestStepOf(r)
  PROVE  UNCHANGED RepVars
  <1>b. Buyer(r) \in Users
    BY TicketingAssumption DEF Buyer
  <1>1. CASE Reserve(r) \/ ResetForRetry(r)
    <2>1. CASE UNCHANGED <<eventVars, rowVars>>
      BY <1>1, <2>1, SamePayments DEF Reserve, ResetForRetry, financeVars, rowVars
    <2>2. CASE TakeSlot(Buyer(r), KeyOf[r])
                 /\ purchase[Buyer(r)].status \in {"none", "initiated", "failed", "refunded"}
      <3>1. \A u \in Users : purchase'[u].status = "paid" <=> purchase[u].status = "paid"
        BY <1>b, <2>2 DEF TakeSlot, Initiated, TypeOK
      <3>2. QED
        BY <1>1, <3>1, SamePayments DEF Reserve, ResetForRetry, financeVars
    <2>3. QED
      BY <1>1, <2>1, <2>2, AttemptTakesSlot
  <1>2. CASE ReleaseRefused(r)
    BY <1>b, <1>2, FailingPaysNothing, SamePayments DEF ReleaseRefused, financeVars
  <1>3. CASE SetCheckoutURL(r)
    <2>1. \A u \in Users : purchase'[u].status = purchase[u].status
      BY <1>b, <1>3 DEF SetCheckoutURL, UpdatePurchaseCheckout, TypeOK, PurchaseRow
    <2>2. QED
      BY <1>3, <2>1, SamePayments DEF SetCheckoutURL, financeVars
  <1>4. CASE \/ Purchase(r) \/ CheckEvent(r) \/ OpenPurchase(r) \/ ReservationUnread(r)
             \/ InitiateCharge(r) \/ Abandon(r)
    BY <1>4, SamePayments DEF Purchase, CheckEvent, OpenPurchase, ReservationUnread,
                              InitiateCharge, Abandon, rowVars, financeVars
  <1>5. QED
    BY <1>1, <1>2, <1>3, <1>4 DEF RequestStepOf

\* Of the callbacks, the report of a payment may pay, and no other.
LEMMA CallbackPays ==
  ASSUME IInv, NEW k \in Keys, CallbackStep(k)
  PROVE  Rep!Next \/ UNCHANGED RepVars
  <1>o. OwnerOf[k] \in Users /\ TypeOK
    BY TicketingAssumption DEF IInv
  <1>1. CASE HandlePaid(k)
    <2>1. CASE SettleInTime(OwnerOf[k]) \/ SettleLate(OwnerOf[k])
      <3>1. MarkPurchasePaid(OwnerOf[k]) /\ UNCHANGED refund
        BY <1>1, <2>1 DEF HandlePaid, SettleInTime, SettleLate, financeVars
      <3>2. QED
        BY <1>o, <3>1, SettlingPays DEF Rep!Next
    <2>2. CASE SettleNothing(OwnerOf[k])
      BY <1>1, <2>2, SamePayments DEF HandlePaid, SettleNothing, rowVars, financeVars
    <2>3. QED
      BY <1>1, <2>1, <2>2 DEF HandlePaid
  <1>2. CASE HandleProcessing(k)
    <2>1. \A u \in Users : purchase'[u].status = "paid" <=> purchase[u].status = "paid"
      BY <1>o, <1>2 DEF HandleProcessing, MarkPurchaseProcessing, TypeOK, PurchaseRow
    <2>2. QED
      BY <1>2, <2>1, SamePayments DEF HandleProcessing, financeVars
  <1>3. CASE HandleFailed(k)
    BY <1>o, <1>3, FailingPaysNothing, SamePayments DEF HandleFailed, financeVars
  <1>4. CASE ~(HandlePaid(k) \/ HandleProcessing(k) \/ HandleFailed(k))
    BY <1>4, SamePayments DEF CallbackStep, ReportProcessing, Conclude, LoseWebhook, rowVars,
                              financeVars
  <1>5. QED
    BY <1>1, <1>2, <1>3, <1>4

LEMMA StepRepayment ==
  ASSUME IInv, [Next]_vars
  PROVE  Rep!Next \/ UNCHANGED RepVars
  <1>t. TypeOK
    BY DEF IInv
  <1>1. ASSUME NEW u \in Users, UserStep(u)
        PROVE  Rep!Next \/ UNCHANGED RepVars
    <2>1. CASE SettleRefund(u)
      BY <2>1, SettleRefundRepays DEF Rep!Next
    <2>2. CASE RefundExpiredPurchase(u)
      <3>1. purchase[u].status \in {"paid", "refunded"}
        BY <2>2 DEF RefundExpiredPurchase, IInv, RefundsFollowPayments
      <3>2. QED
        BY <2>2, <3>1, RefundingPromises DEF RefundExpiredPurchase, rowVars, Rep!Next
    <2>3. CASE RefundEvent(u)
      BY <2>3, RefundingPromises DEF RefundEvent, rowVars, Rep!Next
    <2>4. CASE LoseLateRefund(u) \/ Lapse(u)
      BY <2>4, SamePayments DEF LoseLateRefund, Lapse, rowVars, financeVars
    <2>5. QED
      BY <1>1, <2>1, <2>2, <2>3, <2>4 DEF UserStep
  <1>2. CASE Sweep
    <2>1. PICK S \in SUBSET Users : ExpireReservations(S)
      BY <1>2 DEF Sweep
    <2>2. \A u \in Users : purchase'[u].status = "paid" <=> purchase[u].status = "paid"
      BY <1>t, <2>1 DEF ExpireReservations, MarkPurchaseFailedForTicket, Open, TypeOK,
                        PurchaseRow
    <2>3. QED
      BY <2>1, <2>2, SamePayments DEF ExpireReservations, financeVars
  <1>3. CASE HostStep \/ UNCHANGED vars
    BY <1>3, SamePayments DEF HostStep, UpdateEvent, MoveEvent, rowVars, financeVars, vars
  <1>4. QED
    BY <1>t, <1>1, <1>2, <1>3, RequestPaysNothing, CallbackPays DEF Next

\* Ticketing implements Repayment for every set of accounts, keys and requests: a
\* payment is given up only by a refund that was on record, and only one ever is
\* of one account's (MarkPurchasePaid, CreateEventRefund, SettleRefund).
THEOREM RepaymentImplemented == Spec => ImplementsRepayment
  <1>1. Init => Rep!Init
    BY DEF Init, Rep!Init, NoPurchase
  <1>2. IInv /\ [Next]_vars => [Rep!Next]_(Rep!repaymentVars)
    BY StepRepayment DEF Rep!repaymentVars, RepVars, Paid
  <1>3. QED
    BY <1>1, <1>2, Invariance, PTL DEF Spec, ImplementsRepayment, Rep!Spec
=============================================================================
