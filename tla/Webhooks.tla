-------------------------------- MODULE Webhooks --------------------------------
(***************************************************************************)
(* Provider callbacks: internal/webhooks, from the delivery to the marks.  *)
(*                                                                         *)
(* A delivery records the callback, hands it to its domain and marks the   *)
(* row, in three transactions; only the first delivery gets past the       *)
(* record.  The provider repeats a delivery until it is acknowledged, and  *)
(* may repeat it after that or several times at once.                      *)
(***************************************************************************)
EXTENDS Naturals

CONSTANTS
    Events,     \* provider event ids
    Foreign,    \* those of a type no domain handles
    Requests,   \* deliveries that may be in flight
    NoEvent     \* a request that carries none

ASSUME WebhooksAssumption == NoEvent \notin Events /\ Foreign \subseteq Events

VARIABLES
    row,        \* webhook_events, by provider_event_id: which mark it has
    applied,    \* how often the domain committed the callback
    step,       \* where each delivery is
    carries     \* its callback

vars == <<row, applied, step, carries>>

Row == {"none", "received", "processed", "failed"}
Step == {"idle", "record", "handle", "processed", "failed"}

Init ==
    /\ row = [e \in Events |-> "none"]
    /\ applied = [e \in Events |-> 0]
    /\ step = [r \in Requests |-> "idle"]
    /\ carries = [r \in Requests |-> NoEvent]

-----------------------------------------------------------------------------
(***************************************************************************)
(* The queries.                                                            *)
(***************************************************************************)

\* InsertWebhookEvent, ON CONFLICT (provider, provider_event_id) DO NOTHING.
InsertWebhookEvent(e) ==
    /\ row[e] = "none"
    /\ row' = [row EXCEPT ![e] = "received"]

MarkWebhookProcessed(e) == row' = [row EXCEPT ![e] = "processed"]

\* MarkWebhookFailed: only a row not processed.
MarkWebhookFailed(e) == row' = [row EXCEPT ![e] = IF @ = "received" THEN "failed" ELSE @]

-----------------------------------------------------------------------------
Goto(r, next) == step' = [step EXCEPT ![r] = next] /\ UNCHANGED carries

\* The request is answered, or its connection lost.
Return(r) ==
    /\ step' = [step EXCEPT ![r] = "idle"]
    /\ carries' = [carries EXCEPT ![r] = NoEvent]

\* The provider delivers a callback whose signature verifies.
Deliver(r, e) ==
    /\ step[r] = "idle"
    /\ step' = [step EXCEPT ![r] = "record"]
    /\ carries' = [carries EXCEPT ![r] = e]
    /\ UNCHANGED <<row, applied>>

\* Mutation of Record: a callback not processed yet is taken up again.
RecordUnprocessed(r) ==
    LET e == carries[r] IN
    /\ step[r] = "record"
    /\ \/ row[e] # "processed" /\ row' = [row EXCEPT ![e] = "received"] /\ Goto(r, "handle")
       \/ row[e] = "processed" /\ Return(r) /\ UNCHANGED row
    /\ UNCHANGED applied

\* Store Insert; a duplicate is acknowledged whatever became of the callback.
Record(r) ==
    LET e == carries[r] IN
    /\ step[r] = "record"
    /\ \/ InsertWebhookEvent(e) /\ Goto(r, "handle")
       \/ row[e] # "none" /\ Return(r) /\ UNCHANGED row
    /\ UNCHANGED applied

\* The domain's transaction commits.
Handle(r) ==
    LET e == carries[r] IN
    /\ step[r] = "handle"
    /\ e \notin Foreign
    /\ applied' = [applied EXCEPT ![e] = @ + 1]
    /\ Goto(r, "processed")
    /\ UNCHANGED row

\* Mutation of HandleFails: the error is logged and passed over.
HandleFailsSilently(r) ==
    LET e == carries[r] IN
    /\ step[r] = "handle"
    /\ e \notin Foreign
    /\ Goto(r, "processed")
    /\ UNCHANGED <<row, applied>>

\* Handle returns an error, before its transaction commits or after.
HandleFails(r) ==
    LET e == carries[r] IN
    /\ step[r] = "handle"
    /\ e \notin Foreign
    /\ applied' \in {applied, [applied EXCEPT ![e] = @ + 1]}
    /\ Goto(r, "failed")
    /\ UNCHANGED row

\* No domain handles the type.
NobodyHandles(r) ==
    /\ step[r] = "handle"
    /\ carries[r] \in Foreign
    /\ Goto(r, "processed")
    /\ UNCHANGED <<row, applied>>

\* Store MarkProcessed, and the 200.
MarkProcessed(r) ==
    /\ step[r] = "processed"
    /\ MarkWebhookProcessed(carries[r])
    /\ Return(r)
    /\ UNCHANGED applied

\* Store MarkFailed, and an error status.
MarkFailed(r) ==
    /\ step[r] = "failed"
    /\ MarkWebhookFailed(carries[r])
    /\ Return(r)
    /\ UNCHANGED applied

\* The process dies or the database refuses: what was committed stays.
Abort(r) ==
    /\ step[r] # "idle"
    /\ Return(r)
    /\ UNCHANGED <<row, applied>>

-----------------------------------------------------------------------------
Process(r) ==
    \/ Record(r)
    \/ Handle(r) \/ HandleFails(r) \/ NobodyHandles(r)
    \/ MarkProcessed(r) \/ MarkFailed(r)

Next ==
    \E r \in Requests :
        \/ Process(r) \/ Abort(r)
        \/ \E e \in Events : Deliver(r, e)

Spec == Init /\ [][Next]_vars
-----------------------------------------------------------------------------
(***************************************************************************)
(* Properties.                                                             *)
(***************************************************************************)
TypeOK ==
    /\ row \in [Events -> Row]
    /\ applied \in [Events -> Nat]
    /\ step \in [Requests -> Step]
    /\ carries \in [Requests -> Events \cup {NoEvent}]
    /\ \A r \in Requests : step[r] = "idle" <=> carries[r] = NoEvent

\* No callback is applied twice, however often and however concurrently it is
\* delivered, and wherever its deliveries break off.
AppliedOnce == \A e \in Events : applied[e] <= 1

\* A row marked as processed was applied, unless no domain handles its type.
ProcessedWasApplied ==
    \A e \in Events \ Foreign : row[e] = "processed" => applied[e] = 1

\* Behind them: past the record there is one delivery of a callback, and before it
\* has handled it the callback is not applied.
Past(r) == step[r] \in {"handle", "processed", "failed"}

OneDelivery ==
    /\ \A q, r \in Requests :
          Past(q) /\ Past(r) /\ carries[q] = carries[r] => q = r
    /\ \A e \in Events : row[e] = "none" => applied[e] = 0
    /\ \A r \in Requests :
          /\ Past(r) => row[carries[r]] = "received"
          /\ step[r] = "handle" => applied[carries[r]] = 0
          /\ step[r] = "processed" /\ carries[r] \notin Foreign => applied[carries[r]] = 1

\* The inductive invariant of WebhooksProofs.
IInv == TypeOK /\ AppliedOnce /\ ProcessedWasApplied /\ OneDelivery

\* The callback is with a delivery that may still apply it.
InHand(e) == \E r \in Requests : step[r] = "handle" /\ carries[r] = e

\* The fate of each callback that Ticketing sees: pending in its inbox, applied, or
\* lost, once and for all.
Fate ==
    [e \in Events |->
        IF applied[e] > 0 THEN "applied"
        ELSE IF row[e] = "none" \/ InHand(e) THEN "pending"
        ELSE "dropped"]

Promise == INSTANCE Inbox WITH fate <- Fate

\* Recording before handling implements the at-most-once promise of Inbox.
ImplementsInbox == Promise!Spec
=============================================================================
