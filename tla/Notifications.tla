----------------------------- MODULE Notifications -----------------------------
(***************************************************************************)
(* The email queue, internal/notifications, and the workers that drain it, *)
(* cmd/worker.                                                             *)
(*                                                                         *)
(* A producer writes a row in the transaction of its own state change, and *)
(* PostgreSQL notifies the connected workers when that commits.  A worker  *)
(* claims a batch with a lease of ten minutes, sends each email, then      *)
(* records the outcome; it may die, or outlive its lease, at any point.    *)
(***************************************************************************)
EXTENDS FiniteSets, Integers

CONSTANTS
    Emails,      \* idempotency keys; email_notifications has one row for each
    Workers,     \* cmd/worker processes
    NoEmail,     \* a worker that is not sending
    BatchSize,   \* the limit of a claim
    MaxCrashes   \* bound: how often a worker dies in the middle of a batch

ASSUME NotificationsAssumption ==
    /\ NoEmail \notin Emails
    /\ BatchSize \in Nat \ {0}
    /\ MaxCrashes \in Nat

VARIABLES
    status,     \* email_notifications.status; "none" before the row exists
    lease,      \* locked_at: NULL, less than ten minutes old, or older
    due,        \* emails with next_attempt_at <= now()
    batch,      \* what each worker claimed and has not finished
    overdue,    \* the claims of batch that are older than ten minutes
    sending,    \* the email each worker has just handed to the sender
    outcome,    \* what the sender answered to each worker
    sent,       \* external: emails that reached their recipient
    listening,  \* workers whose LISTEN connection is up
    awake,      \* workers whose wake channel is full
    crashes

rows == <<status, lease, due>>
work == <<batch, overdue, sending, outcome>>
signals == <<listening, awake>>
queueVars == <<status, lease, due, batch, overdue, sending, outcome, sent,
               listening, awake, crashes>>

Status == {"none", "queued", "processing", "delivered", "failed"}
Lease == {"free", "held", "stale"}
Outcome == {"sent", "refused"}

QueueInit ==
    /\ status = [e \in Emails |-> "none"]
    /\ lease = [e \in Emails |-> "free"]
    /\ due = Emails
    /\ batch = [w \in Workers |-> {}]
    /\ overdue = {}
    /\ sending = [w \in Workers |-> NoEmail]
    /\ outcome = [w \in Workers |-> "refused"]
    /\ sent = {}
    /\ listening = {}
    /\ awake = {}
    /\ crashes = 0

-----------------------------------------------------------------------------
(***************************************************************************)
(* The queries.                                                            *)
(***************************************************************************)

\* CreateEmailNotification, ON CONFLICT (idempotency_key) DO NOTHING.
CreateEmailNotification(e) ==
    /\ status[e] = "none"
    /\ status' = [status EXCEPT ![e] = "queued"]

\* Mutation of Claimable: the lease is not looked at.
ClaimableLeased(e) == status[e] \in {"queued", "processing"} /\ e \in due

\* Mutation of Claimable: only rows nobody claimed before.
ClaimableQueued(e) == status[e] = "queued" /\ e \in due /\ lease[e] # "held"

\* The rows ClaimPendingEmailNotifications selects from.
Claimable(e) ==
    /\ status[e] \in {"queued", "processing"}
    /\ e \in due
    /\ lease[e] # "held"

\* ClaimPendingEmailNotifications: some claimable rows, up to the limit and without
\* those another transaction has locked.
ClaimPendingEmailNotifications(S) ==
    /\ \A e \in S : Claimable(e)
    /\ Cardinality(S) <= BatchSize
    /\ status' = [e \in Emails |-> IF e \in S THEN "processing" ELSE status[e]]
    /\ lease' = [e \in Emails |-> IF e \in S THEN "held" ELSE lease[e]]

\* MarkEmailNotificationDelivered: only a row still in processing.
MarkEmailNotificationDelivered(e) ==
    IF status[e] = "processing"
    THEN /\ status' = [status EXCEPT ![e] = "delivered"]
         /\ lease' = [lease EXCEPT ![e] = "free"]
    ELSE UNCHANGED <<status, lease>>

\* Mutation of MarkEmailNotificationFailed: whatever the row has become.
MarkEmailFailedAnyStatus(e) ==
    /\ status' = [status EXCEPT ![e] = "failed"]
    /\ lease' = [lease EXCEPT ![e] = "free"]
    /\ due' = due \ {e}

\* MarkEmailNotificationFailed: only a row still in processing, with the backoff of
\* the next attempt.
MarkEmailNotificationFailed(e) ==
    IF status[e] = "processing"
    THEN /\ status' = [status EXCEPT ![e] = "failed"]
         /\ lease' = [lease EXCEPT ![e] = "free"]
         /\ due' = due \ {e}
    ELSE UNCHANGED rows

-----------------------------------------------------------------------------
(***************************************************************************)
(* The producer.                                                           *)
(***************************************************************************)

\* Queue.Enqueue, as its transaction commits: a key already used changes nothing,
\* a new row wakes the workers that listen.
Enqueue(e) ==
    /\ CreateEmailNotification(e)
    /\ awake' = awake \cup listening
    /\ UNCHANGED <<lease, due, work, sent, listening, crashes>>

-----------------------------------------------------------------------------
(***************************************************************************)
(* The worker: its loop, its listener and DeliverPending.                  *)
(***************************************************************************)

\* Service.DeliverPending, its claim: the worker leases a batch.
Claim(w, S) ==
    /\ batch[w] = {}
    /\ S # {}
    /\ ClaimPendingEmailNotifications(S)
    /\ batch' = [batch EXCEPT ![w] = S]
    /\ UNCHANGED <<due, overdue, sending, outcome, sent, listening, crashes>>

\* The ticker fires.
Ticker(w, S) == Claim(w, S) /\ UNCHANGED awake

\* The worker takes the signal off its wake channel.
Wake(w, S) == w \in awake /\ Claim(w, S) /\ awake' = awake \ {w}

\* A wake that finds nothing to claim.
WakeIdle(w) ==
    /\ w \in awake
    /\ batch[w] = {}
    /\ awake' = awake \ {w}
    /\ UNCHANGED <<rows, work, sent, listening, crashes>>

\* listen: LISTEN succeeds, and the connection drops again.
Listen(w) ==
    /\ w \notin listening
    /\ listening' = listening \cup {w}
    /\ UNCHANGED <<rows, work, sent, awake, crashes>>

Disconnect(w) ==
    /\ w \in listening
    /\ listening' = listening \ {w}
    /\ UNCHANGED <<rows, work, sent, awake, crashes>>

\* Sender.Send: an error may be the loss of the answer to an accepted email.
Send(w, e) ==
    /\ e \in batch[w]
    /\ sending[w] = NoEmail
    /\ sending' = [sending EXCEPT ![w] = e]
    /\ \/ outcome' = [outcome EXCEPT ![w] = "sent"] /\ sent' = sent \cup {e}
       \/ outcome' = [outcome EXCEPT ![w] = "refused"] /\ sent' \in {sent, sent \cup {e}}
    /\ UNCHANGED <<rows, batch, overdue, signals, crashes>>

\* The worker is done with the email it sent.
Finish(w) ==
    LET e == sending[w] IN
    /\ batch' = [batch EXCEPT ![w] = @ \ {e}]
    /\ overdue' = overdue \ {<<w, e>>}
    /\ sending' = [sending EXCEPT ![w] = NoEmail]

\* Mutation of MarkDelivered: the sender's error is not looked at.
MarkDeliveredUnchecked(w) ==
    /\ sending[w] # NoEmail
    /\ MarkEmailNotificationDelivered(sending[w])
    /\ Finish(w)
    /\ UNCHANGED <<due, outcome, sent, signals, crashes>>

\* Store MarkDelivered.
MarkDelivered(w) ==
    /\ sending[w] # NoEmail
    /\ outcome[w] = "sent"
    /\ MarkEmailNotificationDelivered(sending[w])
    /\ Finish(w)
    /\ UNCHANGED <<due, outcome, sent, signals, crashes>>

\* Store MarkFailed.
MarkFailed(w) ==
    /\ sending[w] # NoEmail
    /\ outcome[w] = "refused"
    /\ MarkEmailNotificationFailed(sending[w])
    /\ Finish(w)
    /\ UNCHANGED <<outcome, sent, signals, crashes>>

\* The worker dies and starts again, or gives its batch up because the database
\* refused to record an outcome.
Crash(w) ==
    /\ crashes < MaxCrashes
    /\ batch[w] # {}
    /\ crashes' = crashes + 1
    /\ batch' = [batch EXCEPT ![w] = {}]
    /\ overdue' = {c \in overdue : c[1] # w}
    /\ sending' = [sending EXCEPT ![w] = NoEmail]
    /\ listening' = listening \ {w}
    /\ awake' = awake \ {w}
    /\ UNCHANGED <<rows, outcome, sent>>

-----------------------------------------------------------------------------
(***************************************************************************)
(* Time.                                                                   *)
(***************************************************************************)

\* Ten minutes pass since the row was locked.
LeaseExpires(e) ==
    /\ lease[e] = "held"
    /\ lease' = [lease EXCEPT ![e] = "stale"]
    /\ overdue' = overdue \cup {<<w, e>> : w \in {v \in Workers : e \in batch[v]}}
    /\ UNCHANGED <<status, due, batch, sending, outcome, sent, signals, crashes>>

\* next_attempt_at passes.
BackoffEnds(e) ==
    /\ e \notin due
    /\ due' = due \cup {e}
    /\ UNCHANGED <<status, lease, work, sent, signals, crashes>>

-----------------------------------------------------------------------------
DeliveryStep(w) ==
    \/ \E S \in SUBSET Emails : Ticker(w, S) \/ Wake(w, S)
    \/ WakeIdle(w) \/ Listen(w) \/ Disconnect(w)
    \/ \E e \in Emails : Send(w, e)
    \/ MarkDelivered(w) \/ MarkFailed(w)
    \/ Crash(w)

QueueNext ==
    \/ \E w \in Workers : DeliveryStep(w)
    \/ \E e \in Emails : Enqueue(e) \/ LeaseExpires(e) \/ BackoffEnds(e)

QueueSpec == QueueInit /\ [][QueueNext]_queueVars

\* A worker that runs goes on: its ticker fires, the oldest claimable email is in
\* some batch in the end, and a batch is worked off.  Time passes.  No signal is
\* ever needed, and no send need succeed.
FairQueueSpec ==
    /\ QueueSpec
    /\ \A e \in Emails :
          /\ WF_queueVars(\E w \in Workers, S \in SUBSET Emails : e \in S /\ Ticker(w, S))
          /\ WF_queueVars(LeaseExpires(e))
          /\ WF_queueVars(BackoffEnds(e))
    /\ \A w \in Workers :
          /\ WF_queueVars(\E e \in Emails : Send(w, e))
          /\ WF_queueVars(MarkDelivered(w) \/ MarkFailed(w))
-----------------------------------------------------------------------------
(***************************************************************************)
(* Properties.                                                             *)
(***************************************************************************)
QueueTypeOK ==
    /\ status \in [Emails -> Status]
    /\ lease \in [Emails -> Lease]
    /\ due \in SUBSET Emails
    /\ batch \in [Workers -> SUBSET Emails]
    /\ overdue \in SUBSET (Workers \X Emails)
    /\ \A claim \in overdue : claim[2] \in batch[claim[1]]
    /\ sending \in [Workers -> Emails \cup {NoEmail}]
    /\ \A w \in Workers : sending[w] \in batch[w] \cup {NoEmail}
    /\ outcome \in [Workers -> Outcome]
    /\ sent \in SUBSET Emails
    /\ listening \in SUBSET Workers
    /\ awake \in SUBSET Workers
    /\ crashes \in 0..MaxCrashes

\* A worker holds a claim of e that is not yet ten minutes old.
Holds(w, e) == e \in batch[w] /\ <<w, e>> \notin overdue

\* Two workers have the same email in hand only when the lease of one of them has
\* run out: no two live claims overlap, whatever is claimed, marked late by a
\* worker that outlived its lease, or reclaimed after a crash.
LeaseExclusive ==
    \A v, w \in Workers, e \in Emails : Holds(v, e) /\ Holds(w, e) => v = w

\* What the queue records as delivered did reach its recipient, although the mark
\* may come from another worker than the one whose claim is current.
DeliveredWasSent == \A e \in Emails : status[e] = "delivered" => e \in sent

\* Behind the claims: what a live claim says of the row.
ClaimsMatchRows ==
    \A w \in Workers, e \in Emails :
        /\ e \in batch[w] => status[e] \in {"processing", "delivered", "failed"}
        /\ Holds(w, e) /\ status[e] = "processing" => lease[e] = "held"

\* Behind the marks: what a worker that has sent knows.
SendersKnow ==
    \A w \in Workers :
        sending[w] # NoEmail /\ outcome[w] = "sent" => sending[w] \in sent

\* The inductive invariant of PlatformProofs.
QueueInv ==
    /\ QueueTypeOK
    /\ LeaseExclusive
    /\ DeliveredWasSent
    /\ ClaimsMatchRows
    /\ SendersKnow

\* An email recorded as delivered stays so and is not claimed again: the late mark
\* of another worker and a repeated Enqueue leave it alone.
DeliveredIsFinal ==
    [][\A e \in Emails :
          status[e] = "delivered" =>
              /\ status'[e] = "delivered"
              /\ \A w \in Workers : e \in batch'[w] => e \in batch[w]]_queueVars

\* Every queued email is tried to an outcome, though workers crash, leases run out
\* and notifications are lost: the ticker drains what no signal announced.
QueuedEmailIsTried ==
    \A e \in Emails : status[e] = "queued" ~> status[e] \in {"delivered", "failed"}
=============================================================================
