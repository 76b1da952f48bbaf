------------------------------ MODULE Streaming ------------------------------
(***************************************************************************)
(* internal/streaming: the live stream of one event and its viewers.       *)
(*                                                                         *)
(* The owner's requests to start, end and fail the stream and a viewer's   *)
(* request to join read the database several times and write in a          *)
(* transaction at the end, with provider calls between; each is a step.    *)
(* What ticketing and finance do to the memberships, and what events does  *)
(* to the status, is taken from those modules.                             *)
(***************************************************************************)
EXTENDS Integers

CONSTANTS
    Users,      \* accounts that may hold a ticket
    Requests,   \* HTTP requests that may be in flight
    NoUser,     \* a request that is not of a viewer
    Duration,   \* events.duration_seconds
    MaxTime     \* bound on the clock

ASSUME StreamingAssumption ==
    /\ NoUser \notin Users
    /\ Duration \in Nat \ {0}
    /\ MaxTime \in Nat

VARIABLES
    event,      \* events.status
    stream,     \* the event_streams row
    member,     \* event_members, one row per account
    joined,     \* accounts with an event_stream_members row
    room,       \* external: whether the provider has the room
    token,      \* external: accounts that hold a viewer token
    clock,      \* time.Now
    request,    \* where each request is
    settled     \* what the streams that are over set off in finance

rows == <<event, stream, member, joined>>
provider == <<room, token>>
vars == <<event, stream, member, joined, room, token, clock, request, settled>>

EventStatus == {"upcoming", "live", "ended", "cancelled"}
MemberStatus == {"none", "active", "revoked"}
Time == 0..MaxTime

\* started is started_at; finished is finished_at, and failed_at of a failed stream.
StreamRow == [status : {"none", "live", "ended", "failed"}, started : Time, finished : Time]
NoStream == [status |-> "none", started |-> 0, finished |-> 0]
Over == {"ended", "failed"}

Step == {"idle", "room", "start", "end", "fail", "accrue", "refund",
         "member", "stream", "token", "record"}
RequestState == [at : Step, user : Users \cup {NoUser}, stamp : Time]
Idle == [at |-> "idle", user |-> NoUser, stamp |-> 0]

Init ==
    /\ event = "upcoming"
    /\ stream = NoStream
    /\ member = [u \in Users |-> "none"]
    /\ joined = {}
    /\ room = FALSE
    /\ token = {}
    /\ clock = 0
    /\ request = [r \in Requests |-> Idle]
    /\ settled = {}

Goto(r, step) == request' = [request EXCEPT ![r].at = step]
GotoAt(r, step) == request' = [request EXCEPT ![r].at = step, ![r].stamp = clock]

Return(r) == request' = [request EXCEPT ![r] = Idle]

-----------------------------------------------------------------------------
(***************************************************************************)
(* The queries.                                                            *)
(***************************************************************************)

\* Mutation of MarkEventLive: the status is not compared.
MarkEventLiveUnguarded == event' = "live"

\* MarkEventLive, guarded on upcoming.
MarkEventLive == event = "upcoming" /\ event' = "live"

\* CreateEventStream, unique on the event.
CreateEventStream(t) ==
    /\ stream.status = "none"
    /\ stream' = [status |-> "live", started |-> t, finished |-> 0]

\* RecordStreamEnd, guarded on live.
RecordStreamEnd(t) ==
    /\ stream.status = "live"
    /\ stream' = [stream EXCEPT !.status = "ended", !.finished = t]

\* RecordStreamFailure, guarded on live.
RecordStreamFailure(t) ==
    /\ stream.status = "live"
    /\ stream' = [stream EXCEPT !.status = "failed", !.finished = t]

\* Mutation of MarkEventEnded: guarded on the wrong status.
MarkEventEndedUpcoming == event' = IF event = "upcoming" THEN "ended" ELSE event

\* MarkEventEnded, guarded on live; no row is no error.
MarkEventEnded == event' = IF event = "live" THEN "ended" ELSE event

\* Mutation of GetActiveMember: any membership row will do, or none.
GetActiveMemberUnchecked(u) == u \in Users

\* GetActiveMember.
GetActiveMember(u) == member[u] = "active"

\* RecordStreamMemberJoin: one row per member, joined again after leaving.
RecordStreamMemberJoin(u) == joined' = joined \cup {u}

-----------------------------------------------------------------------------
(***************************************************************************)
(* Service Start.                                                          *)
(***************************************************************************)
CheckStart(r) ==
    /\ request[r] = Idle
    /\ event = "upcoming"
    /\ Goto(r, "room")
    /\ UNCHANGED <<rows, provider, clock, settled>>

\* provider.CreateRoom, by a name derived from the event; now() is read next.
CreateRoom(r) ==
    /\ request[r].at = "room"
    /\ room' = TRUE
    /\ GotoAt(r, "start")
    /\ UNCHANGED <<rows, token, clock, settled>>

\* Store Start: the event goes live and the stream opens, in one transaction that
\* is rolled back when either is refused.
Start(r) ==
    /\ request[r].at = "start"
    /\ \/ MarkEventLive /\ CreateEventStream(request[r].stamp)
       \/ (event # "upcoming" \/ stream.status # "none") /\ UNCHANGED <<event, stream>>
    /\ Return(r)
    /\ UNCHANGED <<member, joined, provider, clock, settled>>

-----------------------------------------------------------------------------
(***************************************************************************)
(* Service End and Fail.                                                   *)
(***************************************************************************)
CheckEnd(r) ==
    /\ request[r] = Idle
    /\ event = "live"
    /\ GotoAt(r, "end")
    /\ UNCHANGED <<rows, provider, clock, settled>>

\* Store End: the stream and the event end in one transaction.
End(r) ==
    /\ request[r].at = "end"
    /\ \/ RecordStreamEnd(request[r].stamp) /\ MarkEventEnded /\ Goto(r, "accrue")
       \/ stream.status # "live" /\ UNCHANGED <<event, stream>> /\ Return(r)
    /\ UNCHANGED <<member, joined, provider, clock, settled>>

\* settlements.AccruePayout; its error is only logged.
AccruePayout(r) ==
    /\ request[r].at = "accrue"
    /\ settled' = settled \cup {<<"payout", r>>}
    /\ Return(r)
    /\ UNCHANGED <<rows, provider, clock>>

CheckFail(r) ==
    /\ request[r] = Idle
    /\ event = "live"
    /\ GotoAt(r, "fail")
    /\ UNCHANGED <<rows, provider, clock, settled>>

\* Mutation of Early: the comparison includes the quarter itself.
EarlyInclusive(t) == 4 * (t - stream.started) <= Duration

\* A failure in the first quarter of the scheduled duration.
Early(t) == 4 * (t - stream.started) < Duration

\* Store Fail, and what the answer decides: automatic refunds or admin review.
Fail(r) ==
    /\ request[r].at = "fail"
    /\ \/ /\ RecordStreamFailure(request[r].stamp)
          /\ MarkEventEnded
          /\ IF Early(request[r].stamp) THEN Goto(r, "refund") ELSE Return(r)
       \/ stream.status # "live" /\ UNCHANGED <<event, stream>> /\ Return(r)
    /\ UNCHANGED <<member, joined, provider, clock, settled>>

\* settlements.RefundEvent, automatic.
RefundEvent(r) ==
    /\ request[r].at = "refund"
    /\ settled' = settled \cup {<<"refund", r>>}
    /\ Return(r)
    /\ UNCHANGED <<rows, provider, clock>>

-----------------------------------------------------------------------------
(***************************************************************************)
(* Service Join.                                                           *)
(***************************************************************************)
CheckJoin(r, u) ==
    /\ request[r] = Idle
    /\ event = "live"
    /\ request' = [request EXCEPT ![r] = [Idle EXCEPT !.at = "member", !.user = u]]
    /\ UNCHANGED <<rows, provider, clock, settled>>

ActiveMember(r) ==
    /\ request[r].at = "member"
    /\ IF GetActiveMember(request[r].user) THEN Goto(r, "stream") ELSE Return(r)
    /\ UNCHANGED <<rows, provider, clock, settled>>

\* Mutation of LiveStream: any stream row is joined.
LiveStreamAny(r) ==
    /\ request[r].at = "stream"
    /\ Goto(r, "token")
    /\ UNCHANGED <<rows, provider, clock, settled>>

LiveStream(r) ==
    /\ request[r].at = "stream"
    /\ IF stream.status = "live" THEN Goto(r, "token") ELSE Return(r)
    /\ UNCHANGED <<rows, provider, clock, settled>>

\* provider.ViewerToken, for the room of the stream and the account.
ViewerToken(r) ==
    /\ request[r].at = "token"
    /\ Goto(r, "record")
    /\ UNCHANGED <<rows, provider, clock, settled>>

\* Store RecordJoin; only then is the token handed out.
RecordJoin(r) ==
    /\ request[r].at = "record"
    /\ RecordStreamMemberJoin(request[r].user)
    /\ token' = token \cup {request[r].user}
    /\ Return(r)
    /\ UNCHANGED <<event, stream, member, room, clock, settled>>

\* An error, a client that went away, or the process dies.
Abandon(r) ==
    /\ request[r] # Idle
    /\ Return(r)
    /\ UNCHANGED <<rows, provider, clock, settled>>

-----------------------------------------------------------------------------
(***************************************************************************)
(* The other components, the provider and time.                            *)
(***************************************************************************)

\* Events: the host cancels.
CancelEvent ==
    /\ event = "upcoming"
    /\ event' = "cancelled"
    /\ UNCHANGED <<stream, member, joined, provider, clock, request, settled>>

\* Ticketing: a payment settles, whatever the event's status is by then.
CreateMember(u) ==
    /\ member[u] = "none"
    /\ member' = [member EXCEPT ![u] = "active"]
    /\ UNCHANGED <<event, stream, joined, provider, clock, request, settled>>

\* Finance: the refund of a member settles, which it does only of a failed stream.
RevokeMember(u) ==
    /\ member[u] = "active"
    /\ stream.status = "failed"
    /\ member' = [member EXCEPT ![u] = "revoked"]
    /\ UNCHANGED <<event, stream, joined, provider, clock, request, settled>>

\* A viewer token lapses at the provider.
TokenExpires(u) ==
    /\ u \in token
    /\ token' = token \ {u}
    /\ UNCHANGED <<rows, room, clock, request, settled>>

Tick ==
    /\ clock < MaxTime
    /\ clock' = clock + 1
    /\ UNCHANGED <<rows, provider, request, settled>>

HostStep(r) ==
    \/ CheckStart(r) \/ CreateRoom(r) \/ Start(r)
    \/ CheckEnd(r) \/ End(r) \/ AccruePayout(r)
    \/ CheckFail(r) \/ Fail(r) \/ RefundEvent(r)

ViewerStep(r) ==
    \/ \E u \in Users : CheckJoin(r, u)
    \/ ActiveMember(r) \/ LiveStream(r) \/ ViewerToken(r) \/ RecordJoin(r)

MemberStep(u) == CreateMember(u) \/ RevokeMember(u) \/ TokenExpires(u)

Next ==
    \/ \E r \in Requests : HostStep(r) \/ ViewerStep(r) \/ Abandon(r)
    \/ \E u \in Users : MemberStep(u)
    \/ CancelEvent
    \/ Tick

Spec == Init /\ [][Next]_vars
-----------------------------------------------------------------------------
(***************************************************************************)
(* Properties.                                                             *)
(***************************************************************************)
TypeOK ==
    /\ event \in EventStatus
    /\ stream \in StreamRow
    /\ member \in [Users -> MemberStatus]
    /\ joined \in SUBSET Users
    /\ room \in BOOLEAN
    /\ token \in SUBSET Users
    /\ clock \in Time
    /\ request \in [Requests -> RequestState]
    /\ settled \in SUBSET ({"payout", "refund"} \X Requests)
    /\ \A r \in Requests : request[r].at = "idle" => request[r] = Idle

\* The event and its stream tell the same story, however starts, ends, failures
\* and a cancellation race: live together, over together, nothing streamed of an
\* event never started, and no stream without its room (Start, End, Fail).
StreamMatchesEvent ==
    /\ event = "live" <=> stream.status = "live"
    /\ event = "ended" <=> stream.status \in Over
    /\ stream.status # "none" => room
    /\ joined # {} => stream.status # "none"

\* Whom a join request has found to be a member, from there to the log.
Admitted(r) == request[r].at \in {"stream", "token", "record"}

\* Who is let in or about to be holds an active membership, or lost it to the
\* refund of a failed stream while the request ran: Join reads the event, the
\* membership and the stream one after the other and acts on all three later.
ViewersAreMembers ==
    \A u \in Users :
        /\ (\E r \in Requests : Admitted(r) /\ request[r].user = u)
              => member[u] = "active" \/ stream.status = "failed"
        /\ u \in token => member[u] = "active" \/ stream.status = "failed"
        /\ u \in joined => member[u] # "none"

\* What finance is asked to do follows from how the stream ended, and is asked
\* once: the payout only of a stream that ended, the automatic refunds only of
\* one that failed within the first quarter (End, Fail).
SettlementFollowsOutcome ==
    /\ \A r \in Requests :
          /\ request[r].at = "accrue" \/ <<"payout", r>> \in settled => stream.status = "ended"
          /\ request[r].at = "refund" \/ <<"refund", r>> \in settled =>
                /\ stream.status = "failed"
                /\ 4 * (stream.finished - stream.started) < Duration
    /\ \A r, q \in Requests :
          LET settles(p) == request[p].at \in {"accrue", "refund"}
                            \/ <<"payout", p>> \in settled \/ <<"refund", p>> \in settled
          IN  settles(r) /\ settles(q) => r = q

\* The outcome of an event is final, and no viewer gets past the checks of Join
\* once the stream is over: only requests that had their last check behind them go
\* on.  A start that read the event before it was cancelled does not revive it
\* (MarkEventLive, LiveStream, RecordStreamEnd, RecordStreamFailure).
NothingAfterTheEnd ==
    [][/\ event \in {"cancelled", "ended"} => event' = event
       /\ stream.status \in Over =>
             /\ stream' = stream
             /\ \A r \in Requests :
                   request'[r].at \in {"token", "record"} =>
                       request[r].at \in {"token", "record"}]_vars
=============================================================================
