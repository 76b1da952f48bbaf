---------------------------- MODULE StreamingProofs ----------------------------
(***************************************************************************)
(* The invariants of Streaming, for any number of viewers and requests,    *)
(* any duration and any clock.                                             *)
(*                                                                         *)
(* IInv adds to them what a request in flight carries from one step to the *)
(* next: a start its room, a join the viewer it was let in for, and a      *)
(* viewer past the last check a stream.                                    *)
(***************************************************************************)
EXTENDS Streaming, TLAPS

USE StreamingAssumption DEF StreamingAssumption

\* The transaction of a start runs with the room at hand.
RoomBeforeStart == \A r \in Requests : request[r].at = "start" => room

\* A join request carries its viewer.
ViewerNamed ==
    \A r \in Requests : request[r].at = "member" \/ Admitted(r) => request[r].user \in Users

\* A membership that is active, or was until the failed stream was refunded.
Held(u) == member[u] = "active" \/ (member[u] = "revoked" /\ stream.status = "failed")

ViewersHold ==
    /\ \A r \in Requests : Admitted(r) => Held(request[r].user)
    /\ \A u \in token \cup joined : Held(u)

\* The last check of a join found a stream.
StreamFound ==
    /\ \A r \in Requests : request[r].at \in {"token", "record"} => stream.status # "none"
    /\ joined # {} => stream.status # "none"

\* A request that settles a stream.
Settles(r) ==
    \/ request[r].at \in {"accrue", "refund"}
    \/ <<"payout", r>> \in settled
    \/ <<"refund", r>> \in settled

\* What a settlement asks for fits the outcome of the stream.
OutcomeFits ==
    \A r \in Requests :
        /\ request[r].at = "accrue" \/ <<"payout", r>> \in settled => stream.status = "ended"
        /\ request[r].at = "refund" \/ <<"refund", r>> \in settled =>
              /\ stream.status = "failed"
              /\ 4 * (stream.finished - stream.started) < Duration

SettlesOnce == \A r, q \in Requests : Settles(r) /\ Settles(q) => r = q

EventFollows ==
    /\ event = "live" <=> stream.status = "live"
    /\ event = "ended" <=> stream.status \in Over
    /\ stream.status # "none" => room

IInv ==
    /\ TypeOK
    /\ EventFollows
    /\ RoomBeforeStart
    /\ ViewerNamed
    /\ ViewersHold
    /\ StreamFound
    /\ OutcomeFits
    /\ SettlesOnce

-----------------------------------------------------------------------------
\* No stream, no viewer and no request to begin with.
LEMMA InitInvariant == Init => IInv
<1> SUFFICES ASSUME Init PROVE IInv
  OBVIOUS
<1> USE DEF Init
<1>1. TypeOK
  <2>1. 0 \in Time
    BY DEF Time
  <2>2. Idle \in RequestState
    BY <2>1 DEF Idle, RequestState, Step
  <2>3. stream \in StreamRow
    BY <2>1 DEF StreamRow, NoStream
  <2> QED BY <2>1, <2>2, <2>3 DEF TypeOK, EventStatus, MemberStatus
<1>2. EventFollows
  BY DEF EventFollows, NoStream, Over
<1>3. RoomBeforeStart /\ ViewerNamed /\ ViewersHold /\ StreamFound
  BY DEF RoomBeforeStart, ViewerNamed, ViewersHold, StreamFound, Admitted, Idle
<1>4. OutcomeFits /\ SettlesOnce
  BY DEF OutcomeFits, SettlesOnce, Settles, Idle
<1> QED BY <1>1, <1>2, <1>3, <1>4 DEF IInv

\* A request at such a step settles, or is past the check of the membership, or past
\* the last one.
SettlingSteps == {"accrue", "refund"}
AdmittedSteps == {"stream", "token", "record"}

\* A step that moves one request and at most opens the room keeps the invariant when
\* the request's new place is in order: most steps are of this kind.
LEMMA QuietStep ==
    ASSUME IInv, NEW r \in Requests, NEW q \in RequestState,
           request' = [request EXCEPT ![r] = q],
           UNCHANGED <<rows, token, clock, settled>>,
           room' \in {room, TRUE},
           q.at = "idle" => q = Idle,
           q.at = "start" => room',
           q.at \in AdmittedSteps \cup {"member"} => q.user \in Users,
           q.at \in AdmittedSteps => Held(q.user),
           q.at \in {"token", "record"} => stream.status # "none",
           q.at \notin SettlingSteps
    PROVE  IInv'
<1> USE DEF IInv
<1>1. /\ \A v \in Requests \ {r} : request'[v] = request[v]
      /\ request'[r] = q
      /\ room => room'
  BY DEF TypeOK
<1>2. UNCHANGED <<event, stream, member, joined, token, clock, settled>>
  BY DEF rows
<1>3. TypeOK'
  BY <1>1, <1>2 DEF TypeOK
<1>4. EventFollows' /\ RoomBeforeStart' /\ StreamFound'
  BY <1>1, <1>2 DEF EventFollows, RoomBeforeStart, StreamFound
<1>5. ViewerNamed'
  BY <1>1 DEF ViewerNamed, Admitted, AdmittedSteps
<1>6. ViewersHold'
  BY <1>1, <1>2 DEF ViewersHold, Admitted, AdmittedSteps, Held
<1>7. OutcomeFits' /\ SettlesOnce'
  BY <1>1, <1>2 DEF OutcomeFits, SettlesOnce, Settles, SettlingSteps
<1> QED BY <1>3, <1>4, <1>5, <1>6, <1>7

\* The row of a request, with some fields replaced.
LEMMA RequestFields ==
    ASSUME TypeOK, NEW r \in Requests
    PROVE  /\ request[r] \in RequestState
           /\ Idle \in RequestState
           /\ \A step \in Step :
                 /\ [request[r] EXCEPT !.at = step] \in RequestState
                 /\ [request[r] EXCEPT !.at = step, !.stamp = clock] \in RequestState
           /\ \A u \in Users : [Idle EXCEPT !.at = "member", !.user = u] \in RequestState
<1>1. request[r] \in RequestState /\ clock \in Time
  BY DEF TypeOK
<1>2. Idle \in RequestState
  <2>1. "idle" \in Step /\ 0 \in Time
    BY DEF Step, Time
  <2> QED BY <2>1 DEF Idle, RequestState
<1>3. ASSUME NEW step \in Step
      PROVE  /\ [request[r] EXCEPT !.at = step] \in RequestState
             /\ [request[r] EXCEPT !.at = step, !.stamp = clock] \in RequestState
  BY <1>1, <1>3 DEF RequestState
<1>4. ASSUME NEW u \in Users
      PROVE  [Idle EXCEPT !.at = "member", !.user = u] \in RequestState
  <2>1. "member" \in Step
    BY DEF Step
  <2> QED BY <1>2, <1>4, <2>1 DEF RequestState
<1> QED BY <1>1, <1>2, <1>3, <1>4

\* The checks and the room of the owner's requests.
LEMMA CheckStep ==
    ASSUME IInv, NEW r \in Requests,
           CheckStart(r) \/ CreateRoom(r) \/ CheckEnd(r) \/ CheckFail(r) \/ Abandon(r)
    PROVE  IInv'
<1> USE DEF SettlingSteps, AdmittedSteps
<1>0. TypeOK /\ request \in [Requests -> RequestState]
  BY DEF IInv, TypeOK
<1>1. CASE CheckStart(r)
  <2> DEFINE q == [request[r] EXCEPT !.at = "room"]
  <2>1. request' = [request EXCEPT ![r] = q] /\ q.at = "room"
    BY <1>0, <1>1 DEF CheckStart, Goto, RequestState
  <2>2. q \in RequestState
    BY <1>0, RequestFields DEF Step
  <2> HIDE DEF q
  <2> QED BY <1>1, <2>1, <2>2, QuietStep DEF CheckStart, provider
<1>2. CASE CreateRoom(r)
  <2> DEFINE q == [request[r] EXCEPT !.at = "start", !.stamp = clock]
  <2>1. request' = [request EXCEPT ![r] = q] /\ q.at = "start"
    BY <1>0, <1>2 DEF CreateRoom, GotoAt, RequestState
  <2>2. q \in RequestState
    BY <1>0, RequestFields DEF Step
  <2> HIDE DEF q
  <2> QED BY <1>2, <2>1, <2>2, QuietStep DEF CreateRoom
<1>3. ASSUME NEW step \in {"end", "fail"}, GotoAt(r, step), UNCHANGED <<rows, provider, clock, settled>>
      PROVE  IInv'
  <2> DEFINE q == [request[r] EXCEPT !.at = step, !.stamp = clock]
  <2>1. request' = [request EXCEPT ![r] = q] /\ q.at = step
    BY <1>0, <1>3 DEF GotoAt, RequestState
  <2>2. q \in RequestState
    BY <1>0, RequestFields DEF Step
  <2> HIDE DEF q
  <2> QED BY <1>3, <2>1, <2>2, QuietStep DEF provider
<1>4. CASE Abandon(r)
  <2>1. Idle \in RequestState
    BY <1>0, RequestFields
  <2> QED BY <1>4, <2>1, QuietStep DEF Abandon, Return, provider, Idle
<1> QED BY <1>1, <1>2, <1>3, <1>4 DEF CheckEnd, CheckFail

\* The checks of a join: what each has found goes into the invariant.
LEMMA JoinStep ==
    ASSUME IInv, NEW r \in Requests,
           (\E u \in Users : CheckJoin(r, u)) \/ ActiveMember(r) \/ LiveStream(r) \/ ViewerToken(r)
    PROVE  IInv'
<1> USE DEF SettlingSteps, AdmittedSteps
<1>0. TypeOK /\ request \in [Requests -> RequestState]
  BY DEF IInv, TypeOK
<1>1. ASSUME NEW u \in Users, CheckJoin(r, u) PROVE IInv'
  <2> DEFINE q == [Idle EXCEPT !.at = "member", !.user = u]
  <2>1. request' = [request EXCEPT ![r] = q] /\ q.at = "member" /\ q.user = u
    BY <1>1 DEF CheckJoin, Idle
  <2>2. q \in RequestState
    BY <1>0, <1>1, RequestFields
  <2> HIDE DEF q
  <2> QED BY <1>1, <2>1, <2>2, QuietStep DEF CheckJoin, provider
<1>2. ASSUME Return(r), UNCHANGED <<rows, provider, clock, settled>>
      PROVE  IInv'
  <2>1. Idle \in RequestState
    BY <1>0, RequestFields
  <2> QED BY <1>2, <2>1, QuietStep DEF Return, provider, Idle
<1>3. ASSUME NEW step \in AdmittedSteps, Goto(r, step), UNCHANGED <<rows, provider, clock, settled>>,
             request[r].user \in Users, Held(request[r].user),
             step = "stream" \/ stream.status # "none"
      PROVE  IInv'
  <2> DEFINE q == [request[r] EXCEPT !.at = step]
  <2>1. request' = [request EXCEPT ![r] = q] /\ q.at = step /\ q.user = request[r].user
    BY <1>0, <1>3 DEF Goto, RequestState
  <2>2. q \in RequestState
    BY <1>0, RequestFields DEF Step
  <2> HIDE DEF q
  <2> QED BY <1>3, <2>1, <2>2, QuietStep DEF provider
<1>4. CASE ActiveMember(r)
  BY <1>2, <1>3, <1>4 DEF IInv, ActiveMember, GetActiveMember, ViewerNamed, Held
<1>5. CASE LiveStream(r)
  BY <1>2, <1>3, <1>5 DEF IInv, LiveStream, ViewerNamed, ViewersHold, Admitted
<1>6. CASE ViewerToken(r)
  BY <1>3, <1>6 DEF IInv, ViewerToken, ViewerNamed, ViewersHold, StreamFound, Admitted
<1> QED BY <1>1, <1>4, <1>5, <1>6

\* A request that answers without a write.
LEMMA AnswerStep ==
    ASSUME IInv, NEW r \in Requests, Return(r), UNCHANGED <<rows, provider, clock, settled>>
    PROVE  IInv'
<1>1. Idle \in RequestState
  BY RequestFields DEF IInv
<1> QED BY <1>1, QuietStep DEF Return, provider, Idle, SettlingSteps, AdmittedSteps

\* The stream opens: there was none, so nobody is in and nothing is settled.
LEMMA StartStep == ASSUME IInv, NEW r \in Requests, Start(r) PROVE IInv'
<1>1. CASE UNCHANGED <<event, stream>>
  BY <1>1, AnswerStep DEF Start, rows
<1>2. ASSUME MarkEventLive, CreateEventStream(request[r].stamp) PROVE IInv'
  <2> USE <1>2 DEF IInv
  <2>1. /\ request[r].at = "start" /\ room /\ event = "upcoming" /\ stream.status = "none"
        /\ event' = "live" /\ stream' = [status |-> "live", started |-> request[r].stamp, finished |-> 0]
        /\ UNCHANGED <<member, joined, room, token, clock, settled>>
    BY DEF Start, MarkEventLive, CreateEventStream, RoomBeforeStart, provider
  <2>2. /\ request[r] \in RequestState /\ Idle \in RequestState
        /\ \A v \in Requests \ {r} : request'[v] = request[v]
        /\ request' \in [Requests -> RequestState] /\ request'[r] = Idle
    BY RequestFields DEF Start, Return, TypeOK
  <2>3. stream' \in StreamRow
    BY <2>1, <2>2 DEF StreamRow, RequestState, Time
  <2>4. TypeOK'
    BY <2>1, <2>2, <2>3 DEF TypeOK, EventStatus
  <2>5. EventFollows' /\ RoomBeforeStart'
    BY <2>1, <2>2 DEF EventFollows, RoomBeforeStart, Over, Idle
  <2>6. ViewerNamed' /\ ViewersHold' /\ StreamFound'
    BY <2>1, <2>2 DEF ViewerNamed, ViewersHold, StreamFound, Admitted, Held, Idle
  <2>7. OutcomeFits' /\ SettlesOnce'
    BY <2>1, <2>2 DEF OutcomeFits, SettlesOnce, Settles, Idle
  <2> QED BY <2>4, <2>5, <2>6, <2>7
<1> QED BY <1>1, <1>2 DEF Start

\* The stream closes: it was live, so nothing is settled yet, and the one request that
\* closes it is the one that may settle it.
LEMMA CloseStep == ASSUME IInv, NEW r \in Requests, End(r) \/ Fail(r) PROVE IInv'
<1>1. CASE UNCHANGED <<event, stream>> /\ Return(r)
  BY <1>1, AnswerStep DEF End, Fail, rows
<1>2. ASSUME NEW outcome \in Over, NEW q \in RequestState,
             stream.status = "live",
             stream' = [stream EXCEPT !.status = outcome, !.finished = request[r].stamp],
             MarkEventEnded,
             UNCHANGED <<member, joined, provider, clock, settled>>,
             request' = [request EXCEPT ![r] = q],
             q = Idle \/ q.at \in SettlingSteps,
             q.at = "accrue" => outcome = "ended",
             q.at = "refund" => outcome = "failed" /\ Early(request[r].stamp)
      PROVE  IInv'
  <2> USE <1>2 DEF IInv, SettlingSteps
  <2>1. /\ event = "live" /\ event' = "ended" /\ room
        /\ stream'.status = outcome /\ stream'.started = stream.started
        /\ stream'.finished = request[r].stamp
    BY DEF EventFollows, MarkEventEnded, TypeOK, StreamRow
  <2>2. /\ request[r] \in RequestState
        /\ \A v \in Requests \ {r} : request'[v] = request[v]
        /\ request' \in [Requests -> RequestState] /\ request'[r] = q
    BY DEF TypeOK
  <2>3. stream' \in StreamRow
    BY <2>2 DEF TypeOK, StreamRow, RequestState, Over
  <2>4. q.at = "idle" => q = Idle
    OBVIOUS
  <2>5. q.at \notin {"start", "member", "stream", "token", "record"}
    BY DEF Idle
  <2>6. TypeOK'
    BY <2>1, <2>2, <2>3, <2>4 DEF TypeOK, EventStatus, provider
  <2>7. EventFollows' /\ RoomBeforeStart'
    BY <2>1, <2>2, <2>5 DEF EventFollows, RoomBeforeStart, Over, provider
  <2>8. ViewerNamed' /\ ViewersHold'
    BY <2>1, <2>2, <2>5 DEF ViewerNamed, ViewersHold, Admitted, Held, provider
  <2>9. StreamFound'
    BY <2>1, <2>2, <2>5 DEF StreamFound, Over
  <2>10. \A v \in Requests : ~Settles(v)
    BY DEF OutcomeFits, Settles
  <2>11. OutcomeFits'
    BY <2>1, <2>2, <2>10 DEF OutcomeFits, Settles, Early, Idle
  <2>12. SettlesOnce'
    BY <2>2, <2>10 DEF SettlesOnce, Settles, Idle
  <2> QED BY <2>6, <2>7, <2>8, <2>9, <2>11, <2>12
<1>3. TypeOK /\ request \in [Requests -> RequestState] /\ Idle \in RequestState
  BY RequestFields DEF IInv, TypeOK
<1>4. ASSUME NEW step \in SettlingSteps, Goto(r, step)
      PROVE  \E q \in RequestState : request' = [request EXCEPT ![r] = q] /\ q.at = step
  <2>1. [request[r] EXCEPT !.at = step] \in RequestState
    BY <1>3, <1>4, RequestFields DEF Step, SettlingSteps
  <2> QED BY <1>3, <1>4, <2>1 DEF Goto, RequestState
<1>5. ASSUME End(r), Goto(r, "accrue"), RecordStreamEnd(request[r].stamp), MarkEventEnded
      PROVE  IInv'
  <2>1. PICK q \in RequestState : request' = [request EXCEPT ![r] = q] /\ q.at = "accrue"
    BY <1>4, <1>5 DEF SettlingSteps
  <2> QED BY <1>2, <1>5, <2>1 DEF End, RecordStreamEnd, Over, SettlingSteps
<1>6. ASSUME Fail(r), Goto(r, "refund"), RecordStreamFailure(request[r].stamp), MarkEventEnded,
             Early(request[r].stamp)
      PROVE  IInv'
  <2>1. PICK q \in RequestState : request' = [request EXCEPT ![r] = q] /\ q.at = "refund"
    BY <1>4, <1>6 DEF SettlingSteps
  <2> QED BY <1>2, <1>6, <2>1 DEF Fail, RecordStreamFailure, Over, SettlingSteps
<1>7. ASSUME Fail(r), Return(r), RecordStreamFailure(request[r].stamp), MarkEventEnded
      PROVE  IInv'
  BY <1>2, <1>3, <1>7 DEF Fail, Return, RecordStreamFailure, Over, Idle
<1> QED BY <1>1, <1>5, <1>6, <1>7 DEF End, Fail

\* The request that closed the stream settles it.
LEMMA SettleStep == ASSUME IInv, NEW r \in Requests, AccruePayout(r) \/ RefundEvent(r) PROVE IInv'
<1> USE DEF IInv
<1>1. /\ request[r].at \in SettlingSteps
      /\ settled' = settled \cup {<<IF request[r].at = "accrue" THEN "payout" ELSE "refund", r>>}
      /\ UNCHANGED <<event, stream, member, joined, room, token, clock>>
  BY DEF AccruePayout, RefundEvent, SettlingSteps, rows, provider
<1>2. /\ Idle \in RequestState
      /\ \A v \in Requests \ {r} : request'[v] = request[v]
      /\ request' \in [Requests -> RequestState] /\ request'[r] = Idle
  BY RequestFields DEF AccruePayout, RefundEvent, Return, TypeOK
<1>3. TypeOK'
  BY <1>1, <1>2 DEF TypeOK
<1>4. EventFollows' /\ RoomBeforeStart' /\ StreamFound'
  BY <1>1, <1>2 DEF EventFollows, RoomBeforeStart, StreamFound, Idle
<1>5. ViewerNamed' /\ ViewersHold'
  BY <1>1, <1>2 DEF ViewerNamed, ViewersHold, Admitted, Held, Idle
<1>6. \A v \in Requests : Settles(v)' => Settles(v)
  BY <1>1, <1>2 DEF Settles, SettlingSteps, Idle
<1>7. OutcomeFits'
  <2>1. ASSUME NEW v \in Requests
        PROVE  /\ request'[v].at = "accrue" \/ <<"payout", v>> \in settled' =>
                     request[v].at = "accrue" \/ <<"payout", v>> \in settled
               /\ request'[v].at = "refund" \/ <<"refund", v>> \in settled' =>
                     request[v].at = "refund" \/ <<"refund", v>> \in settled
    BY <1>1, <1>2, <2>1 DEF SettlingSteps, Idle
  <2> QED BY <1>1, <2>1 DEF OutcomeFits
<1>8. SettlesOnce'
  BY <1>6 DEF SettlesOnce
<1> QED BY <1>3, <1>4, <1>5, <1>7, <1>8

\* A viewer gets the token.
LEMMA RecordStep == ASSUME IInv, NEW r \in Requests, RecordJoin(r) PROVE IInv'
<1> USE DEF IInv
<1>1. /\ request[r].at = "record"
      /\ joined' = joined \cup {request[r].user} /\ token' = token \cup {request[r].user}
      /\ UNCHANGED <<event, stream, member, room, clock, settled>>
  BY DEF RecordJoin, RecordStreamMemberJoin
<1>2. /\ Idle \in RequestState
      /\ \A v \in Requests \ {r} : request'[v] = request[v]
      /\ request' \in [Requests -> RequestState] /\ request'[r] = Idle
  BY RequestFields DEF RecordJoin, Return, TypeOK
<1>3. request[r].user \in Users /\ Held(request[r].user) /\ stream.status # "none"
  BY <1>1 DEF ViewerNamed, ViewersHold, StreamFound, Admitted
<1>4. TypeOK'
  BY <1>1, <1>2, <1>3 DEF TypeOK
<1>5. EventFollows' /\ RoomBeforeStart' /\ StreamFound'
  BY <1>1, <1>2, <1>3 DEF EventFollows, RoomBeforeStart, StreamFound, Idle
<1>6. ViewerNamed' /\ ViewersHold'
  BY <1>1, <1>2, <1>3 DEF ViewerNamed, ViewersHold, Admitted, Held, Idle
<1>7. OutcomeFits' /\ SettlesOnce'
  BY <1>1, <1>2 DEF OutcomeFits, SettlesOnce, Settles, Idle
<1> QED BY <1>4, <1>5, <1>6, <1>7

\* What the other components, the provider and time do.
LEMMA OutsideStep ==
    ASSUME IInv, CancelEvent \/ Tick \/ (\E u \in Users : MemberStep(u))
    PROVE  IInv'
<1> USE DEF IInv
<1>1. UNCHANGED <<stream, joined, room, request, settled>>
  BY DEF CancelEvent, Tick, MemberStep, CreateMember, RevokeMember, TokenExpires, rows, provider
<1>2. (event' = event \/ (event = "upcoming" /\ event' = "cancelled")) /\ token' \in SUBSET token
  BY DEF CancelEvent, Tick, MemberStep, CreateMember, RevokeMember, TokenExpires, rows, provider
<1>3. member' \in [Users -> MemberStatus] /\ clock' \in Time
  <2>1. CASE Tick
    BY <2>1 DEF Tick, rows, TypeOK, Time
  <2> QED BY <2>1 DEF CancelEvent, MemberStep, CreateMember, RevokeMember, TokenExpires,
                     rows, TypeOK, MemberStatus
<1>4. \A u \in Users : Held(u) => Held(u)'
  <2>1. \/ member' = member
        \/ \E v \in Users : member[v] = "none" /\ member' = [member EXCEPT ![v] = "active"]
        \/ \E v \in Users : /\ member[v] = "active" /\ stream.status = "failed"
                            /\ member' = [member EXCEPT ![v] = "revoked"]
    BY DEF CancelEvent, Tick, MemberStep, CreateMember, RevokeMember, TokenExpires, rows
  <2> QED BY <1>1, <2>1 DEF TypeOK, Held
<1>5. TypeOK'
  BY <1>1, <1>2, <1>3 DEF TypeOK, EventStatus
<1>6. EventFollows' /\ RoomBeforeStart' /\ StreamFound' /\ ViewerNamed'
  BY <1>1, <1>2 DEF EventFollows, RoomBeforeStart, StreamFound, ViewerNamed, Admitted, Over
<1>7. ViewersHold'
  <2>1. \A u \in token \cup joined : u \in Users
    BY DEF TypeOK
  <2> QED BY <1>1, <1>2, <1>4, <2>1 DEF ViewersHold, ViewerNamed, Admitted
<1>8. OutcomeFits' /\ SettlesOnce'
  BY <1>1 DEF OutcomeFits, SettlesOnce, Settles
<1> QED BY <1>5, <1>6, <1>7, <1>8

\* Every step keeps the invariant.
LEMMA NextInvariant == IInv /\ [Next]_vars => IInv'
<1> SUFFICES ASSUME IInv, [Next]_vars PROVE IInv'
  OBVIOUS
<1>1. ASSUME NEW r \in Requests, HostStep(r) \/ ViewerStep(r) \/ Abandon(r) PROVE IInv'
  BY <1>1, CheckStep, JoinStep, StartStep, CloseStep, SettleStep, RecordStep
     DEF HostStep, ViewerStep
<1>2. CASE UNCHANGED vars
  BY <1>2 DEF vars, IInv, TypeOK, EventFollows, RoomBeforeStart, ViewerNamed, ViewersHold,
              StreamFound, OutcomeFits, SettlesOnce, Settles, Admitted, Held
<1> QED BY <1>1, <1>2, OutsideStep DEF Next

LEMMA Invariance == Spec => []IInv
BY InitInvariant, NextInvariant, PTL DEF Spec

-----------------------------------------------------------------------------
\* The types; a request that is idle carries nothing over to the next.
THEOREM TypeCorrect == Spec => []TypeOK
<1>1. IInv => TypeOK
  BY DEF IInv
<1> QED BY <1>1, Invariance, PTL

\* The event and its stream tell the same story whatever races (Start, End, Fail).
THEOREM EventAndStream == Spec => []StreamMatchesEvent
<1>1. IInv => StreamMatchesEvent
  BY DEF IInv, EventFollows, StreamFound, StreamMatchesEvent
<1> QED BY <1>1, Invariance, PTL

\* Nobody gets a viewer token without a membership, and it is lost again only to the
\* refund of a failed stream (Join).
THEOREM Viewers == Spec => []ViewersAreMembers
<1>1. IInv => ViewersAreMembers
  BY DEF IInv, ViewersHold, ViewersAreMembers, Held, TypeOK
<1> QED BY <1>1, Invariance, PTL

\* Finance is asked once, and for what the outcome of the stream calls for (End, Fail).
THEOREM Settlements == Spec => []SettlementFollowsOutcome
<1>1. IInv => SettlementFollowsOutcome
  BY DEF IInv, OutcomeFits, SettlesOnce, Settles, SettlementFollowsOutcome
<1> QED BY <1>1, Invariance, PTL

\* An outcome is final, and a stream that is over lets no more viewers past its checks.
THEOREM OutcomeIsFinal == Spec => NothingAfterTheEnd
<1> DEFINE Final == /\ event \in {"cancelled", "ended"} => event' = event
                    /\ stream.status \in Over =>
                          /\ stream' = stream
                          /\ \A r \in Requests :
                                request'[r].at \in {"token", "record"} =>
                                    request[r].at \in {"token", "record"}
<1>1. ASSUME IInv, [Next]_vars PROVE Final
  <2> USE <1>1
  <2>1. TypeOK /\ EventFollows /\ request \in [Requests -> RequestState]
    BY DEF IInv, TypeOK
  <2>2. CASE UNCHANGED vars
    BY <2>2 DEF vars
  <2>3. CASE CancelEvent \/ Tick \/ (\E u \in Users : MemberStep(u))
    BY <2>3 DEF CancelEvent, Tick, MemberStep, CreateMember, RevokeMember, TokenExpires, rows
  <2>4. ASSUME NEW r \in Requests,
               CheckStart(r) \/ CreateRoom(r) \/ CheckEnd(r) \/ CheckFail(r) \/ Abandon(r)
        PROVE  Final
    BY <2>1, <2>4 DEF CheckStart, CreateRoom, CheckEnd, CheckFail, Abandon, Goto, GotoAt,
                      Return, Idle, rows, RequestState
  <2>5. ASSUME NEW r \in Requests,
               (\E u \in Users : CheckJoin(r, u)) \/ ActiveMember(r) \/ LiveStream(r)
                   \/ ViewerToken(r) \/ RecordJoin(r)
        PROVE  Final
    <3>1. event' = event /\ stream' = stream
      BY <2>5 DEF CheckJoin, ActiveMember, LiveStream, ViewerToken, RecordJoin, rows
    <3>2. \A v \in Requests \ {r} : request'[v] = request[v]
      BY <2>1, <2>5 DEF CheckJoin, ActiveMember, LiveStream, ViewerToken, RecordJoin, Goto, Return
    <3>3. request'[r].at \in {"token", "record"} =>
              request[r].at \in {"token", "record"} \/ stream.status = "live"
      <4>1. CASE LiveStream(r)
        BY <2>1, <4>1 DEF LiveStream, Return, Idle
      <4>2. CASE ActiveMember(r)
        BY <2>1, <4>2 DEF ActiveMember, Goto, Return, Idle, RequestState
      <4>3. CASE (\E u \in Users : CheckJoin(r, u)) \/ RecordJoin(r)
        BY <2>1, <4>3 DEF CheckJoin, RecordJoin, Return, Idle
      <4>4. CASE ViewerToken(r)
        BY <4>4 DEF ViewerToken
      <4> QED BY <2>5, <4>1, <4>2, <4>3, <4>4
    <3> QED BY <3>1, <3>2, <3>3 DEF Over
  <2>6. ASSUME NEW r \in Requests, Start(r) \/ AccruePayout(r) \/ RefundEvent(r)
        PROVE  Final
    BY <2>1, <2>6 DEF Start, MarkEventLive, CreateEventStream, AccruePayout, RefundEvent,
                      Return, Idle, rows, RequestState, EventFollows, Over
  <2>7. ASSUME NEW r \in Requests, End(r) \/ Fail(r) PROVE Final
    <3>1. \/ UNCHANGED <<event, stream>>
          \/ stream.status = "live" /\ event = "live"
      BY <2>1, <2>7 DEF End, Fail, RecordStreamEnd, RecordStreamFailure, EventFollows
    <3>2. \A v \in Requests : request'[v].at \in {"token", "record"} => request'[v] = request[v]
      BY <2>1, <2>7 DEF End, Fail, Goto, Return, Idle, RequestState
    <3> QED BY <3>1, <3>2 DEF Over
  <2> QED BY <2>2, <2>3, <2>4, <2>5, <2>6, <2>7 DEF Next, HostStep, ViewerStep
<1>2. Spec => [][Final]_vars
  BY <1>1, Invariance, PTL DEF Spec
<1> QED BY <1>2 DEF NothingAfterTheEnd
=============================================================================
