-------------------------------- MODULE Events --------------------------------
(***************************************************************************)
(* internal/events: what hosts do to their events, while ticketing and     *)
(* streaming move the same rows and a client pages through the list.       *)
(*                                                                         *)
(* Create validates and inserts.  Update reads the row, merges the patch   *)
(* into it, validates the result and writes every column back, guarded;    *)
(* Cancel reads, then writes, guarded.  Between the read and the write the *)
(* row may change.  The columns no guard looks at (name, price, crew) are  *)
(* left out, and with them the check of the crew and its notice; so is the *)
(* clock, which decides only which schedules are refused.                  *)
(***************************************************************************)
EXTENDS Integers, FiniteSets

CONSTANTS
    Ids,         \* event ids, in the order they are generated
    Requests,    \* HTTP requests of hosts that may be in flight
    MaxTime,     \* bound on the start times
    MaxDuration, \* bound on the durations
    MaxTickets,  \* bound on the capacities
    PageSize     \* the size of the client's pages

ASSUME EventsAssumption ==
    /\ Ids \subseteq Nat \ {0} /\ IsFiniteSet(Ids)
    /\ {MaxTime, MaxDuration, MaxTickets, PageSize} \subseteq Nat \ {0}

VARIABLES
    event,      \* the events rows
    request,    \* where each request is, and the row it is about to write
    cursor, listed, steady   \* the client of the list

rowVars == <<event, request>>
listVars == <<cursor, listed, steady>>
vars == <<event, request, cursor, listed, steady>>

Status == {"none", "upcoming", "live", "ended", "cancelled"}

\* The columns a host may set, and those that follow.
Schedule == [starts : 1..MaxTime, duration : 1..MaxDuration, total : 1..MaxTickets]
Row == [status : Status, starts : 0..MaxTime, duration : 0..MaxDuration,
        ends : 0..(MaxTime + MaxDuration), total : 0..MaxTickets, available : 0..MaxTickets]
NoRow == [status |-> "none", starts |-> 0, duration |-> 0, ends |-> 0, total |-> 0,
          available |-> 0]

\* A field of a patch that is absent, and the patches: any fields, any valid values.
Keep == 0
Patch == [starts : 0..MaxTime, duration : 0..MaxDuration, total : 0..MaxTickets]

NoWrite == [starts |-> 0, duration |-> 0, total |-> 0]
Idle == [at |-> "idle", id |-> 0, write |-> NoWrite]
RequestState == [at : {"idle", "create", "update", "cancel"}, id : Ids \cup {0}, write : Patch]

\* The list of upcoming events, ordered by (starts_at, id).
Upcoming == {<<event[e].starts, e>> : e \in {d \in Ids : event[d].status = "upcoming"}}
L == INSTANCE Listing WITH table <- Upcoming

Init ==
    /\ event = [e \in Ids |-> NoRow]
    /\ request = [r \in Requests |-> Idle]
    /\ L!Init

Goto(r, step, e, write) ==
    request' = [request EXCEPT ![r] = [at |-> step, id |-> e, write |-> write]]

Return(r) == request' = [request EXCEPT ![r] = Idle]

\* How many slots of an event are taken.
Reserved(e) == event[e].total - event[e].available

-----------------------------------------------------------------------------
(***************************************************************************)
(* The queries.                                                            *)
(***************************************************************************)

\* endsAt.
EndsAt(s) == s.starts + s.duration

\* CreateEvent, with every slot available.
CreateEvent(e, s) ==
    /\ event[e].status = "none"
    /\ event' = [event EXCEPT ![e] =
                   [status |-> "upcoming", starts |-> s.starts, duration |-> s.duration,
                    ends |-> EndsAt(s), total |-> s.total, available |-> s.total]]

GetEvent(e) == event[e]

\* The guard of UpdateEvent.
Updatable(e, s) == event[e].status = "upcoming" /\ s.total >= Reserved(e)

\* Mutation of UpdateEvent: available_tickets keeps the value that was read.
UpdateEventCapped(e, s) ==
    /\ Updatable(e, s)
    /\ event' = [event EXCEPT ![e] =
                   [@ EXCEPT !.starts = s.starts, !.duration = s.duration, !.ends = EndsAt(s),
                             !.total = s.total]]

\* UpdateEvent: every column, the slots taken excepted.
UpdateEvent(e, s) ==
    /\ Updatable(e, s)
    /\ event' = [event EXCEPT ![e] =
                   [@ EXCEPT !.starts = s.starts, !.duration = s.duration, !.ends = EndsAt(s),
                             !.total = s.total, !.available = s.total - Reserved(e)]]

\* Mutation of CancelEvent: the status is not compared.
CancelEventUnguarded(e) == event' = [event EXCEPT ![e].status = "cancelled"]

\* CancelEvent, guarded on upcoming.
CancelEvent(e) ==
    /\ event[e].status = "upcoming"
    /\ event' = [event EXCEPT ![e].status = "cancelled"]

-----------------------------------------------------------------------------
(***************************************************************************)
(* Service Create and Update.                                              *)
(***************************************************************************)

\* validateSchedule: a start in the future (any start may be), a duration and a
\* capacity that are positive.
ValidateSchedule(s) == s \in Schedule

CheckCreate(r, e, s) ==
    /\ request[r] = Idle
    /\ event[e].status = "none"
    /\ \A q \in Requests : request[q].id # e
    /\ ValidateSchedule(s)
    /\ Goto(r, "create", e, s)
    /\ UNCHANGED event

Create(r) ==
    /\ request[r].at = "create"
    /\ CreateEvent(request[r].id, request[r].write)
    /\ Return(r)

\* The patch over the row that was read.
Merge(current, patch) ==
    [starts |-> IF patch.starts = Keep THEN current.starts ELSE patch.starts,
     duration |-> IF patch.duration = Keep THEN current.duration ELSE patch.duration,
     total |-> IF patch.total = Keep THEN current.total ELSE patch.total]

\* Update reads an upcoming event, and refuses an invalid result or a total below
\* the slots taken.
ReadForUpdate(r, e, patch) ==
    LET current == GetEvent(e)
        merged == Merge(current, patch)
    IN  /\ request[r] = Idle
        /\ current.status = "upcoming"
        /\ ValidateSchedule(merged)
        /\ merged.total >= current.total - current.available
        /\ Goto(r, "update", e, merged)
        /\ UNCHANGED event

\* Store Update; a row it may no longer write is ErrConflict.
Update(r) ==
    LET e == request[r].id
        s == request[r].write
    IN  /\ request[r].at = "update"
        /\ UpdateEvent(e, s) \/ (~Updatable(e, s) /\ UNCHANGED event)
        /\ Return(r)

\* Update with cancel set reads an upcoming event.
ReadForCancel(r, e) ==
    /\ request[r] = Idle
    /\ GetEvent(e).status = "upcoming"
    /\ Goto(r, "cancel", e, NoWrite)
    /\ UNCHANGED event

\* Store Cancel; an event that is upcoming no longer is ErrNotCancellable.
Cancel(r) ==
    LET e == request[r].id IN
    /\ request[r].at = "cancel"
    /\ CancelEvent(e) \/ (event[e].status # "upcoming" /\ UNCHANGED event)
    /\ Return(r)

\* An error, a client that went away, or the process dies.
Abandon(r) ==
    /\ request[r] # Idle
    /\ Return(r)
    /\ UNCHANGED event

-----------------------------------------------------------------------------
(***************************************************************************)
(* The other components.                                                   *)
(***************************************************************************)

\* Ticketing: ReserveEventTicket.
ReserveEventTicket(e) ==
    /\ event[e].status = "upcoming"
    /\ event[e].available > 0
    /\ event' = [event EXCEPT ![e].available = @ - 1]
    /\ UNCHANGED request

\* Ticketing: ReleaseEventTicket.
ReleaseEventTicket(e) ==
    /\ event[e].available < event[e].total
    /\ event' = [event EXCEPT ![e].available = @ + 1]
    /\ UNCHANGED request

\* Streaming: MarkEventLive and MarkEventEnded.
MoveEvent(e) ==
    /\ \/ event[e].status = "upcoming" /\ event' = [event EXCEPT ![e].status = "live"]
       \/ event[e].status = "live" /\ event' = [event EXCEPT ![e].status = "ended"]
    /\ UNCHANGED request

RequestStep(r) ==
    \/ \E e \in Ids, s \in Schedule : CheckCreate(r, e, s)
    \/ \E e \in Ids, patch \in Patch : ReadForUpdate(r, e, patch)
    \/ \E e \in Ids : ReadForCancel(r, e)
    \/ Create(r) \/ Update(r) \/ Cancel(r) \/ Abandon(r)

EventStep(e) == ReserveEventTicket(e) \/ ReleaseEventTicket(e) \/ MoveEvent(e)

Next ==
    \/ \E r \in Requests : RequestStep(r) /\ L!Watch
    \/ \E e \in Ids : EventStep(e) /\ L!Watch
    \/ L!Begin /\ UNCHANGED rowVars
    \/ L!List /\ UNCHANGED rowVars

Spec == Init /\ [][Next]_vars
-----------------------------------------------------------------------------
(***************************************************************************)
(* Properties.                                                             *)
(***************************************************************************)
TypeOK ==
    /\ event \in [Ids -> Row]
    /\ request \in [Requests -> RequestState]
    /\ cursor \in {L!First, L!Last} \cup ((1..MaxTime) \X Ids)
    /\ listed \in SUBSET ((1..MaxTime) \X Ids)
    /\ steady \in SUBSET ((1..MaxTime) \X Ids)

\* A host whose request read an upcoming event changes nothing of it once it has
\* gone live or been cancelled, and never how many slots are taken: those change
\* one at a time, with the total as it is (Update, Cancel).
HostsMindTheSold ==
    [][\A e \in Ids :
          LET old == event[e]
              new == event'[e]
          IN  /\ old.status \notin {"none", "upcoming"} =>
                    [new EXCEPT !.status = old.status, !.available = old.available] = old
              /\ old.status \in {"cancelled", "ended"} => new.status = old.status
              /\ old.status = "live" => new.status \in {"live", "ended"}
              /\ old.status # "none" /\ new.total # old.total =>
                    new.total - new.available = old.total - old.available]_vars

\* The client that pages through the upcoming events to the end has seen each one
\* that stayed upcoming and was not rescheduled (List).
ListingCovers == L!PagesCover
=============================================================================
