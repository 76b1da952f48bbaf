----------------------------- MODULE EventsProofs -----------------------------
(***************************************************************************)
(* Proofs about Events and the list it pages through, for every finite set *)
(* of ids, every set of requests and every page size.                      *)
(***************************************************************************)
EXTENDS Events, FiniteSetTheorems, WellFoundedInduction, TLAPS

-----------------------------------------------------------------------------
(***************************************************************************)
(* The order of the rows and the pages cut from it.                        *)
(***************************************************************************)

\* Listing counts with the same operator.
LEMMA SameCardinality == \A S : L!Cardinality(S) = Cardinality(S)
  BY DEF L!Cardinality, Cardinality

\* The rows are totally ordered by (sort key, id).
LEMMA AfterOrders ==
  \A x, y, z \in Int \X Int :
      /\ ~L!After(x, x)
      /\ x = y \/ L!After(x, y) \/ L!After(y, x)
      /\ L!After(x, y) /\ L!After(y, z) => L!After(x, z)
  BY DEF L!After

LEMMA LeastNumber ==
  ASSUME NEW S \in SUBSET Nat, S # {}
  PROVE  \E n \in S : \A m \in S : n <= m
  <1>1. \E n \in S : \A m \in S : ~(<<m, n>> \in OpToRel(<, Nat))
    BY NatLessThanWellFounded, WFMin
  <1>2. \A m, n \in S : m < n => <<m, n>> \in OpToRel(<, Nat)
    BY DEF OpToRel
  <1>3. \E n \in S : \A m \in S : ~(m < n)
    BY <1>1, <1>2, Zenon
  <1>4. QED
    BY <1>3

\* A set of rows has a first one.
LEMMA FirstRow ==
  ASSUME NEW T \in SUBSET (Nat \X Nat), T # {}
  PROVE  \E row \in T : \A q \in T : ~L!After(row, q)
  <1>t. \A row \in T : row[1] \in Nat /\ row[2] \in Nat
    OBVIOUS
  <1>1. {row[1] : row \in T} \in SUBSET Nat /\ {row[1] : row \in T} # {}
    BY <1>t
  <1>2. PICK k \in {row[1] : row \in T} : \A j \in {row[1] : row \in T} : k <= j
    BY <1>1, LeastNumber
  <1> DEFINE K == {row \in T : row[1] = k}
  <1>3. {row[2] : row \in K} \in SUBSET Nat /\ {row[2] : row \in K} # {}
    BY <1>t, <1>2
  <1>4. PICK i \in {row[2] : row \in K} : \A j \in {row[2] : row \in K} : i <= j
    BY <1>3, LeastNumber
  <1>5. PICK row \in K : row[2] = i
    BY <1>4
  <1>6. ASSUME NEW q \in T
        PROVE  ~L!After(row, q)
    <2>1. row[1] = k /\ k <= q[1] /\ q[1] \in Nat /\ k \in Nat
      BY <1>1, <1>2
    <2>2. q[1] = k => row[2] <= q[2]
      BY <1>4, <1>5
    <2>3. q[2] \in Nat /\ row[2] \in Nat
      BY <1>t
    <2>4. QED
      BY <2>1, <2>2, <2>3 DEF L!After
  <1>7. QED
    BY <1>6

\* The rows of T before one of them, and the first n of T.
Before(T, row) == {q \in T : L!After(row, q)}
FirstOf(T, n) == {row \in T : Cardinality(Before(T, row)) < n}

LEMMA BeforeFinite ==
  ASSUME NEW T, IsFiniteSet(T), NEW row
  PROVE  IsFiniteSet(Before(T, row)) /\ Cardinality(Before(T, row)) \in Nat
  BY FS_Subset, FS_CardinalityType DEF Before

LEMMA BeforeGrows ==
  ASSUME NEW T \in SUBSET (Nat \X Nat), IsFiniteSet(T), NEW row \in T, NEW q \in T
  PROVE  /\ ~L!After(q, row) => Cardinality(Before(T, q)) <= Cardinality(Before(T, row))
         /\ L!After(q, row) => Cardinality(Before(T, row)) < Cardinality(Before(T, q))
  <1>1. \A x \in T : x \in Int \X Int
    OBVIOUS
  <1>2. ASSUME ~L!After(q, row)
        PROVE  Cardinality(Before(T, q)) <= Cardinality(Before(T, row))
    <2>1. Before(T, q) \subseteq Before(T, row)
      BY <1>1, <1>2, AfterOrders DEF Before
    <2>2. QED
      BY <2>1, BeforeFinite, FS_Subset
  <1>3. ASSUME L!After(q, row)
        PROVE  Cardinality(Before(T, row)) < Cardinality(Before(T, q))
    <2>1. Before(T, row) \cup {row} \subseteq Before(T, q) /\ row \notin Before(T, row)
      BY <1>1, <1>3, AfterOrders DEF Before
    <2>2. Cardinality(Before(T, row) \cup {row}) = Cardinality(Before(T, row)) + 1
      BY <2>1, BeforeFinite, FS_AddElement
    <2>3. Cardinality(Before(T, row) \cup {row}) <= Cardinality(Before(T, q))
      BY <2>1, BeforeFinite, FS_Subset
    <2>4. QED
      BY <2>2, <2>3, BeforeFinite
  <1>4. QED
    BY <1>2, <1>3

\* A page misses no row before one of its rows.
LEMMA PageClosed ==
  ASSUME NEW T \in SUBSET (Nat \X Nat), IsFiniteSet(T), NEW n \in Nat,
         NEW row \in FirstOf(T, n), NEW q \in T, ~L!After(q, row)
  PROVE  q \in FirstOf(T, n)
  <1>1. Cardinality(Before(T, q)) <= Cardinality(Before(T, row))
    BY BeforeGrows DEF FirstOf
  <1>2. QED
    BY <1>1, BeforeFinite DEF FirstOf

\* A page of a list that has rows left has a last row, and at most n rows.
LEMMA PageEnds ==
  ASSUME NEW T \in SUBSET (Nat \X Nat), IsFiniteSet(T), T # {}, NEW n \in Nat \ {0}
  PROVE  /\ \E row \in FirstOf(T, n) : \A q \in FirstOf(T, n) : ~L!After(q, row)
         /\ IsFiniteSet(FirstOf(T, n)) /\ Cardinality(FirstOf(T, n)) <= n
  <1> DEFINE Left(row) == n - Cardinality(Before(T, row))
             S == {Left(row) : row \in FirstOf(T, n)}
  <1>t. \A x \in T : x \in Int \X Int
    OBVIOUS
  <1>1. FirstOf(T, n) # {}
    <2>1. PICK row \in T : \A q \in T : ~L!After(row, q)
      BY FirstRow
    <2>2. Before(T, row) = {}
      BY <2>1 DEF Before
    <2>3. QED
      BY <2>2, FS_EmptySet DEF FirstOf
  <1>2. \A row \in FirstOf(T, n) : Left(row) \in Nat
    BY BeforeFinite DEF FirstOf
  <1>3. S \in SUBSET Nat /\ S # {}
    BY <1>1, <1>2
  <1>4. PICK least \in S : \A m \in S : least <= m
    BY <1>3, LeastNumber
  <1>5. PICK row \in FirstOf(T, n) : least = Left(row)
    BY <1>4
  <1>6. ASSUME NEW q \in FirstOf(T, n)
        PROVE  ~L!After(q, row)
    <2>1. Left(row) <= Left(q)
      BY <1>4, <1>5
    <2>2. Cardinality(Before(T, q)) <= Cardinality(Before(T, row))
      BY <2>1, BeforeFinite
    <2>3. QED
      BY <2>2, BeforeGrows, BeforeFinite DEF FirstOf
  <1>7. FirstOf(T, n) \subseteq Before(T, row) \cup {row}
    BY <1>t, <1>6, AfterOrders DEF Before, FirstOf
  <1>8. /\ IsFiniteSet(Before(T, row) \cup {row})
        /\ Cardinality(Before(T, row) \cup {row}) <= Cardinality(Before(T, row)) + 1
    <2>1. IsFiniteSet(Before(T, row)) /\ Cardinality(Before(T, row)) \in Nat
      BY BeforeFinite
    <2>2. /\ IsFiniteSet(Before(T, row) \cup {row})
          /\ Cardinality(Before(T, row) \cup {row}) =
                IF row \in Before(T, row) THEN Cardinality(Before(T, row))
                ELSE Cardinality(Before(T, row)) + 1
      BY <2>1, FS_AddElement, Zenon
    <2>3. QED
      BY <2>1, <2>2
  <1>9. Cardinality(Before(T, row)) < n /\ Cardinality(Before(T, row)) \in Nat
    BY BeforeFinite DEF FirstOf
  <1>10. IsFiniteSet(FirstOf(T, n)) /\ Cardinality(FirstOf(T, n)) <= n
    <2>1. /\ IsFiniteSet(FirstOf(T, n)) /\ Cardinality(FirstOf(T, n)) \in Nat
          /\ Cardinality(FirstOf(T, n)) <= Cardinality(Before(T, row) \cup {row})
          /\ Cardinality(Before(T, row) \cup {row}) \in Nat
      BY <1>7, <1>8, FS_Subset, FS_CardinalityType
    <2>2. QED
      BY <1>8, <1>9, <2>1
  <1>11. QED
    BY <1>5, <1>6, <1>10

\* When the row fetched to look ahead is not there, the page holds all that is left.
LEMMA ShortPageIsLast ==
  ASSUME NEW T \in SUBSET (Nat \X Nat), IsFiniteSet(T), NEW n \in Nat \ {0},
         Cardinality(FirstOf(T, n + 1)) <= n
  PROVE  FirstOf(T, n) = T
  <1> SUFFICES ASSUME FirstOf(T, n) # T PROVE FALSE
    OBVIOUS
  <1>t. \A x \in T : x \in Int \X Int
    OBVIOUS
  <1>1. T \ FirstOf(T, n) \in SUBSET (Nat \X Nat) /\ T \ FirstOf(T, n) # {} /\ T # {}
    BY DEF FirstOf
  <1>2. PICK row \in T \ FirstOf(T, n) : \A q \in T \ FirstOf(T, n) : ~L!After(row, q)
    BY <1>1, FirstRow
  <1>3. Before(T, row) \subseteq FirstOf(T, n)
    BY <1>2 DEF Before
  <1>4. /\ IsFiniteSet(FirstOf(T, n)) /\ Cardinality(FirstOf(T, n)) <= n
        /\ Cardinality(FirstOf(T, n)) \in Nat
    BY <1>1, PageEnds, FS_CardinalityType
  <1>5. Cardinality(Before(T, row)) <= n /\ Cardinality(Before(T, row)) \in Nat
    BY <1>3, <1>4, FS_Subset, BeforeFinite
  <1>6. Cardinality(Before(T, row)) = n
    BY <1>2, <1>5 DEF FirstOf
  <1>7. Before(T, row) \cup {row} \subseteq FirstOf(T, n + 1)
    <2>1. row \in FirstOf(T, n + 1)
      BY <1>2, <1>6 DEF FirstOf
    <2>2. FirstOf(T, n) \subseteq FirstOf(T, n + 1)
      BY BeforeFinite DEF FirstOf
    <2>3. QED
      BY <1>3, <2>1, <2>2
  <1>8. Cardinality(Before(T, row) \cup {row}) = n + 1
    <2>1. row \notin Before(T, row)
      BY <1>t, <1>2, AfterOrders DEF Before
    <2>2. QED
      BY <1>6, <2>1, BeforeFinite, FS_AddElement
  <1>9. /\ IsFiniteSet(FirstOf(T, n + 1))
        /\ Cardinality(FirstOf(T, n + 1)) \in Nat
    BY <1>1, PageEnds, FS_CardinalityType
  <1>10. Cardinality(Before(T, row) \cup {row}) <= Cardinality(FirstOf(T, n + 1))
    BY <1>7, <1>9, FS_Subset
  <1>11. QED
    BY <1>8, <1>9, <1>10

-----------------------------------------------------------------------------
(***************************************************************************)
(* The rows.                                                               *)
(***************************************************************************)

\* The part of TypeOK about the rows, with what keeps it: an event never has more
\* slots free than there are, and what a request is about to write is valid.
RowsSound ==
    /\ event \in [Ids -> Row]
    /\ request \in [Requests -> RequestState]
    /\ \A e \in Ids : event[e].available <= event[e].total
    /\ \A e \in Ids : event[e].status # "none" => event[e].starts \in 1..MaxTime
    /\ \A r \in Requests :
          /\ request[r].at # "idle" => request[r].id \in Ids
          /\ request[r].at \in {"create", "update"} => request[r].write \in Schedule

LEMMA InitRows == Init => RowsSound
  BY EventsAssumption
  DEF Init, RowsSound, Row, NoRow, Status, RequestState, Idle, NoWrite, Patch, Schedule

LEMMA RequestMoves ==
  ASSUME RowsSound, NEW r \in Requests,
         \/ Return(r)
         \/ \E e \in Ids, s \in Schedule : Goto(r, "create", e, s) \/ Goto(r, "update", e, s)
         \/ \E e \in Ids : Goto(r, "cancel", e, NoWrite)
  PROVE  /\ request' \in [Requests -> RequestState]
         /\ \A q \in Requests :
               /\ request'[q].at # "idle" => request'[q].id \in Ids
               /\ request'[q].at \in {"create", "update"} => request'[q].write \in Schedule
  <1> USE EventsAssumption DEF RowsSound
  <1>1. Schedule \subseteq Patch /\ NoWrite \in Patch
    BY DEF Schedule, Patch, NoWrite
  <1>w. ASSUME NEW state \in RequestState, request' = [request EXCEPT ![r] = state],
               state.at # "idle" => state.id \in Ids,
               state.at \in {"create", "update"} => state.write \in Schedule
        PROVE  /\ request' \in [Requests -> RequestState]
               /\ \A q \in Requests :
                     /\ request'[q].at # "idle" => request'[q].id \in Ids
                     /\ request'[q].at \in {"create", "update"} => request'[q].write \in Schedule
    BY <1>w
  <1>2. CASE Return(r)
    <2>1. Idle \in RequestState /\ Idle.at = "idle"
      BY <1>1 DEF Idle, RequestState
    <2>2. request' = [request EXCEPT ![r] = Idle]
      BY <1>2 DEF Return
    <2>3. QED
      BY <1>w, <2>1, <2>2
  <1>3. ASSUME NEW e \in Ids, NEW s \in Patch, NEW step \in {"create", "update", "cancel"},
               Goto(r, step, e, s), step # "cancel" => s \in Schedule
        PROVE  /\ request' \in [Requests -> RequestState]
               /\ \A q \in Requests :
                     /\ request'[q].at # "idle" => request'[q].id \in Ids
                     /\ request'[q].at \in {"create", "update"} => request'[q].write \in Schedule
    <2> DEFINE state == [at |-> step, id |-> e, write |-> s]
    <2>1. state \in RequestState /\ state.at = step /\ state.id = e /\ state.write = s
      BY DEF RequestState
    <2>2. request' = [request EXCEPT ![r] = state]
      BY <1>3 DEF Goto
    <2> HIDE DEF state
    <2>3. QED
      BY <1>w, <1>3, <2>1, <2>2
  <1>4. QED
    BY <1>1, <1>2, <1>3

\* What the steps of a request and of the other components write to one event.
LEMMA EventWrites ==
  ASSUME RowsSound,
         \/ \E r \in Requests : RequestStep(r)
         \/ \E e \in Ids : EventStep(e)
  PROVE  \/ event' = event
         \/ \E e \in Ids, s \in Schedule : CreateEvent(e, s) \/ UpdateEvent(e, s)
         \/ \E e \in Ids : CancelEvent(e) \/ EventStep(e)
  BY DEF RowsSound, RequestStep, CheckCreate, ReadForUpdate, ReadForCancel, Create, Update,
         Cancel, Abandon

LEMMA WritesSound ==
  ASSUME RowsSound,
         \/ event' = event
         \/ \E e \in Ids, s \in Schedule : CreateEvent(e, s) \/ UpdateEvent(e, s)
         \/ \E e \in Ids : CancelEvent(e) \/ EventStep(e)
  PROVE  /\ event' \in [Ids -> Row]
         /\ \A e \in Ids : event'[e].available <= event'[e].total
         /\ \A e \in Ids : event'[e].status # "none" => event'[e].starts \in 1..MaxTime
  <1> USE EventsAssumption DEF RowsSound
  <1>w. ASSUME NEW e \in Ids, NEW row \in Row, event' = [event EXCEPT ![e] = row],
               row.available <= row.total, row.status # "none" => row.starts \in 1..MaxTime
        PROVE  /\ event' \in [Ids -> Row]
               /\ \A d \in Ids : event'[d].available <= event'[d].total
               /\ \A d \in Ids : event'[d].status # "none" => event'[d].starts \in 1..MaxTime
    BY <1>w
  <1>1. CASE event' = event
    BY <1>1
  <1>s. ASSUME NEW s \in Schedule
        PROVE  /\ s.starts \in 1..MaxTime /\ s.duration \in 0..MaxDuration
               /\ s.total \in 1..MaxTickets /\ EndsAt(s) \in 0..(MaxTime + MaxDuration)
    BY DEF Schedule, EndsAt
  <1>2. ASSUME NEW e \in Ids, NEW s \in Schedule, CreateEvent(e, s)
        PROVE  \E row \in Row : /\ event' = [event EXCEPT ![e] = row]
                                /\ row.available <= row.total
                                /\ row.starts \in 1..MaxTime
    <2> DEFINE row == [status |-> "upcoming", starts |-> s.starts, duration |-> s.duration,
                       ends |-> EndsAt(s), total |-> s.total, available |-> s.total]
    <2>1. event' = [event EXCEPT ![e] = row]
      BY <1>2 DEF CreateEvent
    <2>2. row \in Row
      BY <1>s DEF Row, Status
    <2>3. row.available <= row.total /\ row.starts \in 1..MaxTime
      BY <1>s
    <2> HIDE DEF row
    <2>4. QED
      BY <2>1, <2>2, <2>3
  <1>3. ASSUME NEW e \in Ids, NEW s \in Schedule, UpdateEvent(e, s)
        PROVE  \E row \in Row : /\ event' = [event EXCEPT ![e] = row]
                                /\ row.available <= row.total
                                /\ row.starts \in 1..MaxTime
    <2> DEFINE left == s.total - Reserved(e)
               row == [event[e] EXCEPT !.starts = s.starts, !.duration = s.duration,
                                       !.ends = EndsAt(s), !.total = s.total,
                                       !.available = left]
    <2>1. event' = [event EXCEPT ![e] = row]
      BY <1>3 DEF UpdateEvent
    <2>2. /\ event[e].total \in 0..MaxTickets /\ event[e].available \in 0..MaxTickets
          /\ event[e].available <= event[e].total
      BY DEF Row
    <2>u. Updatable(e, s)
      BY <1>3 DEF UpdateEvent
    <2>3. left \in 0..s.total /\ left \in 0..MaxTickets
      <3>1. s.total \in Int /\ event[e].total \in Int /\ event[e].available \in Int
        BY <1>s, <2>2
      <3>2. 0 <= left /\ left <= s.total /\ left \in Int
        BY <2>2, <2>u, <3>1 DEF Updatable, Reserved
      <3> HIDE DEF left
      <3>3. QED
        BY <1>s, <3>2
    <2> HIDE DEF left
    <2>4. row \in Row
      <3>1. s.total \in 0..MaxTickets /\ s.starts \in 0..MaxTime
        BY <1>s
      <3>2. event[e] \in Row
        OBVIOUS
      <3>3. ASSUME NEW old \in Row
            PROVE  [old EXCEPT !.starts = s.starts, !.duration = s.duration,
                               !.ends = EndsAt(s), !.total = s.total, !.available = left] \in Row
        BY <1>s, <2>3, <3>1 DEF Row
      <3>4. QED
        BY <3>2, <3>3
    <2>5. row.available = left /\ row.total = s.total /\ row.starts = s.starts
      <3>1. ASSUME NEW old \in Row, NEW new,
                   new = [old EXCEPT !.starts = s.starts, !.duration = s.duration,
                               !.ends = EndsAt(s), !.total = s.total, !.available = left]
            PROVE  new.available = left /\ new.total = s.total /\ new.starts = s.starts
        BY <3>1 DEF Row
      <3>2. QED
        BY <3>1
    <2> HIDE DEF row
    <2>6. QED
      <3>1. row.available <= row.total /\ row.starts \in 1..MaxTime
        BY <1>s, <2>3, <2>5
      <3>2. QED
        BY <2>1, <2>4, <3>1, Zenon
  <1>4. ASSUME NEW e \in Ids, CancelEvent(e) \/ MoveEvent(e)
        PROVE  \E row \in Row : /\ event' = [event EXCEPT ![e] = row]
                                /\ row.available <= row.total
                                /\ row.status # "none" => row.starts \in 1..MaxTime
    <2>1. PICK status \in {"cancelled", "live", "ended"} :
             event' = [event EXCEPT ![e].status = status] /\ event[e].status # "none"
      BY <1>4 DEF CancelEvent, MoveEvent
    <2>2. [event[e] EXCEPT !.status = status] \in Row
      BY DEF Row, Status
    <2>3. QED
      BY <2>1, <2>2 DEF Row
  <1>5. ASSUME NEW e \in Ids, ReserveEventTicket(e) \/ ReleaseEventTicket(e)
        PROVE  \E row \in Row : /\ event' = [event EXCEPT ![e] = row]
                                /\ row.available <= row.total
                                /\ row.status # "none" => row.starts \in 1..MaxTime
    <2>1. /\ event[e].total \in 0..MaxTickets /\ event[e].available \in 0..MaxTickets
          /\ event[e].available <= event[e].total
          /\ event[e].status # "none" => event[e].starts \in 1..MaxTime
      BY DEF Row
    <2>2. ASSUME NEW n \in 0..event[e].total, event' = [event EXCEPT ![e].available = n]
          PROVE  \E row \in Row : /\ event' = [event EXCEPT ![e] = row]
                                  /\ row.available <= row.total
                                  /\ row.status # "none" => row.starts \in 1..MaxTime
      <3> DEFINE row == [event[e] EXCEPT !.available = n]
      <3>1. n \in 0..MaxTickets
        BY <2>1
      <3>2. row \in Row
        BY <3>1 DEF Row
      <3>3. /\ row.available = n /\ row.total = event[e].total
            /\ row.status = event[e].status /\ row.starts = event[e].starts
        BY DEF Row
      <3>4. event' = [event EXCEPT ![e] = row]
        BY <2>2
      <3> HIDE DEF row
      <3>5. row.available <= row.total
        BY <2>1, <3>1, <3>3
      <3>6. QED
        BY <2>1, <3>2, <3>3, <3>4, <3>5, Zenon
    <2>3. CASE ReserveEventTicket(e)
      <3>1. event[e].available - 1 \in 0..event[e].total
        BY <2>1, <2>3 DEF ReserveEventTicket
      <3>2. event' = [event EXCEPT ![e].available = event[e].available - 1]
        BY <2>3 DEF ReserveEventTicket
      <3>3. QED
        BY <2>2, <3>1, <3>2
    <2>4. CASE ReleaseEventTicket(e)
      <3>1. event[e].available + 1 \in 0..event[e].total
        BY <2>1, <2>4 DEF ReleaseEventTicket
      <3>2. event' = [event EXCEPT ![e].available = event[e].available + 1]
        BY <2>4 DEF ReleaseEventTicket
      <3>3. QED
        BY <2>2, <3>1, <3>2
    <2>5. QED
      BY <1>5, <2>3, <2>4
  <1>6. QED
    BY <1>w, <1>1, <1>2, <1>3, <1>4, <1>5 DEF EventStep

LEMMA RowsStep ==
  ASSUME RowsSound,
         \/ \E r \in Requests : RequestStep(r)
         \/ \E e \in Ids : EventStep(e)
  PROVE  RowsSound'
  <1>1. /\ event' \in [Ids -> Row]
        /\ \A e \in Ids : event'[e].available <= event'[e].total
        /\ \A e \in Ids : event'[e].status # "none" => event'[e].starts \in 1..MaxTime
    BY EventWrites, WritesSound
  <1>2. CASE \E e \in Ids : EventStep(e)
    BY <1>1, <1>2 DEF EventStep, ReserveEventTicket, ReleaseEventTicket, MoveEvent, RowsSound
  <1>3. ASSUME NEW r \in Requests, RequestStep(r)
        PROVE  RowsSound'
    <2>1. \/ Return(r)
          \/ \E e \in Ids, s \in Schedule : Goto(r, "create", e, s) \/ Goto(r, "update", e, s)
          \/ \E e \in Ids : Goto(r, "cancel", e, NoWrite)
      BY <1>3 DEF RequestStep, CheckCreate, ReadForUpdate, ReadForCancel, Create, Update,
                  Cancel, Abandon, ValidateSchedule
    <2>2. QED
      BY <1>1, <2>1, RequestMoves DEF RowsSound
  <1>4. QED
    BY <1>2, <1>3

-----------------------------------------------------------------------------
(***************************************************************************)
(* The list.                                                               *)
(***************************************************************************)

\* The inductive invariant.  Beyond the types and PagesCover: the rows the list owes
\* are rows that match.
EventsInv ==
    /\ RowsSound
    /\ cursor \in {L!First, L!Last} \cup ((1..MaxTime) \X Ids)
    /\ listed \in SUBSET ((1..MaxTime) \X Ids)
    /\ steady \in SUBSET Upcoming
    /\ L!PagesCover

\* The rows of the list are positions that come after First, and there are finitely many.
LEMMA UpcomingSound ==
  ASSUME RowsSound
  PROVE  /\ Upcoming \in SUBSET ((1..MaxTime) \X Ids)
         /\ Upcoming \in SUBSET (Nat \X Nat)
         /\ IsFiniteSet(Upcoming)
  <1>1. Upcoming \in SUBSET ((1..MaxTime) \X Ids)
    BY DEF RowsSound, Upcoming
  <1>2. IsFiniteSet((1..MaxTime) \X Ids)
    <2>1. MaxTime \in Int /\ IsFiniteSet(Ids) /\ 1 \in Int
      BY EventsAssumption
    <2>2. IsFiniteSet(1..MaxTime)
      BY <2>1, FS_Interval
    <2>3. QED
      BY <2>1, <2>2, FS_Product
  <1>3. (1..MaxTime) \X Ids \subseteq Nat \X Nat
    <2>1. 1..MaxTime \subseteq Nat /\ Ids \subseteq Nat
      BY EventsAssumption
    <2>2. QED
      BY <2>1
  <1>4. QED
    BY <1>1, <1>2, <1>3, FS_Subset

\* Where a position of the list stands.
LEMMA Positions ==
  /\ L!First \in Int \X Int /\ L!Last \in Int \X Int /\ L!First # L!Last
  /\ \A row \in (1..MaxTime) \X Ids :
        row \in Int \X Int /\ row # L!Last /\ L!After(row, L!First)
  <1>1. L!First = <<0, 0>> /\ L!Last = <<-1, -1>>
    BY DEF L!First, L!Last
  <1>2. ASSUME NEW row \in (1..MaxTime) \X Ids
        PROVE  row \in Int \X Int /\ row # L!Last /\ L!After(row, L!First)
    <2>1. row[1] \in Int /\ row[1] > 0 /\ row[2] \in Int /\ row = <<row[1], row[2]>>
      <3>1. row[1] \in 1..MaxTime /\ row[2] \in Ids /\ row = <<row[1], row[2]>>
        OBVIOUS
      <3>2. \A k \in 1..MaxTime : k \in Int /\ k > 0
        <4>1. MaxTime \in Int
          BY EventsAssumption
        <4>2. QED
          BY <4>1
      <3>3. QED
        <4>1. \A i \in Ids : i \in Int
          BY EventsAssumption
        <4>2. QED
          BY <3>1, <3>2, <4>1
    <2>2. QED
      BY <1>1, <2>1 DEF L!After
  <1>3. QED
    BY <1>1, <1>2

\* What is fetched is the first rows of those past the cursor.
LEMMA FetchIsFirst ==
  ASSUME NEW n
  PROVE  L!Fetch(n) = FirstOf(L!Past, n)
  BY SameCardinality DEF L!Fetch, FirstOf, Before

\* The next cursor: through with the list when the page holds all that is left of it,
\* and else the last row of the page.
LEMMA CursorMoves ==
  ASSUME RowsSound
  PROVE  LET page == L!Fetch(PageSize)
             next == L!NextCursor(L!Fetch(PageSize + 1))
         IN  \/ next = L!Last /\ page = L!Past
             \/ next \in page /\ \A q \in page : ~L!After(q, next)
  <1> DEFINE page == L!Fetch(PageSize)
             ahead == L!Fetch(PageSize + 1)
             next == L!NextCursor(ahead)
  <1>1. L!Past \in SUBSET (Nat \X Nat) /\ IsFiniteSet(L!Past)
    BY UpcomingSound, FS_Subset DEF L!Past
  <1>2. page = FirstOf(L!Past, PageSize) /\ ahead = FirstOf(L!Past, PageSize + 1)
    BY FetchIsFirst
  <1>3. PageSize \in Nat \ {0} /\ PageSize + 1 \in Nat \ {0}
    BY EventsAssumption
  <1>4. next = IF Cardinality(ahead) <= PageSize THEN L!Last
               ELSE CHOOSE row \in page : \A q \in page : ~L!After(q, row)
    BY SameCardinality DEF L!NextCursor
  <1> HIDE DEF page, ahead, next
  <1>5. CASE Cardinality(ahead) <= PageSize
    <2>1. page = L!Past
      BY <1>1, <1>2, <1>3, <1>5, ShortPageIsLast
    <2>2. QED
      BY <1>4, <1>5, <2>1 DEF page, next, ahead
  <1>6. CASE ~(Cardinality(ahead) <= PageSize)
    <2>1. L!Past # {}
      <3>1. SUFFICES ASSUME L!Past = {} PROVE FALSE
        OBVIOUS
      <3>2. ahead = {}
        BY <1>2, <3>1 DEF FirstOf
      <3>3. QED
        BY <1>3, <1>6, <3>2, FS_EmptySet
    <2>2. \E row \in page : \A q \in page : ~L!After(q, row)
      BY <1>1, <1>2, <1>3, <2>1, PageEnds
    <2>3. next \in page /\ \A q \in page : ~L!After(q, next)
      BY <1>4, <1>6, <2>2
    <2>4. QED
      BY <2>3 DEF page, next, ahead
  <1>7. QED
    BY <1>5, <1>6

LEMMA BeginKeeps ==
  ASSUME EventsInv, L!Begin, UNCHANGED rowVars
  PROVE  EventsInv'
  <1>1. RowsSound' /\ Upcoming' = Upcoming
    BY DEF EventsInv, RowsSound, rowVars, Upcoming
  <1>2. cursor' = L!First /\ listed' = {} /\ steady' = Upcoming
    BY DEF L!Begin
  <1>3. L!PagesCover'
    BY <1>2, UpcomingSound, Positions DEF EventsInv, L!PagesCover
  <1>4. QED
    BY <1>1, <1>2, <1>3 DEF EventsInv

LEMMA ListKeeps ==
  ASSUME EventsInv, L!List, UNCHANGED rowVars
  PROVE  EventsInv'
  <1> DEFINE page == L!Fetch(PageSize)
             next == L!NextCursor(L!Fetch(PageSize + 1))
  <1>1. RowsSound /\ RowsSound' /\ Upcoming' = Upcoming
    BY DEF EventsInv, RowsSound, rowVars, Upcoming
  <1>2. cursor # L!Last /\ cursor' = next /\ listed' = listed \cup page /\ steady' = steady
    BY DEF L!List
  <1>3. \/ next = L!Last /\ page = L!Past
        \/ next \in page /\ \A q \in page : ~L!After(q, next)
    BY <1>1, CursorMoves
  <1>4. /\ Upcoming \in SUBSET ((1..MaxTime) \X Ids)
        /\ L!Past \in SUBSET (Nat \X Nat) /\ IsFiniteSet(L!Past)
        /\ page \in SUBSET L!Past
        /\ \A row \in Upcoming : row \in L!Past <=> L!After(row, cursor)
        /\ L!Past \in SUBSET Upcoming
    BY <1>1, UpcomingSound, FS_Subset DEF L!Past, L!Fetch
  <1>5. page = FirstOf(L!Past, PageSize) /\ PageSize \in Nat
    BY FetchIsFirst, EventsAssumption
  <1>6. /\ steady \in SUBSET Upcoming /\ listed \in SUBSET ((1..MaxTime) \X Ids)
        /\ cursor \in {L!First, L!Last} \cup ((1..MaxTime) \X Ids)
        /\ \A row \in listed : ~L!After(row, cursor)
        /\ \A row \in steady : ~L!After(row, cursor) => row \in listed
    BY <1>2 DEF EventsInv, L!PagesCover
  <1> HIDE DEF page, next
  <1>7. CASE next = L!Last /\ page = L!Past
    <2>1. \A row \in steady : row \in listed'
      BY <1>2, <1>4, <1>6, <1>7
    <2>2. L!PagesCover'
      BY <1>2, <1>7, <2>1 DEF L!PagesCover
    <2>3. QED
      BY <1>1, <1>2, <1>4, <1>6, <1>7, <2>2 DEF EventsInv
  <1>8. CASE next \in page /\ \A q \in page : ~L!After(q, next)
    <2>1. next \in (1..MaxTime) \X Ids /\ next # L!Last /\ L!After(next, cursor)
      BY <1>4, <1>8, Positions
    <2>2. \A row \in listed : ~L!After(row, next)
      BY <1>6, <2>1, Positions, AfterOrders
    <2>3. \A row \in steady : ~L!After(row, next) => row \in listed \cup page
      BY <1>4, <1>5, <1>6, <1>8, PageClosed
    <2>4. L!PagesCover'
      BY <1>2, <1>8, <2>1, <2>2, <2>3 DEF L!PagesCover
    <2>5. QED
      BY <1>1, <1>2, <1>4, <1>6, <2>1, <2>4 DEF EventsInv
  <1>9. QED
    BY <1>3, <1>7, <1>8

LEMMA WatchKeeps ==
  ASSUME EventsInv, RowsSound', L!Watch
  PROVE  EventsInv'
  <1>1. /\ cursor' = cursor
        /\ \/ cursor = L!Last /\ steady' = {} /\ listed' = {}
           \/ cursor # L!Last /\ steady' = steady \cap Upcoming' /\ listed' = listed
    BY DEF L!Watch
  <1>2. L!PagesCover'
    BY <1>1 DEF EventsInv, L!PagesCover
  <1>3. QED
    BY <1>1, <1>2 DEF EventsInv

\* EventsInv is an invariant.
THEOREM Invariant == Spec => []EventsInv
  <1>1. Init => EventsInv
    <2> SUFFICES ASSUME Init PROVE EventsInv
      OBVIOUS
    <2>1. cursor = L!Last /\ listed = {} /\ steady = {}
      BY DEF Init, L!Init
    <2>2. QED
      BY <2>1, InitRows DEF EventsInv, L!PagesCover
  <1>2. EventsInv /\ [Next]_vars => EventsInv'
    <2> SUFFICES ASSUME EventsInv, [Next]_vars PROVE EventsInv'
      OBVIOUS
    <2>1. CASE (\E r \in Requests : RequestStep(r)) /\ L!Watch
      BY <2>1, RowsStep, WatchKeeps DEF EventsInv
    <2>2. CASE (\E e \in Ids : EventStep(e)) /\ L!Watch
      BY <2>2, RowsStep, WatchKeeps DEF EventsInv
    <2>3. CASE L!Begin /\ UNCHANGED rowVars
      BY <2>3, BeginKeeps
    <2>4. CASE L!List /\ UNCHANGED rowVars
      BY <2>4, ListKeeps
    <2>5. CASE UNCHANGED vars
      BY <2>5 DEF vars, EventsInv, RowsSound, Upcoming, L!PagesCover
    <2>6. QED
      BY <2>1, <2>2, <2>3, <2>4, <2>5 DEF Next
  <1>3. QED
    BY <1>1, <1>2, PTL DEF Spec

\* Every variable has its type (createEvent, updateEvent, cancelEvent, listEvents).
THEOREM TypeCorrect == Spec => []TypeOK
  <1>1. EventsInv => TypeOK
    BY UpcomingSound DEF EventsInv, RowsSound, TypeOK
  <1>2. QED
    BY <1>1, Invariant, PTL

\* However the rows change between the pages, a client that is through with the list
\* was given every event that matched and did not move since it began (List).
THEOREM ListMissesNothing == Spec => []ListingCovers
  <1>1. EventsInv => ListingCovers
    BY DEF EventsInv, ListingCovers
  <1>2. QED
    BY <1>1, Invariant, PTL

-----------------------------------------------------------------------------
(***************************************************************************)
(* What a step may never do to an event.                                   *)
(***************************************************************************)

\* The formula of HostsMindTheSold, of one event before and after a step.
Minded(old, new) ==
    /\ old.status \notin {"none", "upcoming"} =>
          [new EXCEPT !.status = old.status, !.available = old.available] = old
    /\ old.status \in {"cancelled", "ended"} => new.status = old.status
    /\ old.status = "live" => new.status \in {"live", "ended"}
    /\ old.status # "none" /\ new.total # old.total =>
          new.total - new.available = old.total - old.available

\* What the queries write to a row, and that each of them minds what was sold.
LEMMA WriteMinds ==
  ASSUME NEW old \in Row, NEW new,
         \/ new = old
         \/ old.status = "none"
         \/ /\ old.status = "upcoming"
            /\ new.total - new.available = old.total - old.available
         \/ \E n \in Int : new = [old EXCEPT !.available = n]
         \/ \E status \in Status :
               /\ new = [old EXCEPT !.status = status]
               /\ old.status \in {"upcoming", "live"}
               /\ old.status = "live" => status = "ended"
  PROVE  Minded(old, new)
  <1>1. CASE new = old
    BY <1>1 DEF Minded, Row
  <1>2. CASE old.status = "none"
    BY <1>2 DEF Minded
  <1>3. CASE /\ old.status = "upcoming"
             /\ new.total - new.available = old.total - old.available
    BY <1>3 DEF Minded
  <1>4. ASSUME NEW n \in Int, new = [old EXCEPT !.available = n]
        PROVE  Minded(old, new)
    BY <1>4 DEF Minded, Row
  <1>5. ASSUME NEW status \in Status,
               new = [old EXCEPT !.status = status],
               old.status \in {"upcoming", "live"},
               old.status = "live" => status = "ended"
        PROVE  Minded(old, new)
    BY <1>5 DEF Minded, Row
  <1>6. QED
    BY <1>1, <1>2, <1>3, <1>4, <1>5

LEMMA StepMinds ==
  ASSUME RowsSound, NEW e \in Ids,
         \/ event' = event
         \/ \E d \in Ids, s \in Schedule : CreateEvent(d, s) \/ UpdateEvent(d, s)
         \/ \E d \in Ids : CancelEvent(d) \/ EventStep(d)
  PROVE  Minded(event[e], event'[e])
  <1> DEFINE old == event[e]
             new == event'[e]
  <1> USE DEF RowsSound
  <1>1. old \in Row
    OBVIOUS
  <1>2. ASSUME NEW d \in Ids, NEW row, event' = [event EXCEPT ![d] = row], d # e
        PROVE  new = old
    BY <1>2
  <1>3. ASSUME NEW s \in Schedule, CreateEvent(e, s) \/ UpdateEvent(e, s)
        PROVE  \/ old.status = "none"
               \/ /\ old.status = "upcoming"
                  /\ new.total - new.available = old.total - old.available
    <2>1. CASE CreateEvent(e, s)
      BY <2>1 DEF CreateEvent
    <2>2. CASE UpdateEvent(e, s)
      <3>1. old.status = "upcoming"
        BY <2>2 DEF UpdateEvent, Updatable
      <3>2. new.total = s.total /\ new.available = s.total - Reserved(e)
        <4> DEFINE left == s.total - Reserved(e)
                   after == [old EXCEPT !.starts = s.starts, !.duration = s.duration,
                                  !.ends = EndsAt(s), !.total = s.total, !.available = left]
        <4>2. event' = [event EXCEPT ![e] = after]
          BY <2>2 DEF UpdateEvent
        <4>3. new = after
          <5> HIDE DEF after
          <5>1. QED
            BY <4>2
        <4>4. after.total = s.total /\ after.available = left
          <5>1. {"total", "available"} \subseteq DOMAIN old
            BY <1>1 DEF Row
          <5> HIDE DEF left, old, RowsSound
          <5>2. QED
            BY <5>1
        <4> HIDE DEF after, new
        <4>5. QED
          BY <4>3, <4>4
      <3>3. s.total \in Int /\ old.total \in Int /\ old.available \in Int
        BY <1>1, EventsAssumption DEF Schedule, Row
      <3>4. QED
        BY <3>1, <3>2, <3>3 DEF Reserved
    <2>3. QED
      BY <1>3, <2>1, <2>2
  <1>4. ASSUME ReserveEventTicket(e) \/ ReleaseEventTicket(e)
        PROVE  \E n \in Int : new = [old EXCEPT !.available = n]
    <2>1. old.available \in Int
      BY <1>1, EventsAssumption DEF Row
    <2>2. ASSUME NEW n \in Int, event' = [event EXCEPT ![e].available = n]
          PROVE  new = [old EXCEPT !.available = n]
      BY <2>2
    <2>3. PICK n \in Int : event' = [event EXCEPT ![e].available = n]
      <3>1. old.available - 1 \in Int /\ old.available + 1 \in Int
        BY <2>1
      <3>2. \/ event' = [event EXCEPT ![e].available = old.available - 1]
            \/ event' = [event EXCEPT ![e].available = old.available + 1]
        BY <1>4 DEF ReserveEventTicket, ReleaseEventTicket
      <3>3. QED
        BY <3>1, <3>2, Zenon
    <2>4. QED
      BY <2>2, <2>3
  <1>5. ASSUME CancelEvent(e) \/ MoveEvent(e)
        PROVE  \E status \in Status :
                  /\ new = [old EXCEPT !.status = status]
                  /\ old.status \in {"upcoming", "live"}
                  /\ old.status = "live" => status = "ended"
    BY <1>5 DEF CancelEvent, MoveEvent, Status
  <1>6. \/ new = old
        \/ \E s \in Schedule : CreateEvent(e, s) \/ UpdateEvent(e, s)
        \/ CancelEvent(e) \/ MoveEvent(e)
        \/ ReserveEventTicket(e) \/ ReleaseEventTicket(e)
    <2>1. CASE event' = event
      BY <2>1
    <2>2. ASSUME NEW d \in Ids, d # e,
                 \/ \E s \in Schedule : CreateEvent(d, s) \/ UpdateEvent(d, s)
                 \/ CancelEvent(d) \/ EventStep(d)
          PROVE  new = old
      BY <1>2, <2>2 DEF CreateEvent, UpdateEvent, CancelEvent, EventStep, ReserveEventTicket,
                        ReleaseEventTicket, MoveEvent
    <2>3. QED
      BY <2>1, <2>2 DEF EventStep
  <1> HIDE DEF old, new
  <1>7. Minded(old, new)
    BY <1>1, <1>3, <1>4, <1>5, <1>6, WriteMinds
  <1>8. QED
    BY <1>7 DEF old, new

\* Whatever a host's request read, it never takes back a slot that was sold nor
\* touches an event that has gone live or been cancelled (Update, Cancel).
THEOREM SoldIsMinded == Spec => HostsMindTheSold
  <1>1. ASSUME EventsInv, [Next]_vars
        PROVE  \A e \in Ids : Minded(event[e], event'[e])
    <2>1. \/ event' = event
          \/ \E r \in Requests : RequestStep(r)
          \/ \E e \in Ids : EventStep(e)
      BY <1>1 DEF Next, vars, rowVars
    <2>2. QED
      BY <1>1, <2>1, EventWrites, StepMinds DEF EventsInv
  <1>2. EventsInv /\ [Next]_vars =>
           [\A e \in Ids :
              LET old == event[e]
                  new == event'[e]
              IN  /\ old.status \notin {"none", "upcoming"} =>
                        [new EXCEPT !.status = old.status, !.available = old.available] = old
                  /\ old.status \in {"cancelled", "ended"} => new.status = old.status
                  /\ old.status = "live" => new.status \in {"live", "ended"}
                  /\ old.status # "none" /\ new.total # old.total =>
                        new.total - new.available = old.total - old.available]_vars
    BY <1>1, Zenon DEF Minded
  <1>3. QED
    BY <1>2, Invariant, PTL DEF Spec, HostsMindTheSold
=============================================================================
