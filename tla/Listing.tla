------------------------------- MODULE Listing -------------------------------
(***************************************************************************)
(* The paged lists of events, crews, refunds and payouts: one client walks *)
(* a list from its first page to its last while the rows change.           *)
(*                                                                         *)
(* A row is <<sort key, id>>.  A page is the first rows past the cursor in *)
(* that order, and one row more is fetched to tell whether another page    *)
(* follows; the cursor is the position of the last row of the page.        *)
(***************************************************************************)
EXTENDS Integers, FiniteSets

CONSTANT PageSize   \* rows on a page, at least one

VARIABLES
    table,      \* the rows the list's filter matches
    cursor,     \* the position the client resumes from
    listed,     \* the rows it was given
    steady      \* history: the rows that matched, unmoved, since the first page

listing == <<cursor, listed, steady>>

\* No cursor yet, before every row, and no cursor any more.
First == <<0, 0>>
Last == <<-1, -1>>

\* (sort key, id) > cursor, as the queries compare them.
After(row, position) ==
    row[1] > position[1] \/ (row[1] = position[1] /\ row[2] > position[2])

Past == {row \in table : After(row, cursor)}

\* ORDER BY sort key, id LIMIT n.
Fetch(n) == {row \in Past : Cardinality({q \in Past : After(row, q)}) < n}

\* Mutation of NextCursor: the cursor is the position of the row fetched to look ahead.
NextCursorAhead(rows) ==
    IF Cardinality(rows) <= PageSize THEN Last
    ELSE CHOOSE row \in rows : \A q \in rows : ~After(q, row)

\* A short page ends the list; a full one resumes from its last row.
NextCursor(rows) ==
    IF Cardinality(rows) <= PageSize THEN Last
    ELSE CHOOSE row \in Fetch(PageSize) : \A q \in Fetch(PageSize) : ~After(q, row)

Init ==
    /\ cursor = Last
    /\ listed = {}
    /\ steady = {}

\* The client asks for the first page.
Begin ==
    /\ cursor = Last
    /\ cursor' = First
    /\ listed' = {}
    /\ steady' = table

\* List: the next page, of the rows as they are now.
List ==
    /\ cursor # Last
    /\ listed' = listed \cup Fetch(PageSize)
    /\ cursor' = NextCursor(Fetch(PageSize + 1))
    /\ UNCHANGED steady

\* Any other step: a row that appears, goes or moves is not one the list owes.  A
\* client that is through forgets the list.
Watch ==
    /\ steady' = IF cursor = Last THEN {} ELSE steady \cap table'
    /\ listed' = IF cursor = Last THEN {} ELSE listed
    /\ UNCHANGED cursor

-----------------------------------------------------------------------------
\* Between pages the client has every steady row up to its cursor and nothing past
\* it, so no row is given twice unless it moved; at the end it has them all,
\* whatever was inserted, moved or dropped out meanwhile.
PagesCover ==
    /\ cursor # Last => \A row \in listed : ~After(row, cursor)
    /\ \A row \in steady : cursor = Last \/ ~After(row, cursor) => row \in listed
=============================================================================
