----------------------------- MODULE MCTicketing -----------------------------
(***************************************************************************)
(* Instances of Ticketing for TLC: who owns which key and which requests   *)
(* carry it.  A cfg picks one definition for each constant.                *)
(***************************************************************************)
EXTENDS TicketingPromises, TLC

CONSTANTS u1, u2, k1, k2, r1, r2

\* One account that retries with a second key.
RetryOwner == k1 :> u1 @@ k2 :> u1
RetryKey   == r1 :> k1 @@ r2 :> k2

\* Two accounts that race for the slots.
RaceOwner == k1 :> u1 @@ k2 :> u2
RaceKey   == r1 :> k1 @@ r2 :> k2

\* The database answers every read: what leaks then needs no error.
ReliableSpec == Init /\ [][Next /\ \A r \in Requests : ~ReservationUnread(r)]_vars
=============================================================================
