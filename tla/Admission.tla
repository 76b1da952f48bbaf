------------------------------ MODULE Admission ------------------------------
(***************************************************************************)
(* What a ticketed event promises about who may watch it, without          *)
(* reservations, charges, callbacks or rows: nobody is let in beyond the   *)
(* capacity, nobody is let in twice, and who is in stays in unless the     *)
(* stream failed, when the money goes back and the place is not resold.    *)
(* Ticketing implements it (TicketingPromises).                            *)
(***************************************************************************)
EXTENDS Integers, FiniteSets

CONSTANTS
    Users,        \* accounts
    MaxCapacity   \* bound on the capacity

VARIABLES
    admitted,     \* accounts that may watch
    withdrawn,    \* accounts that were refunded and may not any more
    capacity,     \* places the host offers
    failed        \* whether the stream failed

admissionVars == <<admitted, withdrawn, capacity, failed>>

Seated == admitted \cup withdrawn

Init ==
    /\ admitted = {}
    /\ withdrawn = {}
    /\ capacity \in 1..MaxCapacity
    /\ failed = FALSE

Admit(u) ==
    /\ u \notin Seated
    /\ Cardinality(Seated) < capacity
    /\ admitted' = admitted \cup {u}
    /\ UNCHANGED <<withdrawn, capacity, failed>>

Withdraw(u) ==
    /\ failed
    /\ u \in admitted
    /\ admitted' = admitted \ {u}
    /\ withdrawn' = withdrawn \cup {u}
    /\ UNCHANGED <<capacity, failed>>

Resize(n) ==
    /\ n >= Cardinality(Seated)
    /\ capacity' = n
    /\ UNCHANGED <<admitted, withdrawn, failed>>

Fail ==
    /\ failed' = TRUE
    /\ UNCHANGED <<admitted, withdrawn, capacity>>

Next ==
    \/ \E u \in Users : Admit(u) \/ Withdraw(u)
    \/ \E n \in 1..MaxCapacity : Resize(n)
    \/ Fail

Spec == Init /\ [][Next]_admissionVars
=============================================================================
