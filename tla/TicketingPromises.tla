--------------------------- MODULE TicketingPromises ---------------------------
(***************************************************************************)
(* What Ticketing promises its users, as implementations of two abstract   *)
(* specifications.                                                         *)
(*                                                                         *)
(* Admission: the membership rows say who is in, and the capacity is       *)
(* events.total_tickets.  Repayment: the paid purchases are the payments,  *)
(* and the refund rows the refunds.  Everything else is a stutter.         *)
(***************************************************************************)
EXTENDS Ticketing

Adm == INSTANCE Admission WITH
    MaxCapacity <- MaxTickets,
    admitted    <- {u \in Users : member[u] = "active"},
    withdrawn   <- {u \in Users : member[u] = "revoked"},
    capacity    <- total,
    failed      <- (stage = "failed")

Rep == INSTANCE Repayment WITH
    Buyers <- Users,
    held   <- {u \in Users : purchase[u].status = "paid"}

\* Whatever requests, callbacks, sweeps, refunds and hosts do, and in whatever
\* order, the members of an event are let in and withdrawn as Admission allows:
\* the capacity is never exceeded although the guard that keeps it is on
\* available_tickets when the slot is reserved, long before the member is let in.
ImplementsAdmission == Adm!Spec

\* However attempts, late callbacks, sweeps and refunds race on the one row of an
\* account, its payments are taken and returned as Repayment allows: although the
\* row is reopened for every attempt and the refund's row is not, nobody pays over
\* a refund that is under way, and no payment is lost sight of.
ImplementsRepayment == Rep!Spec
=============================================================================
