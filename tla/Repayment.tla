------------------------------- MODULE Repayment -------------------------------
(***************************************************************************)
(* What the platform promises a buyer about the money, without purchases   *)
(* that are retried, callers that race, leases, batches or payouts: a      *)
(* payment is given up only by paying it back, it is paid back only after  *)
(* that was put on record, and of a buyer's payments at most one ever is.  *)
(* Ticketing and Refunds, which each carry the rows of event_refunds       *)
(* through another part of the system, both implement it.                  *)
(***************************************************************************)
CONSTANT Buyers   \* who may pay, one purchase row each

VARIABLES
    held,         \* buyers whose payment the platform has
    refund        \* each buyer's refund: none, on record, or done

repaymentVars == <<held, refund>>

Init ==
    /\ held \in SUBSET Buyers
    /\ refund = [b \in Buyers |-> "none"]

\* Nobody pays twice, or pays again while the first payment is on its way back.
Pay(b) ==
    /\ b \notin held
    /\ refund[b] # "processing"
    /\ held' = held \cup {b}
    /\ UNCHANGED refund

Promise(b) ==
    /\ b \in held
    /\ refund[b] = "none"
    /\ refund' = [refund EXCEPT ![b] = "processing"]
    /\ UNCHANGED held

Repay(b) ==
    /\ b \in held
    /\ refund[b] = "processing"
    /\ refund' = [refund EXCEPT ![b] = "refunded"]
    /\ held' = held \ {b}

Next == \E b \in Buyers : Pay(b) \/ Promise(b) \/ Repay(b)

Spec == Init /\ [][Next]_repaymentVars
=============================================================================
