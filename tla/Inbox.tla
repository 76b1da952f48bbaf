---------------------------------- MODULE Inbox ----------------------------------
(***************************************************************************)
(* What internal/webhooks promises the domains: a provider callback is     *)
(* applied at most once, and one that was given up is never applied later. *)
(* It does not promise that every callback is applied.                     *)
(***************************************************************************)
CONSTANT Events   \* provider event ids

VARIABLE fate     \* what became of each callback

Fates == {"pending", "applied", "dropped"}

Init == fate = [e \in Events |-> "pending"]

Apply(e) == fate[e] = "pending" /\ fate' = [fate EXCEPT ![e] = "applied"]
Drop(e) == fate[e] = "pending" /\ fate' = [fate EXCEPT ![e] = "dropped"]

Next == \E e \in Events : Apply(e) \/ Drop(e)

Spec == Init /\ [][Next]_fate
=============================================================================
