-------------------------------- MODULE MCPayout --------------------------------
(***************************************************************************)
(* Payout on a small instance: see the cfg file.                          *)
(***************************************************************************)
EXTENDS Payout, TLC

\* Purchases and requests are alike.
Symmetry == Permutations(Purchases) \cup Permutations(Requests)
=============================================================================
