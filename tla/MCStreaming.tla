------------------------------ MODULE MCStreaming ------------------------------
(***************************************************************************)
(* Streaming on a small instance: see the cfg file.                        *)
(***************************************************************************)
EXTENDS Streaming, TLC

Symmetry == Permutations(Users) \cup Permutations(Requests)
=============================================================================
