------------------------------- MODULE MCEvents -------------------------------
(***************************************************************************)
(* Events on a small instance: see the cfg file.                           *)
(***************************************************************************)
EXTENDS Events, TLC

Symmetry == Permutations(Requests)
=============================================================================
