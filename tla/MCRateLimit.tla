----------------------------- MODULE MCRateLimit -----------------------------
(***************************************************************************)
(* RateLimit on a small instance: see the cfg file.                        *)
(***************************************************************************)
EXTENDS RateLimit, TLC

Symmetry == Permutations(Requests)
=============================================================================
