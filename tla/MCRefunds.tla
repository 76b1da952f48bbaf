------------------------------- MODULE MCRefunds -------------------------------
(***************************************************************************)
(* Refunds on a small instance: see the cfg file.                         *)
(***************************************************************************)
EXTENDS Refunds
=============================================================================
