------------------------------- MODULE MCSessions -------------------------------
(***************************************************************************)
(* Sessions on a small instance: see the cfg file.                         *)
(***************************************************************************)
EXTENDS Sessions
=============================================================================
