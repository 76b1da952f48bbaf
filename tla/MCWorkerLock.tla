---------------------------- MODULE MCWorkerLock ----------------------------
(***************************************************************************)
(* WorkerLock on a small instance: see the cfg file.                       *)
(***************************************************************************)
EXTENDS WorkerLock
=============================================================================
