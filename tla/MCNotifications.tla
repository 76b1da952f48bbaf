---------------------------- MODULE MCNotifications ----------------------------
(***************************************************************************)
(* Notifications on a small instance: see the cfg file.                   *)
(***************************************************************************)
EXTENDS Notifications
=============================================================================
