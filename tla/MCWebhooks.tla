------------------------------- MODULE MCWebhooks -------------------------------
(***************************************************************************)
(* Webhooks on a small instance: see the cfg file.                        *)
(***************************************************************************)
EXTENDS Webhooks
=============================================================================
