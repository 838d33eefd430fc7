---------------------------- MODULE MCOutboxAMQP ----------------------------
(***************************************************************************)
(* One process, a couple of events.                                        *)
(***************************************************************************)
EXTENDS OutboxAMQP
=============================================================================
