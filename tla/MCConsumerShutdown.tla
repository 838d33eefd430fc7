------------------------- MODULE MCConsumerShutdown -------------------------
(***************************************************************************)
(* A consumer that is shut down with a few messages in the queue.          *)
(***************************************************************************)
EXTENDS ConsumerShutdown
=============================================================================
