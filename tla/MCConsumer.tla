----------------------------- MODULE MCConsumer -----------------------------
(***************************************************************************)
(* Competing consumers of one queue.                                       *)
(***************************************************************************)
EXTENDS Consumer

CONSTANTS c1, c2
=============================================================================
