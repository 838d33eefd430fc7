------------------------------ MODULE MCOutbox ------------------------------
(***************************************************************************)
(* OutboxSystem on small instances.  Workers are interchangeable, and no   *)
(* definition tells them apart.                                            *)
(***************************************************************************)
EXTENDS OutboxSystem, TLC

WorkerSymmetry == Permutations(Workers)
=============================================================================
