--------------------------- MODULE MCKeyRotation ---------------------------
(***************************************************************************)
(* A rotation and back, with a replica of each kind.                       *)
(***************************************************************************)
EXTENDS KeyRotation, TLC

CONSTANTS k1, k2, i1, v1

Symmetry == Permutations(Keys)
=============================================================================
