----------------------------- MODULE MCRequests -----------------------------
(***************************************************************************)
(* Calls of every kind, two at a time.                                     *)
(***************************************************************************)
EXTENDS Requests

CONSTANTS r1, r2
=============================================================================
