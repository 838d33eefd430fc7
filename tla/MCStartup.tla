----------------------------- MODULE MCStartup -----------------------------
(***************************************************************************)
(* Two replicas of a release with two migrations, and one of the release   *)
(* before, which had one.                                                  *)
(***************************************************************************)
EXTENDS Startup

CONSTANTS old, new1, new2

MCBinary == [r \in Replicas |-> IF r = old THEN 1 ELSE 2]
============================================================================
