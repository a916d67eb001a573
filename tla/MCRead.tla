------------------------------- MODULE MCRead -------------------------------
(* Instances of ReadForward for TLC. *)
EXTENDS ReadForward, TLC

CONSTANTS s1, s2

\* sessions that differ in nothing
EitherSession == Permutations({s1, s2})
=============================================================================
