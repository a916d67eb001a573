---------------------------- MODULE MCRequests ----------------------------
(* Instances of XrceRequests for TLC. *)
EXTENDS XrceRequests
============================================================================
