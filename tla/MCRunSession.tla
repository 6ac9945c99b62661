---------------------------- MODULE MCRunSession ----------------------------
(* RunSession for TLC: requests and processes are interchangeable, which   *)
(* halves the safety run twice.  The liveness run does not use symmetry.   *)
EXTENDS RunSession, TLC

Symmetry == Permutations(Requests) \cup Permutations(Processes)
=============================================================================
