--------------------------- MODULE MCProcessLock ---------------------------
(***************************************************************************)
(* Instances of ProcessLock for TLC: pids are few, so that they are used   *)
(* again.                                                                  *)
(***************************************************************************)
EXTENDS ProcessLock, TLC

CONSTANTS p1, p2, p3, container1, container2

Symmetric == Permutations(Procs) \cup Permutations(Hosts)
=============================================================================
