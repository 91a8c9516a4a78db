-------------------------- MODULE MCCronScheduler --------------------------
(***************************************************************************)
(* Instances of CronScheduler for TLC.                                     *)
(***************************************************************************)
EXTENDS CronScheduler

CONSTANTS p1, p2, hourly, daily

\* The frequent job has a slot within the run of another; the rare one's first slot is left
\* to the poll and outlives the tolerance.  Each has a slot beyond MaxTime for its timer to arm.
MCSlots == [j \in Jobs |-> IF j = hourly THEN {1, 2, 9} ELSE {0, 9}]
=============================================================================
