------------------------- MODULE MCCronDefinitions -------------------------
(***************************************************************************)
(* Instances of CronDefinitions for TLC.                                   *)
(***************************************************************************)
EXTENDS CronDefinitions

CONSTANTS sync, report, finance, daily, weekly, never, blank
=============================================================================
