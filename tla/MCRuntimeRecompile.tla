------------------------- MODULE MCRuntimeRecompile -------------------------
(***************************************************************************)
(* Instances of RuntimeRecompile for TLC.                                  *)
(***************************************************************************)
EXTENDS RuntimeRecompile

CONSTANTS c1, c2, finance, obsidian, money, shipped, none
=============================================================================
