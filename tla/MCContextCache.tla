--------------------------- MODULE MCContextCache ---------------------------
(***************************************************************************)
(* Instances of ContextCache for TLC.                                      *)
(***************************************************************************)
EXTENDS ContextCache

CONSTANTS supervisor, agent1, agent2, p1, p2
=============================================================================
