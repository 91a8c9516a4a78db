-------------------------- MODULE MCMessageHistory --------------------------
(***************************************************************************)
(* An instance of MessageHistory for TLC: two specialists, messages that   *)
(* cost a sixth or half of the budget, so that a question, a call and its  *)
(* result may exceed it in every way.                                      *)
(***************************************************************************)
EXTENDS MessageHistory, TLC

CONSTANTS a, b

Alike == Permutations(Agents)
=============================================================================
