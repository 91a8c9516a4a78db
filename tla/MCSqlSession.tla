---------------------------- MODULE MCSqlSession ----------------------------
(***************************************************************************)
(* An instance of SqlSession for TLC: parallel calls of the finance tools, *)
(* two reconnect attempts, with and without a backoff.                     *)
(***************************************************************************)
EXTENDS SqlSession

CONSTANTS query1, query2
=============================================================================
