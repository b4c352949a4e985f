---------------------------- MODULE MCAgentTurn ----------------------------
(* Small instances of AgentTurn. *)
EXTENDS AgentTurn

CONSTANTS asking, free, unknown
=============================================================================
