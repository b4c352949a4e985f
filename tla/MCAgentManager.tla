--------------------------- MODULE MCAgentManager ---------------------------
(* Small instances of AgentManager. *)
EXTENDS AgentManager

CONSTANTS s1, s2, c1, c2, c3, c4, m1

OneElsewhere == [c \in Caller |-> IF c = c4 THEN s2 ELSE s1]
RemoveFirst == [m \in Remover |-> s1]
=============================================================================
