--------------------------- MODULE MCElicitation ---------------------------
(* Small instances of Elicitation. *)
EXTENDS Elicitation

CONSTANTS ask1, ask2, tool1, mine, theirs, alice, bob, eve

OwnCall == [q \in Request |-> tool1]
OneSession == [c \in Call |-> mine]
Sessions == [r \in Responder |-> IF r = eve THEN theirs ELSE mine]
=============================================================================
