------------------------- MODULE ElicitationPromise -------------------------
(***************************************************************************)
(* What an elicitation promises to the three parties that see it: the MCP  *)
(* server that asked, the person who answers and the conversation that is  *)
(* kept.  An answer enters the conversation at most once, never after the  *)
(* server has been told something else, and what the server is told is     *)
(* that answer.                                                            *)
(***************************************************************************)
CONSTANTS Request, Responder

VARIABLES recorded,  \* recorded[q]: the answers to q in the conversation
          result     \* result[q]: what the asking server was told
vars == <<recorded, result>>

Pending == "pending"
Failed == "failed"        \* an error: no stream, timeout, channel closed
Abandoned == "abandoned"  \* the server stopped listening

Init == /\ recorded = [q \in Request |-> {}]
        /\ result = [q \in Request |-> Pending]

Record(q, r) == /\ recorded[q] = {}
                /\ result[q] \in {Pending, Abandoned}
                /\ recorded' = [recorded EXCEPT ![q] = {r}]
                /\ UNCHANGED result

Answer(q, r) == /\ result[q] = Pending
                /\ recorded[q] = {r}
                /\ result' = [result EXCEPT ![q] = r]
                /\ UNCHANGED recorded

Fail(q) == /\ result[q] = Pending
           /\ recorded[q] = {}
           /\ result' = [result EXCEPT ![q] = Failed]
           /\ UNCHANGED recorded

Abandon(q) == /\ result[q] = Pending
              /\ result' = [result EXCEPT ![q] = Abandoned]
              /\ UNCHANGED recorded

Next == \E q \in Request : \/ Fail(q)
                           \/ Abandon(q)
                           \/ \E r \in Responder : Record(q, r) \/ Answer(q, r)

Spec == Init /\ [][Next]_vars
=============================================================================
