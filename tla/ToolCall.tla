------------------------------ MODULE ToolCall ------------------------------
(***************************************************************************)
(* What the agent loop promises of a tool request, whatever cancels the    *)
(* run, kills the process or resumes it: a request is made once, the user  *)
(* decides on it once, it is answered once, its tool is called only while  *)
(* it is permitted and not answered yet, and a call has one effect at      *)
(* most.  The effect may come after the answer: whoever lets go of a call  *)
(* does not stop the tool.                                                 *)
(***************************************************************************)
EXTENDS Naturals

CONSTANTS Request, NeedsAsking, Forbidden

VARIABLES used, confirmed, answered, ran, replies,
          calls  \* calls[r]: the calls of the tool that may still take effect
vars == <<used, confirmed, answered, ran, replies, calls>>

Init == /\ used = {} /\ answered = {}
        /\ confirmed = [r \in Request |-> "none"]
        /\ ran = [r \in Request |-> 0] /\ replies = [r \in Request |-> 0]
        /\ calls = [r \in Request |-> 0]

Open == used \ answered

Permitted(r) == r \notin Forbidden /\ (r \in NeedsAsking => confirmed[r] = "allow")

\* The model asks for tools.
Make(R) == /\ R \subseteq Request \ used
           /\ used' = used \cup R
           /\ UNCHANGED <<confirmed, answered, ran, replies, calls>>

\* The user answers a question.
Decide(r, p) == /\ r \in used \cap NeedsAsking /\ confirmed[r] = "none"
                /\ confirmed' = [confirmed EXCEPT ![r] = p]
                /\ UNCHANGED <<used, answered, ran, replies, calls>>

\* The tools of several requests are called together.
CallTools(R) == /\ R \subseteq Open /\ \A r \in R : Permitted(r)
                /\ calls' = [r \in Request |-> IF r \in R THEN calls[r] + 1
                                                       ELSE calls[r]]
                /\ UNCHANGED <<used, confirmed, answered, ran, replies>>

TakeEffect(r) == /\ calls[r] > 0
                 /\ calls' = [calls EXCEPT ![r] = @ - 1]
                 /\ ran' = [ran EXCEPT ![r] = @ + 1]
                 /\ UNCHANGED <<used, confirmed, answered, replies>>

\* A call comes back without an effect.
Fail(r) == /\ calls[r] > 0
           /\ calls' = [calls EXCEPT ![r] = @ - 1]
           /\ UNCHANGED <<used, confirmed, answered, ran, replies>>

\* One message answers several: with results, errors, or that they were
\* declined or cancelled.
Answer(R) == /\ R \subseteq Open
             /\ answered' = answered \cup R
             /\ replies' = [r \in Request |-> IF r \in R THEN replies[r] + 1
                                                         ELSE replies[r]]
             /\ UNCHANGED <<used, confirmed, ran, calls>>

Next == \/ \E R \in SUBSET Request : Make(R) \/ CallTools(R) \/ Answer(R)
        \/ \E r \in Request : \/ TakeEffect(r) \/ Fail(r)
                              \/ \E p \in {"allow", "deny"} : Decide(r, p)

Spec == Init /\ [][Next]_vars

-----------------------------------------------------------------------------
\* What follows: a request is answered once, ...
AnsweredOnce == \A r \in Request : replies[r] <= 1

\* ... the tool of a request that was answered, declined or cancelled is not
\* called any more: what effects may come are those of calls made before, ...
AnsweredIsOver ==
    [][\A r \in answered : /\ ran'[r] + calls'[r] <= ran[r] + calls[r]
                           /\ replies'[r] = replies[r]]_vars

\* ... and a tool that nobody permitted has none.
EffectsPermitted == \A r \in Request : ran[r] + calls[r] > 0 => Permitted(r)
=============================================================================
