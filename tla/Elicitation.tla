----------------------------- MODULE Elicitation -----------------------------
(***************************************************************************)
(* The ActionRequiredManager: an MCP server, inside a tool call, asks the  *)
(* person a question (request_and_wait) while clients answer it            *)
(* (complete_elicitation_with_message).  The question travels on the tool  *)
(* call's action-required stream; the answer is claimed, written to the    *)
(* session's conversation and only then handed to the waiting server, all  *)
(* against the server's timeout.                                           *)
(***************************************************************************)
EXTENDS Naturals, FiniteSets

CONSTANTS Request,    \* calls of request_and_wait; each makes its own id
          Responder,  \* calls of complete_elicitation_with_message
          Call,       \* tool calls, the keys of the action-required streams
          Session,
          SessionOf,  \* SessionOf[c]: the session a tool call belongs to
          CallOf,     \* CallOf[q]: the tool call a request is made in
          Claims,     \* Claims[r]: the session a responder answers for
          None

ASSUME SessionAssumption == /\ SessionOf \in [Call -> Session]
                            /\ CallOf \in [Request -> Call]
                            /\ Claims \in [Responder -> Session]
ASSUME NoneAssumption == /\ None \notin Responder
                         /\ None \notin Request
ASSUME NamesAssumption ==
    Responder \cap {"pending", "failed", "abandoned"} = {}

VARIABLES
    stream,    \* stream[c]: the call's sender and receiver
    reg,       \* the calls whose sender is in action_required_senders
    pending,   \* the requests in the map of pending requests
    tx,        \* the requests whose entry still has its response_tx
    guard,     \* guard[q]: the claim that holds the entry's mutex, or None
    chan,      \* chan[q]: the answer in the oneshot channel, or None
    qpc,       \* where each request_and_wait is
    result,    \* result[q]: what it returned
    recorded,  \* recorded[q]: the responders whose message was added
    rpc,       \* where each responder is
    target     \* target[r]: the request a responder answers
vars == <<stream, reg, pending, tx, guard, chan, qpc, result, recorded, rpc,
          target>>

streamVars == <<stream, reg>>
entryVars == <<pending, tx, guard>>
requestVars == <<qpc, result>>
responderVars == <<rpc, target, recorded>>

Waiting == {"wait", "expired", "drain"}   \* the receiver rx is alive

TypeOK ==
    /\ stream \in [Call -> {"idle", "open", "dropped"}]
    /\ reg \subseteq Call
    /\ pending \subseteq Request
    /\ tx \subseteq Request
    /\ guard \in [Request -> Responder \cup {None}]
    /\ chan \in [Request -> Responder \cup {None}]
    /\ qpc \in [Request -> {"idle", "lookup", "send", "return", "done", "gone"}
                           \cup Waiting]
    /\ result \in [Request -> Responder \cup {"pending", "failed", "abandoned"}]
    /\ recorded \in [Request -> SUBSET Responder]
    /\ rpc \in [Responder -> {"idle", "found", "claimed", "submit", "send",
                              "ok", "err"}]
    /\ target \in [Responder -> Request \cup {None}]

Init ==
    /\ stream = [c \in Call |-> "idle"]
    /\ reg = {}
    /\ pending = {}
    /\ tx = {}
    /\ guard = [q \in Request |-> None]
    /\ chan = [q \in Request |-> None]
    /\ qpc = [q \in Request |-> "idle"]
    /\ result = [q \in Request |-> "pending"]
    /\ recorded = [q \in Request |-> {}]
    /\ rpc = [r \in Responder |-> "idle"]
    /\ target = [r \in Responder |-> None]

-----------------------------------------------------------------------------
(* The tool call's stream. *)

\* dispatch_tool_call registers the stream unless the key has one.
Dispatch(c) ==
    /\ stream[c] = "idle"
    /\ c \notin reg
    /\ stream' = [stream EXCEPT ![c] = "open"]
    /\ reg' = reg \cup {c}
    /\ UNCHANGED <<entryVars, chan, requestVars, responderVars>>

\* ActionRequiredStream::drop: the receiver goes, and a task is spawned ...
DropStream(c) ==
    /\ stream[c] = "open"
    /\ stream' = [stream EXCEPT ![c] = "dropped"]
    /\ UNCHANGED <<reg, entryVars, chan, requestVars, responderVars>>

\* ... that takes the sender out of the map some time later.
Unregister(c) ==
    /\ stream[c] = "dropped"
    /\ reg' = reg \ {c}
    /\ UNCHANGED <<stream, entryVars, chan, requestVars, responderVars>>

-----------------------------------------------------------------------------
(* request_and_wait *)

AskInsert(q) ==
    /\ qpc[q] = "idle"
    /\ pending' = pending \cup {q}
    /\ tx' = tx \cup {q}
    /\ qpc' = [qpc EXCEPT ![q] = "lookup"]
    /\ UNCHANGED <<streamVars, guard, chan, result, responderVars>>

\* The early returns of request_and_wait take the entry, and its tx, away.
GiveUp(q) ==
    /\ pending' = pending \ {q}
    /\ tx' = tx \ {q}
    /\ qpc' = [qpc EXCEPT ![q] = "done"]
    /\ result' = [result EXCEPT ![q] = "failed"]
    /\ UNCHANGED guard

AskLookup(q) ==
    /\ qpc[q] = "lookup"
    /\ \/ /\ CallOf[q] \in reg
          /\ qpc' = [qpc EXCEPT ![q] = "send"]
          /\ UNCHANGED <<entryVars, result>>
       \/ CallOf[q] \notin reg /\ GiveUp(q)
    /\ UNCHANGED <<streamVars, chan, responderVars>>

\* The channel of a stream has room for eight messages; it is drained by the task
\* that polls the stream, and a full one is left out.
AskSend(q) ==
    /\ qpc[q] = "send"
    /\ \/ /\ stream[CallOf[q]] = "open"
          /\ qpc' = [qpc EXCEPT ![q] = "wait"]
          /\ UNCHANGED <<entryVars, result>>
       \/ stream[CallOf[q]] = "dropped" /\ GiveUp(q)
    /\ UNCHANGED <<streamVars, chan, responderVars>>

\* rx has the answer: before the timeout, or after it once tx was taken.
Receive(q) ==
    /\ qpc[q] \in {"wait", "drain"}
    /\ chan[q] # None
    /\ qpc' = [qpc EXCEPT ![q] = "return"]
    /\ result' = [result EXCEPT ![q] = chan[q]]
    /\ UNCHANGED <<streamVars, entryVars, chan, responderVars>>

\* The timer fires; the entry's mutex is still to be taken.
Expire(q) ==
    /\ qpc[q] = "wait"
    /\ chan[q] = None
    /\ qpc' = [qpc EXCEPT ![q] = "expired"]
    /\ UNCHANGED <<streamVars, entryVars, chan, result, responderVars>>

\* Mutant: the timeout fails whether or not an answer has taken tx.
TimeoutWins(q) ==
    /\ qpc[q] = "expired"
    /\ guard[q] = None
    /\ tx' = tx \ {q}
    /\ qpc' = [qpc EXCEPT ![q] = "return"]
    /\ result' = [result EXCEPT ![q] = "failed"]
    /\ UNCHANGED <<streamVars, pending, guard, chan, responderVars>>

AfterTimeout(q) ==
    /\ qpc[q] = "expired"
    /\ guard[q] = None
    /\ \/ /\ q \in tx
          /\ tx' = tx \ {q}
          /\ qpc' = [qpc EXCEPT ![q] = "return"]
          /\ result' = [result EXCEPT ![q] = "failed"]
       \/ /\ q \notin tx
          /\ qpc' = [qpc EXCEPT ![q] = "drain"]
          /\ UNCHANGED <<tx, result>>
    /\ UNCHANGED <<streamVars, pending, guard, chan, responderVars>>

Return(q) ==
    /\ qpc[q] = "return"
    /\ pending' = pending \ {q}
    /\ qpc' = [qpc EXCEPT ![q] = "done"]
    /\ UNCHANGED <<streamVars, tx, guard, chan, result, responderVars>>

\* The future of request_and_wait is dropped while it waits: rx closes and
\* nothing takes the entry out of the map.
Abandon(q) ==
    /\ qpc[q] \in Waiting
    /\ qpc' = [qpc EXCEPT ![q] = "gone"]
    /\ result' = [result EXCEPT ![q] = "abandoned"]
    /\ UNCHANGED <<streamVars, entryVars, chan, responderVars>>

-----------------------------------------------------------------------------
(* complete_elicitation_with_message *)

Shown(q) == qpc[q] \in Waiting \cup {"return", "done", "gone"}

\* claim_response looks the request up and clones its Arc.
Find(r, q) ==
    /\ rpc[r] = "idle"
    /\ Shown(q)
    /\ target' = [target EXCEPT ![r] = q]
    /\ rpc' = [rpc EXCEPT ![r] = IF q \in pending THEN "found" ELSE "err"]
    /\ UNCHANGED <<streamVars, entryVars, chan, requestVars, recorded>>

RxClosed(q) == qpc[q] \notin Waiting

\* Mutant: the claim gives the mutex back before the answer is written.
ClaimUnlocked(r) ==
    LET q == target[r] IN
    /\ rpc[r] = "found"
    /\ guard[q] = None
    /\ rpc' = [rpc EXCEPT ![r] = IF q \in tx /\ ~RxClosed(q)
                                    THEN "claimed" ELSE "err"]
    /\ UNCHANGED <<streamVars, entryVars, chan, requestVars, recorded, target>>

\* claim_response with the mutex: the claim keeps it.
Claim(r) ==
    LET q == target[r] IN
    /\ rpc[r] = "found"
    /\ guard[q] = None
    /\ \/ /\ Claims[r] = SessionOf[CallOf[q]]
          /\ q \in tx
          /\ ~RxClosed(q)
          /\ guard' = [guard EXCEPT ![q] = r]
          /\ rpc' = [rpc EXCEPT ![r] = "claimed"]
          /\ UNCHANGED tx
       \/ /\ \/ Claims[r] # SessionOf[CallOf[q]]
             \/ q \notin tx
             \/ RxClosed(q)
          /\ tx' = IF Claims[r] = SessionOf[CallOf[q]] THEN tx \ {q} ELSE tx
          /\ rpc' = [rpc EXCEPT ![r] = "err"]
          /\ UNCHANGED guard
    /\ UNCHANGED <<streamVars, pending, chan, requestVars, recorded, target>>

\* Mutant: a failing add_message leaves the mutex held.
AddMessageLeaks(r) ==
    LET q == target[r] IN
    /\ rpc[r] = "claimed"
    /\ \/ /\ recorded' = [recorded EXCEPT ![q] = @ \cup {r}]
          /\ rpc' = [rpc EXCEPT ![r] = "submit"]
       \/ rpc' = [rpc EXCEPT ![r] = "err"] /\ UNCHANGED recorded
    /\ UNCHANGED <<streamVars, entryVars, chan, requestVars, target>>

\* add_message, which may fail: the claim is then dropped, tx still in it.
AddMessage(r) ==
    LET q == target[r] IN
    /\ rpc[r] = "claimed"
    /\ \/ /\ recorded' = [recorded EXCEPT ![q] = @ \cup {r}]
          /\ rpc' = [rpc EXCEPT ![r] = "submit"]
          /\ UNCHANGED guard
       \/ /\ guard' = [guard EXCEPT ![q] = None]
          /\ rpc' = [rpc EXCEPT ![r] = "err"]
          /\ UNCHANGED recorded
    /\ UNCHANGED <<streamVars, pending, tx, chan, requestVars, target>>

\* Mutant: submit keeps the guard.
SubmitHolds(r) ==
    /\ rpc[r] = "submit"
    /\ tx' = tx \ {target[r]}
    /\ rpc' = [rpc EXCEPT ![r] = "send"]
    /\ UNCHANGED <<streamVars, pending, guard, chan, requestVars, recorded,
                   target>>

\* PendingResponseClaim::submit takes tx and drops the guard ...
SubmitTake(r) ==
    LET q == target[r] IN
    /\ rpc[r] = "submit"
    /\ tx' = tx \ {q}
    /\ guard' = [guard EXCEPT ![q] = None]
    /\ rpc' = [rpc EXCEPT ![r] = "send"]
    /\ UNCHANGED <<streamVars, pending, chan, requestVars, recorded, target>>

\* ... and then sends, in vain when the server is gone.
SubmitSend(r) ==
    LET q == target[r] IN
    /\ rpc[r] = "send"
    /\ \/ /\ ~RxClosed(q)
          /\ chan' = [chan EXCEPT ![q] = r]
          /\ rpc' = [rpc EXCEPT ![r] = "ok"]
       \/ /\ RxClosed(q)
          /\ rpc' = [rpc EXCEPT ![r] = "err"]
          /\ UNCHANGED chan
    /\ UNCHANGED <<streamVars, entryVars, requestVars, recorded, target>>

-----------------------------------------------------------------------------
Asker(q) == \/ AskLookup(q) \/ AskSend(q) \/ Receive(q) \/ Expire(q)
            \/ AfterTimeout(q) \/ Return(q)
Answerer(r) == Claim(r) \/ AddMessage(r) \/ SubmitTake(r) \/ SubmitSend(r)

Next == \/ \E c \in Call : Dispatch(c) \/ DropStream(c) \/ Unregister(c)
        \/ \E q \in Request : AskInsert(q) \/ Asker(q) \/ Abandon(q)
        \/ \E r \in Responder : Answerer(r) \/ \E q \in Request : Find(r, q)

Spec == Init /\ [][Next]_vars

\* Tokio runs every ready task, the timer fires, and add_message returns.
FairSpec == /\ Spec
            /\ \A q \in Request : WF_vars(Asker(q))
            /\ \A r \in Responder : WF_vars(Answerer(r))

-----------------------------------------------------------------------------
Promise == INSTANCE ElicitationPromise WITH recorded <- recorded,
                                            result <- result
PromiseKept == Promise!Spec

\* A responder is told the truth: success means that the server gets this
\* very answer unless it has left, and an error after the answer was written
\* to the conversation means that the server has left.
ToldTheTruth ==
    \A r \in Responder : LET q == target[r] IN
        /\ rpc[r] = "ok" => /\ recorded[q] = {r}
                            /\ result[q] \in {"pending", r, "abandoned"}
        /\ rpc[r] = "err" /\ r \in recorded[q] => result[q] = "abandoned"

\* Nothing is left of a request that returned: no entry, and no claim holds
\* its mutex.
ReturnedIsForgotten ==
    \A q \in Request : qpc[q] = "done" => q \notin pending /\ guard[q] = None

\* Every question ends: with an answer, an error, or the server gone.
QuestionEnds ==
    \A q \in Request : qpc[q] = "lookup" ~> qpc[q] \in {"done", "gone"}

\* Every answer ends, however many others wait for the same mutex.
AnswerEnds == \A r \in Responder : rpc[r] = "found" ~> rpc[r] \in {"ok", "err"}
=============================================================================
