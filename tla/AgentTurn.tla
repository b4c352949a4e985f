----------------------------- MODULE AgentTurn -----------------------------
(***************************************************************************)
(* The agent loop as a state machine over the persisted conversation: load *)
(* the session, let the first operation of the pipeline that applies       *)
(* decide, persist its effects one by one, and again until no operation    *)
(* applies or one yields to the client.  The operations modelled are, in   *)
(* the pipeline's order: slash_command (/goal and /grind), steer,          *)
(* max_turns, tool_approval, tool_execution, unknown_tool, retry,          *)
(* stop_hook, exit_on_error and the inference.                             *)
(*                                                                         *)
(* The conversation is kept as what the operations read of it: everything  *)
(* is counted from the kickoff, the last user message the user can see.    *)
(***************************************************************************)
EXTENDS Naturals, FiniteSets

CONSTANTS
    Request,      \* tool requests the model may make
    Known,        \* the parsed ones for a tool of an enabled extension
    NeedsAsking,  \* those the inspectors want approved
    Forbidden,    \* those the inspectors deny
    MaxTurns, MaxRetries, BlockCap,   \* the budgets of the pipeline
    HasRetry,     \* the recipe has success checks
    SwitchAt,     \* where a run may be when the user changes the mode
    MaxMessages, MaxSteers, MaxFaults, MaxSwitches   \* bounds of the instance

ASSUME RequestAssumption ==
    /\ Known \subseteq Request
    /\ NeedsAsking \subseteq Request /\ Forbidden \subseteq Request
    /\ NeedsAsking \cap Forbidden = {}
ASSUME BoundAssumption ==
    /\ MaxTurns \in Nat /\ MaxRetries \in Nat /\ BlockCap \in Nat
    /\ HasRetry \in BOOLEAN
    /\ MaxMessages \in Nat /\ MaxSteers \in Nat /\ MaxFaults \in Nat
    /\ MaxSwitches \in Nat

VARIABLES
    \* the persisted conversation
    used,       \* the requests made so far, in any turn
    requests,   \* the tool requests since the kickoff
    exec,       \* exec[r]: the mark "goose.executable" on a request
    asks,       \* the requests with a confirmation message
    confirmed,  \* confirmed[r]: the permission in the client's answer
    answered,   \* the requests with a tool response
    command,    \* the command in the kickoff message
    last,       \* what the last message is, "kickoff" when there is no other
    visible,    \* the role of the last message the agent sees
    turns,      \* assistant_turn_count
    denials,    \* messages a stop hook has left
    nudged,     \* the goal was brought up
    attempts,   \* the note of retry on the kickoff message
    \* the memory of the process
    pc,         \* where the run is
    cancelled,  \* its cancellation token
    yield,      \* yield_to_client of the step being applied
    marks,      \* approval effects: requests to mark ...
    prompts,    \* ... and to ask the user about
    batch,      \* the requests tool_execution dispatches
    out,        \* those whose call is at its tool and has had no effect yet
    done,       \* those whose result is in
    reply,      \* the requests the response being persisted answers
    queue,      \* steers in the queue
    drained,    \* steers taken from it and not persisted yet
    goal, grind, mode,
    \* around the run
    active,     \* the prompt is in active_prompt_runs
    accepted,   \* steers checked against it and not queued yet
    stray,      \* stray[r]: calls the run let go of that may still take effect
    \* what is observed
    ran,        \* ran[r]: how often the tool took effect
    replies,    \* replies[r]: how many responses it was given
    calls,      \* inferences since the kickoff or the retry
    messages, steers, delivered, discarded, faults, switches

turnVars == <<requests, command, turns, denials, nudged, attempts, calls>>
approvalVars == <<exec, asks, confirmed>>
effectVars == <<marks, prompts, batch, out, done, reply, drained, yield>>
goalVars == <<goal, grind>>
toolVars == <<ran, stray>>
promptVars == <<active, accepted, discarded>>
countVars == <<messages, steers, faults, switches>>
vars == <<used, turnVars, approvalVars, answered, last, visible, pc,
          cancelled, effectVars, queue, goalVars, mode, toolVars, promptVars,
          replies, delivered, countVars>>

Command == {"none", "goal", "grind"}
Last == {"kickoff", "user", "tool", "calls", "ask", "answer", "text", "error"}
PC == {"idle", "step", "respond", "begin", "steer", "apply", "tools", "exec",
       "reply", "check", "hook", "infer"}

TypeOK ==
    /\ used \subseteq Request /\ requests \subseteq used
    /\ exec \in [Request -> {"unset", "yes", "no"}]
    /\ asks \subseteq Request /\ answered \subseteq Request
    /\ confirmed \in [Request -> {"none", "allow", "deny"}]
    /\ command \in Command /\ last \in Last /\ visible \in {"user", "tool", "assistant"}
    /\ turns \in Nat /\ denials \in Nat /\ attempts \in Nat /\ calls \in Nat
    /\ nudged \in BOOLEAN /\ goal \in BOOLEAN /\ grind \in BOOLEAN
    /\ pc \in PC /\ cancelled \in BOOLEAN /\ yield \in BOOLEAN
    /\ marks \subseteq requests /\ prompts \subseteq requests
    /\ batch \subseteq requests /\ reply \subseteq requests
    /\ done \subseteq batch /\ out \subseteq batch \ done
    /\ mode \in {"chat", "approve"}
    /\ queue \in Nat /\ drained \in Nat /\ delivered \in Nat
    /\ active \in BOOLEAN /\ accepted \in Nat /\ discarded \in Nat
    /\ ran \in [Request -> Nat] /\ stray \in [Request -> Nat]
    /\ replies \in [Request -> Nat]
    /\ messages \in Nat /\ steers \in Nat /\ faults \in Nat /\ switches \in Nat

Init ==
    /\ used = {} /\ requests = {} /\ asks = {} /\ answered = {}
    /\ exec = [r \in Request |-> "unset"]
    /\ confirmed = [r \in Request |-> "none"]
    /\ command = "none" /\ last = "text" /\ visible = "assistant"
    /\ turns = 0 /\ denials = 0 /\ attempts = 0 /\ calls = 0 /\ nudged = FALSE
    /\ pc = "idle" /\ cancelled = FALSE /\ yield = FALSE
    /\ marks = {} /\ prompts = {} /\ batch = {} /\ out = {} /\ done = {}
    /\ reply = {} /\ queue = 0 /\ drained = 0 /\ delivered = 0
    /\ active = FALSE /\ accepted = 0 /\ discarded = 0
    /\ stray = [r \in Request |-> 0]
    /\ goal = FALSE /\ grind = FALSE /\ mode \in {"chat", "approve"}
    /\ ran = [r \in Request |-> 0] /\ replies = [r \in Request |-> 0]
    /\ messages = 0 /\ steers = 0 /\ faults = 0 /\ switches = 0

-----------------------------------------------------------------------------
(* What the operations read of the conversation. *)

EndsTurn == last = "text"
InBlock == last \in {"calls", "ask", "text", "error"}
Unanswered == requests \ answered

\* A confirmation was asked for and not refused.
Awaiting(r) == r \in asks /\ confirmed[r] # "deny"

\* Mutant: a declined request does not count as pending.
PendingExecutable == {r \in Unanswered : exec[r] # "no"}

\* pending_tool_requests, and how tool_execution and unknown_tool share them.
Pending == {r \in Unanswered : exec[r] # "no" \/ ~Awaiting(r)}

KnownPending == Pending \cap Known
ToExecute(S) == {r \in S : exec[r] # "no"}

\* ApprovalState: answers that are not marked yet, requests to inspect.
Permitted(r) == IF confirmed[r] = "allow" THEN "yes" ELSE "no"
ToMark == {r \in Unanswered : confirmed[r] # "none" /\ exec[r] # Permitted(r)}
ToInspect == {r \in Unanswered \ asks : confirmed[r] = "none" /\ exec[r] # "no"}
ApprovalMarks == ToMark \cup (ToInspect \cap (NeedsAsking \cup Forbidden))
Approves == mode # "chat" /\ ApprovalMarks # {}

BetweenTurns == EndsTurn \/ last = "tool"
Steers == BetweenTurns /\ queue > 0

\* Mutant: off by one.
OverBudget == turns > MaxTurns

OutOfTurns == turns >= MaxTurns

CallsModel == last # "error" /\ visible \in {"user", "tool"}

\* The operations before max_turns, tool_approval, ... do not apply.
RunsCommand == last = "kickoff" /\ command # "none"
PastSteer == ~RunsCommand /\ ~Steers
PastBudget == PastSteer /\ ~OutOfTurns
PastApproval == PastBudget /\ ~Approves
PastTools == PastApproval /\ Pending = {}

-----------------------------------------------------------------------------
(* Appending messages. *)

\* A user message the user can see is the new kickoff.
Kickoff(c) ==
    /\ requests' = {} /\ turns' = 0 /\ denials' = 0 /\ attempts' = 0
    /\ nudged' = FALSE /\ calls' = 0 /\ command' = c
    /\ last' = "kickoff" /\ visible' = "user"

CountTurn == turns' = IF InBlock THEN turns ELSE turns + 1

\* An assistant message that the agent does not see leaves visible alone.
Text == /\ last' = "text" /\ visible' = "assistant" /\ CountTurn
        /\ UNCHANGED <<requests, command, denials, nudged, attempts, calls>>
Error == /\ last' = "error" /\ CountTurn
         /\ UNCHANGED <<visible, requests, command, denials, nudged, attempts, calls>>
Hidden == /\ last' = "user" /\ visible' = "user"
          /\ UNCHANGED <<requests, command, turns, attempts, calls>>

Silent == UNCHANGED <<turnVars, last, visible>>

\* A step with all its effects persisted: yield ends the run.
EndStep(y) == /\ pc' = (IF y THEN "idle" ELSE "step")
              /\ yield' = FALSE /\ marks' = {} /\ prompts' = {} /\ batch' = {}
              /\ out' = {} /\ done' = {} /\ reply' = {} /\ drained' = 0

\* The futures of the calls are dropped: a request that has reached its server
\* or a child process may take effect there all the same.
LetGo == stray' = [r \in Request |-> IF r \in out THEN stray[r] + 1 ELSE stray[r]]

-----------------------------------------------------------------------------
(* The client. *)

\* start_active_run: one prompt of the session at a time.
Start == /\ pc = "idle" /\ ~active
         /\ pc' = "step" /\ active' = TRUE
         /\ cancelled' = FALSE

\* reply_with_state_machine: persist the message, then run.
UserMessage ==
    /\ Start
    /\ messages < MaxMessages
    /\ messages' = messages + 1
    /\ \E c \in Command : Kickoff(c)
    /\ UNCHANGED <<used, approvalVars, answered, effectVars, queue, goalVars,
                   mode, toolVars, accepted, discarded, replies, delivered,
                   steers, faults, switches>>

\* The machine is run again on what is there: after a confirmation, a crash.
Resume ==
    /\ Start
    /\ messages > 0
    /\ UNCHANGED <<used, turnVars, approvalVars, answered, last, visible,
                   effectVars, queue, goalVars, mode, toolVars, accepted,
                   discarded, replies, delivered, countVars>>

\* The client persists its answer, a message that neither user nor agent sees.
Confirm(r) ==
    /\ r \in requests \cap asks
    /\ confirmed[r] = "none"
    /\ pc \in {"idle", "step", "infer"}
    /\ \E p \in {"allow", "deny"} : confirmed' = [confirmed EXCEPT ![r] = p]
    /\ last' = "answer"
    /\ UNCHANGED <<used, turnVars, exec, asks, answered, visible, pc,
                   cancelled, effectVars, queue, goalVars, mode, toolVars,
                   promptVars, replies, delivered, countVars>>

\* require_active_run, on behalf of a steer ...
AcceptSteer ==
    /\ active /\ steers + accepted < MaxSteers
    /\ accepted' = accepted + 1
    /\ UNCHANGED <<used, turnVars, approvalVars, answered, last, visible, pc,
                   cancelled, effectVars, queue, goalVars, mode, toolVars,
                   active, discarded, replies, delivered, countVars>>

\* ... which is queued and acknowledged, whatever became of the run.
SendSteer ==
    /\ accepted > 0
    /\ accepted' = accepted - 1
    /\ steers' = steers + 1
    /\ queue' = queue + 1
    /\ UNCHANGED <<used, turnVars, approvalVars, answered, last, visible, pc,
                   cancelled, effectVars, goalVars, mode, toolVars, active,
                   discarded, replies, delivered, messages, faults, switches>>

\* clear_active_run: the prompt is over, and what is still queued is dropped.
EndPrompt ==
    /\ pc = "idle" /\ active
    /\ active' = FALSE
    /\ queue' = 0
    /\ discarded' = discarded + queue
    /\ UNCHANGED <<used, turnVars, approvalVars, answered, last, visible, pc,
                   cancelled, effectVars, goalVars, mode, toolVars, accepted,
                   replies, delivered, countVars>>

Cancel ==
    /\ pc # "idle" /\ ~cancelled
    /\ cancelled' = TRUE
    /\ UNCHANGED <<used, turnVars, approvalVars, answered, last, visible, pc,
                   effectVars, queue, goalVars, mode, toolVars, promptVars,
                   replies, delivered, countVars>>

SetMode ==
    /\ pc \in SwitchAt /\ switches < MaxSwitches
    /\ switches' = switches + 1
    /\ mode' = IF mode = "chat" THEN "approve" ELSE "chat"
    /\ UNCHANGED <<used, turnVars, approvalVars, answered, last, visible, pc,
                   cancelled, effectVars, queue, goalVars, toolVars, promptVars,
                   replies, delivered, messages, steers, faults>>

-----------------------------------------------------------------------------
(* One step of the machine, and the persisting of its effects. *)

exceptStray == <<approvalVars, goalVars, mode, ran, promptVars, countVars,
                 cancelled>>
machineIdle == <<exceptStray, stray>>

\* /goal and /grind: the goal is set; the command is hidden from the agent and
\* answered; a message the user does not see asks to work on the goal.
SetGoal ==
    /\ pc = "step" /\ ~cancelled /\ RunsCommand
    /\ goal' = (goal \/ command = "goal") /\ grind' = (grind \/ command = "grind")
    /\ pc' = "respond"
    /\ Silent
    /\ UNCHANGED <<used, approvalVars, answered, cancelled, effectVars, queue,
                   mode, toolVars, promptVars, replies, delivered, countVars>>

AnswerCommand ==
    /\ pc = "respond"
    /\ last' = "text" /\ CountTurn
    /\ visible' = "assistant"
    /\ pc' = "begin"
    /\ UNCHANGED <<requests, command, denials, nudged, attempts, calls, used,
                   answered, machineIdle, effectVars, replies, queue, delivered>>

BeginWork ==
    /\ pc = "begin"
    /\ Hidden /\ EndStep(cancelled)
    /\ UNCHANGED <<denials, nudged, used, answered, machineIdle, replies,
                   queue, delivered>>

\* Mutant: the queue is drained before the cancellation is noticed.
DrainThenCancel ==
    /\ pc = "step" /\ ~RunsCommand /\ Steers
    /\ queue' = 0 /\ yield' = FALSE
    /\ IF cancelled THEN pc' = "idle" /\ drained' = 0
                    ELSE pc' = "steer" /\ drained' = queue
    /\ Silent
    /\ UNCHANGED <<used, answered, machineIdle, replies, delivered, marks,
                   prompts, batch, out, done, reply>>

\* The queue is drained, then the steers are persisted one by one; each of
\* them is a kickoff.
Drain ==
    /\ pc = "step" /\ ~cancelled /\ ~RunsCommand /\ Steers
    /\ drained' = queue /\ queue' = 0
    /\ yield' = FALSE /\ pc' = "steer"
    /\ Silent
    /\ UNCHANGED <<used, answered, machineIdle, replies, delivered, marks,
                   prompts, batch, out, done, reply>>

PersistSteer ==
    /\ pc = "steer" /\ drained > 0
    /\ Kickoff("none")
    /\ delivered' = delivered + 1
    /\ IF drained = 1
       THEN EndStep(cancelled)
       ELSE /\ drained' = drained - 1
            /\ UNCHANGED <<pc, yield, marks, prompts, batch, out, done, reply>>
    /\ UNCHANGED <<used, answered, machineIdle, replies, queue>>

StopAtMaxTurns ==
    /\ pc = "step" /\ ~cancelled /\ PastSteer /\ OutOfTurns
    /\ Text /\ EndStep(TRUE)
    /\ UNCHANGED <<used, answered, machineIdle, replies, queue, delivered>>

\* tool_approval: the marks come before the question they belong to.
Approve ==
    /\ pc = "step" /\ ~cancelled /\ PastBudget /\ Approves
    /\ marks' = ApprovalMarks
    /\ prompts' = ToInspect \cap NeedsAsking
    /\ pc' = "apply"
    /\ Silent
    /\ UNCHANGED <<used, answered, machineIdle, replies, queue, delivered,
                   batch, out, done, reply, drained, yield>>

Mark(r) ==
    /\ pc = "apply" /\ r \in marks
    /\ exec' = [exec EXCEPT ![r] = Permitted(r)]
    /\ marks' = marks \ {r}
    /\ UNCHANGED <<used, turnVars, asks, confirmed, answered, last, visible,
                   pc, cancelled, prompts, batch, out, done, reply, drained, yield,
                   queue, goalVars, mode, toolVars, promptVars, replies,
                   delivered, countVars>>

\* Mutant: the question may be persisted before its mark.
AskFirst(r) ==
    /\ pc = "apply" /\ r \in prompts
    /\ asks' = asks \cup {r}
    /\ prompts' = prompts \ {r}
    /\ last' = "ask" /\ CountTurn
    /\ UNCHANGED <<used, requests, command, denials, nudged, attempts, calls,
                   exec, confirmed, answered, visible, pc, cancelled, marks,
                   batch, out, done, reply, drained, yield, queue, goalVars, mode,
                   toolVars, promptVars, replies, delivered, countVars>>

Ask(r) ==
    /\ pc = "apply" /\ r \in prompts \ marks
    /\ asks' = asks \cup {r}
    /\ prompts' = prompts \ {r}
    /\ last' = "ask" /\ CountTurn
    /\ UNCHANGED <<used, requests, command, denials, nudged, attempts, calls,
                   exec, confirmed, answered, visible, pc, cancelled, marks,
                   batch, out, done, reply, drained, yield, queue, goalVars, mode,
                   toolVars, promptVars, replies, delivered, countVars>>

Applied ==
    /\ pc = "apply" /\ marks = {} /\ prompts = {}
    /\ EndStep(cancelled) /\ Silent
    /\ UNCHANGED <<used, answered, machineIdle, replies, queue, delivered>>

\* tool_execution: the pending requests are listed, the mode is read again.
ListTools ==
    /\ pc = "step" /\ ~cancelled /\ PastApproval /\ KnownPending # {}
    /\ batch' = ToExecute(KnownPending) /\ reply' = KnownPending
    /\ pc' = "tools"
    /\ Silent
    /\ UNCHANGED <<used, answered, machineIdle, replies, queue, delivered,
                   marks, prompts, out, done, drained, yield>>

\* dispatch_tool_call on each, and their futures polled together.
Dispatch ==
    /\ pc = "tools"
    /\ IF mode = "chat"
       THEN pc' = "reply" /\ yield' = cancelled /\ batch' = {} /\ UNCHANGED out
       ELSE pc' = "exec" /\ out' = batch /\ UNCHANGED <<yield, batch>>
    /\ Silent
    /\ UNCHANGED <<used, answered, machineIdle, replies, queue, delivered,
                   marks, prompts, done, reply, drained>>

TakeEffect(r) ==
    /\ r \in out
    /\ out' = out \ {r}
    /\ ran' = [ran EXCEPT ![r] = @ + 1]
    /\ Silent
    /\ UNCHANGED <<used, approvalVars, answered, pc, cancelled, marks,
                   prompts, batch, done, reply, drained, yield, queue,
                   goalVars, mode, stray, promptVars, replies, delivered,
                   countVars>>

\* The result comes, also of a tool that had no effect: a policy hook or an
\* error kept it from that.
ToolReturns(r) ==
    /\ pc = "exec" /\ r \in batch \ done
    /\ done' = done \cup {r} /\ out' = out \ {r}
    /\ Silent
    /\ UNCHANGED <<used, answered, machineIdle, replies, queue, delivered,
                   pc, marks, prompts, batch, reply, drained, yield>>

\* A call whose future is gone takes effect at its server or child process.
LateEffect(r) ==
    /\ stray[r] > 0
    /\ stray' = [stray EXCEPT ![r] = @ - 1]
    /\ ran' = [ran EXCEPT ![r] = @ + 1]
    /\ UNCHANGED <<used, turnVars, approvalVars, answered, last, visible, pc,
                   cancelled, effectVars, queue, goalVars, mode, promptVars,
                   replies, delivered, countVars>>

\* Mutant: a cancelled run returns without the results it has.
CancelDropsResults ==
    /\ pc = "exec" /\ (done = batch \/ cancelled)
    /\ LetGo
    /\ IF cancelled
       THEN EndStep(TRUE)
       ELSE /\ pc' = "reply" /\ yield' = FALSE /\ out' = {}
            /\ UNCHANGED <<marks, prompts, batch, done, reply, drained>>
    /\ Silent
    /\ UNCHANGED <<used, answered, exceptStray, replies, queue, delivered>>

\* All results are in, or the run is cancelled: the calls that are out are let
\* go, and their requests answered as interrupted with the others.
CollectResults ==
    /\ pc = "exec" /\ (done = batch \/ cancelled)
    /\ pc' = "reply" /\ yield' = cancelled
    /\ LetGo /\ out' = {}
    /\ Silent
    /\ UNCHANGED <<used, answered, exceptStray, replies, queue, delivered,
                   marks, prompts, batch, done, reply, drained>>

\* unknown_tool answers what no extension claims and what was not parsed.
RejectUnknown ==
    /\ pc = "step" /\ ~cancelled /\ PastApproval
    /\ KnownPending = {} /\ Pending # {}
    /\ reply' = Pending /\ pc' = "reply"
    /\ Silent
    /\ UNCHANGED <<used, answered, machineIdle, replies, queue, delivered,
                   marks, prompts, batch, out, done, drained, yield>>

PersistReply ==
    /\ pc = "reply"
    /\ answered' = answered \cup reply
    /\ replies' = [r \in Request |-> IF r \in reply THEN replies[r] + 1
                                                    ELSE replies[r]]
    /\ last' = "tool" /\ visible' = "tool"
    /\ EndStep(yield)
    /\ UNCHANGED <<used, turnVars, machineIdle, queue, delivered>>

\* Mutant: the cancel hook does not look which requests have a response.
CancelAll ==
    /\ pc \in {"step", "hook"} /\ cancelled
    /\ IF requests = {}
       THEN EndStep(TRUE)
       ELSE /\ reply' = requests /\ yield' = TRUE /\ pc' = "reply"
            /\ UNCHANGED <<marks, prompts, batch, out, done, drained>>
    /\ Silent
    /\ UNCHANGED <<used, answered, machineIdle, replies, queue, delivered>>

\* A cancelled run skips every operation; the inference's cancel hook answers
\* what is left, and no more steps are taken.
CancelRest ==
    /\ pc \in {"step", "hook"} /\ cancelled
    /\ IF Unanswered = {}
       THEN EndStep(TRUE)
       ELSE /\ reply' = Unanswered /\ yield' = TRUE /\ pc' = "reply"
            /\ UNCHANGED <<marks, prompts, batch, out, done, drained>>
    /\ Silent
    /\ UNCHANGED <<used, answered, machineIdle, replies, queue, delivered>>

-----------------------------------------------------------------------------
(* The end of a turn: retry, stop_hook, exit_on_error. *)

AtEnd == pc = "step" /\ ~cancelled /\ PastTools /\ EndsTurn

Nudge ==
    /\ AtEnd /\ goal /\ ~nudged
    /\ Hidden /\ nudged' = TRUE
    /\ EndStep(FALSE)
    /\ UNCHANGED <<denials, used, answered, machineIdle, replies, queue,
                   delivered>>

Grind ==
    /\ AtEnd /\ (goal => nudged) /\ grind
    /\ Hidden
    /\ EndStep(FALSE)
    /\ UNCHANGED <<denials, nudged, used, answered, machineIdle, replies,
                   queue, delivered>>

\* The goals are met; the success checks of the recipe run, if it has any.
GoalsMet ==
    /\ AtEnd /\ (goal => nudged) /\ ~grind
    /\ goal' = FALSE /\ grind' = FALSE
    /\ pc' = IF HasRetry THEN "check" ELSE "hook"
    /\ Silent
    /\ UNCHANGED <<used, approvalVars, answered, cancelled, effectVars, queue,
                   mode, toolVars, promptVars, replies, delivered, countVars>>

ChecksPass ==
    /\ pc = "check"
    /\ pc' = "hook"
    /\ Silent
    /\ UNCHANGED <<used, answered, machineIdle, effectVars, replies, queue,
                   delivered>>

\* The checks or the on_failure command could not be run, or no attempt is
\* left.
RetryError ==
    /\ pc = "check"
    /\ Error
    /\ EndStep(cancelled)
    /\ UNCHANGED <<used, answered, machineIdle, replies, queue, delivered>>

\* Mutant: the attempt is not counted.
RetryUncounted ==
    /\ pc = "check" /\ attempts < MaxRetries
    /\ requests' = {} /\ turns' = 0 /\ denials' = 0 /\ nudged' = FALSE /\ calls' = 0
    /\ last' = "kickoff"
    /\ visible' = IF command = "none" THEN "user" ELSE "assistant"
    /\ EndStep(cancelled)
    /\ UNCHANGED <<attempts, command, used, answered, machineIdle, replies,
                   queue, delivered>>

\* The conversation is cut after the kickoff, which carries the attempts; a
\* command in it runs again.
Retry ==
    /\ pc = "check" /\ attempts < MaxRetries
    /\ requests' = {} /\ turns' = 0 /\ denials' = 0 /\ nudged' = FALSE /\ calls' = 0
    /\ attempts' = attempts + 1
    /\ last' = "kickoff"
    /\ visible' = IF command = "none" THEN "user" ELSE "assistant"
    /\ EndStep(cancelled)
    /\ UNCHANGED <<command, used, answered, machineIdle, replies, queue,
                   delivered>>

StopAllowed ==
    /\ pc = "hook"
    /\ EndStep(TRUE) /\ Silent
    /\ UNCHANGED <<used, answered, machineIdle, replies, queue, delivered>>

StopDenied ==
    /\ pc = "hook"
    /\ IF denials + 1 > BlockCap
       THEN Text /\ EndStep(TRUE)
       ELSE /\ Hidden /\ denials' = denials + 1 /\ UNCHANGED nudged
            /\ EndStep(cancelled)
    /\ UNCHANGED <<used, answered, machineIdle, replies, queue, delivered>>

ExitOnError ==
    /\ pc = "step" /\ ~cancelled /\ PastTools /\ last = "error"
    /\ EndStep(TRUE) /\ Silent
    /\ UNCHANGED <<used, answered, machineIdle, replies, queue, delivered>>

-----------------------------------------------------------------------------
(* The inference. *)

CallModel ==
    /\ pc = "step" /\ ~cancelled /\ PastTools /\ ~EndsTurn /\ CallsModel
    /\ pc' = "infer"
    /\ calls' = calls + 1
    /\ UNCHANGED <<used, requests, command, turns, denials, nudged, attempts,
                   answered, last, visible, machineIdle, effectVars, replies, queue,
                   delivered>>

\* No operation applies: the run is over.
NothingApplies ==
    /\ pc = "step" /\ ~cancelled /\ PastTools
    /\ ~EndsTurn /\ last # "error" /\ ~CallsModel
    /\ EndStep(TRUE) /\ Silent
    /\ UNCHANGED <<used, answered, machineIdle, replies, queue, delivered>>

\* The model asks for tools R, or says something when R is empty; the stream
\* may break off with an error after it.  The cancel hook answers at once.
Said(R, as) ==
    /\ used' = used \cup R /\ requests' = requests \cup R
    /\ turns' = turns + 1
    /\ last' = as
    /\ UNCHANGED <<command, denials, nudged, attempts, calls>>

ModelAnswers(R) ==
    /\ pc = "infer"
    /\ R \subseteq Request \ used
    /\ \/ Said(R, IF R = {} THEN "text" ELSE "calls") /\ visible' = "assistant"
       \/ /\ Said(R, "error")
          /\ visible' = IF R = {} THEN visible ELSE "assistant"
    /\ LET left == (requests \cup R) \ answered IN
       IF cancelled /\ left # {}
       THEN /\ reply' = left /\ yield' = TRUE /\ pc' = "reply"
            /\ UNCHANGED <<marks, prompts, batch, out, done, drained>>
       ELSE EndStep(cancelled)
    /\ UNCHANGED <<answered, machineIdle, replies, queue, delivered>>

\* An empty response ends the run.
EmptyAnswer ==
    /\ pc = "infer" /\ ~cancelled
    /\ Said({}, "text") /\ visible' = "assistant"
    /\ EndStep(TRUE)
    /\ UNCHANGED <<answered, machineIdle, replies, queue, delivered>>

-----------------------------------------------------------------------------
(* Faults: a run that is cut short, or the process dies. *)

\* The store refuses an effect, or, of a run that was cancelled, the ACP server
\* drops the stream at the next event: the effects that are left are dropped.
StoreFails ==
    /\ pc # "idle" /\ faults < MaxFaults
    /\ faults' = faults + 1
    /\ LetGo /\ EndStep(TRUE) /\ Silent
    /\ UNCHANGED <<used, approvalVars, answered, cancelled, queue, goalVars,
                   mode, ran, promptVars, replies, delivered, messages, steers,
                   switches>>

Crash ==
    /\ faults < MaxFaults
    /\ faults' = faults + 1
    /\ LetGo /\ EndStep(TRUE) /\ Silent
    /\ cancelled' = FALSE /\ queue' = 0 /\ goal' = FALSE /\ grind' = FALSE
    /\ active' = FALSE /\ accepted' = 0
    /\ UNCHANGED <<used, approvalVars, answered, mode, ran, discarded, replies,
                   delivered, messages, steers, switches>>

Client == \/ UserMessage \/ Resume \/ AcceptSteer \/ SendSteer \/ EndPrompt
          \/ Cancel \/ SetMode
          \/ \E r \in Request : Confirm(r)
Machine == \/ SetGoal \/ AnswerCommand \/ BeginWork \/ Drain \/ PersistSteer
           \/ StopAtMaxTurns \/ Approve \/ Applied
           \/ ListTools \/ Dispatch \/ CollectResults \/ RejectUnknown
           \/ PersistReply \/ CancelRest \/ Nudge \/ Grind \/ GoalsMet
           \/ ChecksPass \/ RetryError \/ Retry \/ StopAllowed \/ StopDenied
           \/ ExitOnError \/ CallModel \/ NothingApplies \/ EmptyAnswer
           \/ \E r \in Request : Mark(r) \/ Ask(r) \/ TakeEffect(r) \/ ToolReturns(r)
           \/ \E R \in SUBSET Request : ModelAnswers(R)

Next == \/ Client \/ Machine \/ StoreFails \/ Crash
        \/ \E r \in Request : LateEffect(r)

Spec == Init /\ [][Next]_vars

\* The run is polled, and the provider, the tools, the checks and the hooks
\* answer or time out.
FairSpec == Spec /\ WF_vars(Machine)

-----------------------------------------------------------------------------
\* A tool takes effect only if the inspectors allow it or, where they want it
\* approved, the user did; also when a crash splits the effects of approval.
NothingUnapproved ==
    \A r \in Request : ran[r] > 0 =>
       /\ r \notin Forbidden
       /\ r \in NeedsAsking => confirmed[r] = "allow"

\* Calls that are at their tool, of the run or let go by one.
Abroad == [r \in Request |-> IF r \in out THEN stray[r] + 1 ELSE stray[r]]

\* "paired and executed once": the effects of a request, those that may still
\* come included, are one, and one more for each fault between a call and its
\* response, which lets a resumed run call the tool again.  Cancelled runs may
\* leave an effect behind, but no second one.
ExecutedOnce == \A r \in Request : ran[r] + Abroad[r] <= 1 + faults

\* What becomes of a tool request, over cancellations, crashes and resumed
\* runs, is what ToolCall promises: no second response, whoever answers it, no
\* call of a tool that is not permitted or whose response is there, and no
\* effect but of a call.
Call == INSTANCE ToolCall WITH calls <- Abroad
CallsPromise == Call!Spec

\* The turn budget bounds the calls of the model, whatever hooks, goals,
\* confirmations and resumed runs add; a call whose answer is lost to a fault
\* is not counted by the code.
BudgetHolds == calls <= MaxTurns + faults

\* A steer that was acknowledged is in the queue, on its way or in the
\* conversation, or its prompt ended with the steer still queued: cancelling,
\* resuming and the steps of a run lose none (agent.rs:514-540).
SteersKept == faults = 0 => steers = queue + drained + delivered + discarded

\* A run that ends by itself leaves open only requests it asked about.  One
\* that is out of turns (StopAtMaxTurns), cut short or cancelled may leave others.
LeavesOnlyQuestions ==
    [][(NothingApplies \/ StopAllowed \/ ExitOnError) => Unanswered \subseteq asks]_vars

\* Every run ends: with the turn, a question, an error or the budget.
RunEnds == pc # "idle" ~> pc = "idle"

-----------------------------------------------------------------------------
(* What the repository says of the program, and its code does not keep *)

\* "Stable id of the queued steer message. The same id later appears as
\* `messageId` on the streamed `UserMessageChunk`" (custom_requests.rs:231):
\* not of a steer that comes while the run is at its end, in a stop hook say.
SteersPickedUp == [][EndPrompt /\ ~cancelled => queue = 0]_vars
=============================================================================
