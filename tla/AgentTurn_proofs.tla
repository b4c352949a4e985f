-------------------------- MODULE AgentTurn_proofs --------------------------
(* Type correctness and the safety of the agent loop, for any set of tool    *)
(* requests, any budgets and any number of faults.                           *)
EXTENDS AgentTurn, TLAPS

-----------------------------------------------------------------------------
(* The inductive invariant. *)

\* The mode is not changed between the two looks at it in one step.
ModeStable == "tools" \notin SwitchAt

\* What the effects of a step hold, and when.
EffectInv ==
    /\ drained > 0 => pc = "steer"
    /\ pc # "apply" => marks = {} /\ prompts = {}
    /\ pc \notin {"tools", "exec", "reply"} => batch = {} /\ reply = {}
    /\ pc \notin {"exec", "reply"} => done = {}
    /\ pc # "exec" => out = {}
    /\ batch \subseteq reply /\ done \subseteq batch

\* Whatever answers a request found it unanswered, and nothing else answers
\* before it does.
ReplyInv ==
    /\ reply \cap answered = {}
    /\ \A r \in Request : replies[r] = IF r \in answered THEN 1 ELSE 0

\* A request is marked before it is asked about, asked about before it is
\* confirmed, and allowed to run only when the confirmation says so.
AskInv ==
    /\ asks \subseteq NeedsAsking /\ prompts \subseteq NeedsAsking
    /\ \A r \in Request :
          /\ r \in asks => exec[r] # "unset"
          /\ r \in prompts => r \in marks \/ exec[r] # "unset"
          /\ confirmed[r] # "none" => r \in asks
          /\ exec[r] = "yes" => confirmed[r] = "allow"

Allowed(r) == r \notin Forbidden /\ (r \in NeedsAsking => confirmed[r] = "allow")

BatchInv ==
    ModeStable =>
       /\ pc = "exec" \/ (pc = "tools" /\ mode # "chat") =>
             \A r \in batch : Allowed(r)
       /\ \A r \in Request : ran[r] > 0 \/ stray[r] > 0 => Allowed(r)

\* The effects of a request, those that may still come included.
Weight(r) == ran[r] + stray[r] + (IF r \in out THEN 1 ELSE 0)

\* A tool is called once more only for a fault in between: what is neither
\* answered nor about to be has none but those.
RunInv ==
    \A r \in Request :
       /\ Weight(r) <= 1 + faults
       /\ r \notin answered /\ (r \in batch => pc = "tools") => Weight(r) <= faults

\* Every call of the model was counted, but for those a fault cut short.
CallInv ==
    /\ calls <= MaxTurns + faults
    /\ pc # "infer" => calls <= turns + faults
    /\ pc = "infer" => calls <= turns + 1 + faults

HookInv == pc \in {"check", "hook"} => Unanswered \subseteq asks

IInv == /\ TypeOK /\ EffectInv /\ ReplyInv /\ AskInv /\ BatchInv
        /\ RunInv /\ CallInv /\ SteersKept /\ HookInv

-----------------------------------------------------------------------------
LEMMA InitInv == Init => IInv
<1>. SUFFICES ASSUME Init PROVE IInv
  OBVIOUS
<1>. USE RequestAssumption, BoundAssumption DEF Init
<1>1. TypeOK
  <2>1. pc \in PC /\ last \in Last /\ command \in Command
    BY DEF PC, Last, Command
  <2>. QED  BY <2>1 DEF TypeOK
<1>2. EffectInv /\ ReplyInv /\ AskInv
  BY DEF EffectInv, ReplyInv, AskInv
<1>3. BatchInv /\ RunInv /\ CallInv
  BY DEF BatchInv, RunInv, CallInv, Weight
<1>4. SteersKept /\ HookInv
  BY DEF SteersKept, HookInv, Unanswered
<1>. QED  BY <1>1, <1>2, <1>3, <1>4 DEF IInv

LEMMA UserMessageKeeps ==
  ASSUME IInv, UserMessage
  PROVE  IInv'
<1>. USE RequestAssumption, BoundAssumption
    DEF UserMessage, Start, Kickoff, IInv,
        turnVars, approvalVars, effectVars, goalVars, countVars,
        toolVars, promptVars, exceptStray
<1>1. TypeOK'
  <2>1. /\ last' \in Last
        /\ visible' \in {"user", "tool", "assistant"}
        /\ command' \in Command
    BY DEF TypeOK, Last, Command
  <2>2. pc' \in PC /\ yield' \in BOOLEAN /\ cancelled' \in BOOLEAN
    BY DEF TypeOK, PC
  <2>3. /\ turns' \in Nat /\ denials' \in Nat /\ attempts' \in Nat /\ calls' \in Nat
    BY DEF TypeOK
  <2>4. /\ nudged' \in BOOLEAN /\ active' \in BOOLEAN
        /\ goal' \in BOOLEAN /\ grind' \in BOOLEAN
    BY DEF TypeOK
  <2>5. /\ used' \subseteq Request /\ requests' \subseteq used'
        /\ marks' \subseteq requests' /\ prompts' \subseteq requests'
        /\ batch' \subseteq requests' /\ done' \subseteq batch'
        /\ reply' \subseteq requests' /\ answered' \subseteq Request
        /\ out' \subseteq batch' \ done'
    BY DEF TypeOK, EffectInv
  <2>6. /\ exec' \in [Request -> {"unset", "yes", "no"}]
        /\ asks' \subseteq Request
        /\ confirmed' \in [Request -> {"none", "allow", "deny"}]
        /\ mode' \in {"chat", "approve"}
        /\ ran' \in [Request -> Nat] /\ stray' \in [Request -> Nat]
        /\ replies' \in [Request -> Nat]
    BY DEF TypeOK
  <2>7. /\ queue' \in Nat /\ drained' \in Nat /\ delivered' \in Nat
        /\ accepted' \in Nat /\ discarded' \in Nat
        /\ messages' \in Nat /\ steers' \in Nat /\ faults' \in Nat /\ switches' \in Nat
    BY DEF TypeOK
  <2>. QED  BY <2>1, <2>2, <2>3, <2>4, <2>5, <2>6, <2>7 DEF TypeOK
<1>2. EffectInv'
  BY DEF TypeOK, EffectInv
<1>3. ReplyInv'
  BY DEF TypeOK, EffectInv, ReplyInv
<1>4. AskInv'
  BY DEF TypeOK, EffectInv, AskInv
<1>5. BatchInv'
  BY DEF TypeOK, EffectInv, BatchInv, AskInv, Allowed, ModeStable
<1>6. RunInv'
  BY DEF TypeOK, EffectInv, RunInv, Weight
<1>7. CallInv'
  BY DEF TypeOK, CallInv
<1>8. SteersKept'
  BY DEF TypeOK, EffectInv, SteersKept
<1>9. HookInv'
  BY DEF TypeOK, HookInv, Unanswered
<1>. QED  BY <1>1, <1>2, <1>3, <1>4, <1>5, <1>6, <1>7, <1>8, <1>9

LEMMA ResumeKeeps ==
  ASSUME IInv, Resume
  PROVE  IInv'
<1>. USE RequestAssumption, BoundAssumption
    DEF Resume, Start, IInv,
        turnVars, approvalVars, effectVars, goalVars, countVars,
        toolVars, promptVars, exceptStray
<1>1. TypeOK'
  BY DEF TypeOK, EffectInv, PC
<1>2. EffectInv'
  BY DEF TypeOK, EffectInv
<1>3. ReplyInv'
  BY DEF TypeOK, EffectInv, ReplyInv
<1>4. AskInv'
  BY DEF TypeOK, EffectInv, AskInv
<1>5. BatchInv'
  BY DEF TypeOK, EffectInv, BatchInv, AskInv, Allowed, ModeStable
<1>6. RunInv'
  BY DEF TypeOK, EffectInv, RunInv, Weight
<1>7. CallInv'
  BY DEF TypeOK, CallInv
<1>8. SteersKept'
  BY DEF TypeOK, EffectInv, SteersKept
<1>9. HookInv'
  BY DEF TypeOK, HookInv, Unanswered
<1>. QED  BY <1>1, <1>2, <1>3, <1>4, <1>5, <1>6, <1>7, <1>8, <1>9

LEMMA ConfirmKeeps ==
  ASSUME IInv, NEW r \in Request, Confirm(r)
  PROVE  IInv'
<1>. USE RequestAssumption, BoundAssumption
    DEF Confirm, IInv,
        turnVars, approvalVars, effectVars, goalVars, countVars,
        toolVars, promptVars, exceptStray
<1>1. TypeOK'
  BY DEF TypeOK, EffectInv, Last
<1>2. EffectInv'
  BY DEF TypeOK, EffectInv
<1>3. ReplyInv'
  BY DEF TypeOK, EffectInv, ReplyInv
<1>4. AskInv'
  BY DEF TypeOK, EffectInv, AskInv
<1>5. BatchInv'
  BY DEF TypeOK, EffectInv, BatchInv, AskInv, Allowed, ModeStable
<1>6. RunInv'
  BY DEF TypeOK, EffectInv, RunInv, Weight
<1>7. CallInv'
  BY DEF TypeOK, CallInv
<1>8. SteersKept'
  BY DEF TypeOK, EffectInv, SteersKept
<1>9. HookInv'
  BY DEF TypeOK, HookInv, Unanswered
<1>. QED  BY <1>1, <1>2, <1>3, <1>4, <1>5, <1>6, <1>7, <1>8, <1>9

LEMMA AcceptSteerKeeps ==
  ASSUME IInv, AcceptSteer
  PROVE  IInv'
<1>. USE RequestAssumption, BoundAssumption
    DEF AcceptSteer, IInv,
        turnVars, approvalVars, effectVars, goalVars, countVars,
        toolVars, promptVars, exceptStray
<1>1. TypeOK'
  BY DEF TypeOK, EffectInv
<1>2. EffectInv'
  BY DEF TypeOK, EffectInv
<1>3. ReplyInv'
  BY DEF TypeOK, EffectInv, ReplyInv
<1>4. AskInv'
  BY DEF TypeOK, EffectInv, AskInv
<1>5. BatchInv'
  BY DEF TypeOK, EffectInv, BatchInv, AskInv, Allowed, ModeStable
<1>6. RunInv'
  BY DEF TypeOK, EffectInv, RunInv, Weight
<1>7. CallInv'
  BY DEF TypeOK, CallInv
<1>8. SteersKept'
  BY DEF TypeOK, EffectInv, SteersKept
<1>9. HookInv'
  BY DEF TypeOK, HookInv, Unanswered
<1>. QED  BY <1>1, <1>2, <1>3, <1>4, <1>5, <1>6, <1>7, <1>8, <1>9

LEMMA SendSteerKeeps ==
  ASSUME IInv, SendSteer
  PROVE  IInv'
<1>. USE RequestAssumption, BoundAssumption
    DEF SendSteer, IInv,
        turnVars, approvalVars, effectVars, goalVars, countVars,
        toolVars, promptVars, exceptStray
<1>1. TypeOK'
  BY DEF TypeOK, EffectInv
<1>2. EffectInv'
  BY DEF TypeOK, EffectInv
<1>3. ReplyInv'
  BY DEF TypeOK, EffectInv, ReplyInv
<1>4. AskInv'
  BY DEF TypeOK, EffectInv, AskInv
<1>5. BatchInv'
  BY DEF TypeOK, EffectInv, BatchInv, AskInv, Allowed, ModeStable
<1>6. RunInv'
  BY DEF TypeOK, EffectInv, RunInv, Weight
<1>7. CallInv'
  BY DEF TypeOK, CallInv
<1>8. SteersKept'
  BY DEF TypeOK, EffectInv, SteersKept
<1>9. HookInv'
  BY DEF TypeOK, HookInv, Unanswered
<1>. QED  BY <1>1, <1>2, <1>3, <1>4, <1>5, <1>6, <1>7, <1>8, <1>9

LEMMA EndPromptKeeps ==
  ASSUME IInv, EndPrompt
  PROVE  IInv'
<1>. USE RequestAssumption, BoundAssumption
    DEF EndPrompt, IInv,
        turnVars, approvalVars, effectVars, goalVars, countVars,
        toolVars, promptVars, exceptStray
<1>1. TypeOK'
  <2>1. queue' \in Nat /\ discarded' \in Nat
    BY DEF TypeOK
  <2>2. active' \in BOOLEAN
    OBVIOUS
  <2>. QED  BY <2>1, <2>2 DEF TypeOK
<1>2. EffectInv'
  BY DEF TypeOK, EffectInv
<1>3. ReplyInv'
  BY DEF TypeOK, EffectInv, ReplyInv
<1>4. AskInv'
  BY DEF TypeOK, EffectInv, AskInv
<1>5. BatchInv'
  BY DEF TypeOK, EffectInv, BatchInv, AskInv, Allowed, ModeStable
<1>6. RunInv'
  BY DEF TypeOK, EffectInv, RunInv, Weight
<1>7. CallInv'
  BY DEF TypeOK, CallInv
<1>8. SteersKept'
  BY DEF TypeOK, EffectInv, SteersKept
<1>9. HookInv'
  BY DEF TypeOK, HookInv, Unanswered
<1>. QED  BY <1>1, <1>2, <1>3, <1>4, <1>5, <1>6, <1>7, <1>8, <1>9

LEMMA CancelKeeps ==
  ASSUME IInv, Cancel
  PROVE  IInv'
<1>. USE RequestAssumption, BoundAssumption
    DEF Cancel, IInv,
        turnVars, approvalVars, effectVars, goalVars, countVars,
        toolVars, promptVars, exceptStray
<1>1. TypeOK'
  BY DEF TypeOK, EffectInv
<1>2. EffectInv'
  BY DEF TypeOK, EffectInv
<1>3. ReplyInv'
  BY DEF TypeOK, EffectInv, ReplyInv
<1>4. AskInv'
  BY DEF TypeOK, EffectInv, AskInv
<1>5. BatchInv'
  BY DEF TypeOK, EffectInv, BatchInv, AskInv, Allowed, ModeStable
<1>6. RunInv'
  BY DEF TypeOK, EffectInv, RunInv, Weight
<1>7. CallInv'
  BY DEF TypeOK, CallInv
<1>8. SteersKept'
  BY DEF TypeOK, EffectInv, SteersKept
<1>9. HookInv'
  BY DEF TypeOK, HookInv, Unanswered
<1>. QED  BY <1>1, <1>2, <1>3, <1>4, <1>5, <1>6, <1>7, <1>8, <1>9

LEMMA SetModeKeeps ==
  ASSUME IInv, SetMode
  PROVE  IInv'
<1>. USE RequestAssumption, BoundAssumption
    DEF SetMode, IInv,
        turnVars, approvalVars, effectVars, goalVars, countVars,
        toolVars, promptVars, exceptStray
<1>1. TypeOK'
  BY DEF TypeOK, EffectInv
<1>2. EffectInv'
  BY DEF TypeOK, EffectInv
<1>3. ReplyInv'
  BY DEF TypeOK, EffectInv, ReplyInv
<1>4. AskInv'
  BY DEF TypeOK, EffectInv, AskInv
<1>5. BatchInv'
  BY DEF TypeOK, EffectInv, BatchInv, AskInv, Allowed, ModeStable
<1>6. RunInv'
  BY DEF TypeOK, EffectInv, RunInv, Weight
<1>7. CallInv'
  BY DEF TypeOK, CallInv
<1>8. SteersKept'
  BY DEF TypeOK, EffectInv, SteersKept
<1>9. HookInv'
  BY DEF TypeOK, HookInv, Unanswered
<1>. QED  BY <1>1, <1>2, <1>3, <1>4, <1>5, <1>6, <1>7, <1>8, <1>9

LEMMA SetGoalKeeps ==
  ASSUME IInv, SetGoal
  PROVE  IInv'
<1>. USE RequestAssumption, BoundAssumption
    DEF SetGoal, Silent, IInv,
        turnVars, approvalVars, effectVars, goalVars, countVars,
        toolVars, promptVars, exceptStray
<1>1. TypeOK'
  BY DEF TypeOK, EffectInv, PC
<1>2. EffectInv'
  BY DEF TypeOK, EffectInv
<1>3. ReplyInv'
  BY DEF TypeOK, EffectInv, ReplyInv
<1>4. AskInv'
  BY DEF TypeOK, EffectInv, AskInv
<1>5. BatchInv'
  BY DEF TypeOK, EffectInv, BatchInv, AskInv, Allowed, ModeStable
<1>6. RunInv'
  BY DEF TypeOK, EffectInv, RunInv, Weight
<1>7. CallInv'
  BY DEF TypeOK, CallInv
<1>8. SteersKept'
  BY DEF TypeOK, EffectInv, SteersKept
<1>9. HookInv'
  BY DEF TypeOK, HookInv, Unanswered
<1>. QED  BY <1>1, <1>2, <1>3, <1>4, <1>5, <1>6, <1>7, <1>8, <1>9

LEMMA AnswerCommandKeeps ==
  ASSUME IInv, AnswerCommand
  PROVE  IInv'
<1>. USE RequestAssumption, BoundAssumption
    DEF AnswerCommand, CountTurn, machineIdle, IInv,
        turnVars, approvalVars, effectVars, goalVars, countVars,
        toolVars, promptVars, exceptStray
<1>1. TypeOK'
  BY DEF TypeOK, EffectInv, PC, Last
<1>2. EffectInv'
  BY DEF TypeOK, EffectInv
<1>3. ReplyInv'
  BY DEF TypeOK, EffectInv, ReplyInv
<1>4. AskInv'
  BY DEF TypeOK, EffectInv, AskInv
<1>5. BatchInv'
  BY DEF TypeOK, EffectInv, BatchInv, AskInv, Allowed, ModeStable
<1>6. RunInv'
  BY DEF TypeOK, EffectInv, RunInv, Weight
<1>7. CallInv'
  BY DEF TypeOK, CallInv
<1>8. SteersKept'
  BY DEF TypeOK, EffectInv, SteersKept
<1>9. HookInv'
  BY DEF TypeOK, HookInv, Unanswered
<1>. QED  BY <1>1, <1>2, <1>3, <1>4, <1>5, <1>6, <1>7, <1>8, <1>9

LEMMA BeginWorkKeeps ==
  ASSUME IInv, BeginWork
  PROVE  IInv'
<1>. USE RequestAssumption, BoundAssumption
    DEF BeginWork, Hidden, EndStep, machineIdle, IInv,
        turnVars, approvalVars, effectVars, goalVars, countVars,
        toolVars, promptVars, exceptStray
<1>1. TypeOK'
  BY DEF TypeOK, EffectInv, PC, Last
<1>2. EffectInv'
  BY DEF TypeOK, EffectInv
<1>3. ReplyInv'
  BY DEF TypeOK, EffectInv, ReplyInv
<1>4. AskInv'
  BY DEF TypeOK, EffectInv, AskInv
<1>5. BatchInv'
  BY DEF TypeOK, EffectInv, BatchInv, AskInv, Allowed, ModeStable
<1>6. RunInv'
  BY DEF TypeOK, EffectInv, RunInv, Weight
<1>7. CallInv'
  BY DEF TypeOK, CallInv
<1>8. SteersKept'
  BY DEF TypeOK, EffectInv, SteersKept
<1>9. HookInv'
  BY DEF TypeOK, HookInv, Unanswered
<1>. QED  BY <1>1, <1>2, <1>3, <1>4, <1>5, <1>6, <1>7, <1>8, <1>9

LEMMA DrainKeeps ==
  ASSUME IInv, Drain
  PROVE  IInv'
<1>. USE RequestAssumption, BoundAssumption
    DEF Drain, Silent, machineIdle, IInv,
        turnVars, approvalVars, effectVars, goalVars, countVars,
        toolVars, promptVars, exceptStray
<1>1. TypeOK'
  BY DEF TypeOK, EffectInv, PC
<1>2. EffectInv'
  BY DEF TypeOK, EffectInv
<1>3. ReplyInv'
  BY DEF TypeOK, EffectInv, ReplyInv
<1>4. AskInv'
  BY DEF TypeOK, EffectInv, AskInv
<1>5. BatchInv'
  BY DEF TypeOK, EffectInv, BatchInv, AskInv, Allowed, ModeStable
<1>6. RunInv'
  BY DEF TypeOK, EffectInv, RunInv, Weight
<1>7. CallInv'
  BY DEF TypeOK, CallInv
<1>8. SteersKept'
  BY DEF TypeOK, EffectInv, SteersKept
<1>9. HookInv'
  BY DEF TypeOK, HookInv, Unanswered
<1>. QED  BY <1>1, <1>2, <1>3, <1>4, <1>5, <1>6, <1>7, <1>8, <1>9

LEMMA PersistSteerKeeps ==
  ASSUME IInv, PersistSteer
  PROVE  IInv'
<1>. USE RequestAssumption, BoundAssumption
    DEF PersistSteer, Kickoff, EndStep, machineIdle, IInv,
        turnVars, approvalVars, effectVars, goalVars, countVars,
        toolVars, promptVars, exceptStray
<1>1. TypeOK'
  <2>1. /\ last' \in Last
        /\ visible' \in {"user", "tool", "assistant"}
        /\ command' \in Command
    BY DEF TypeOK, Last, Command
  <2>2. pc' \in PC /\ yield' \in BOOLEAN /\ cancelled' \in BOOLEAN
    BY DEF TypeOK, PC
  <2>3. /\ turns' \in Nat /\ denials' \in Nat /\ attempts' \in Nat /\ calls' \in Nat
    BY DEF TypeOK
  <2>4. /\ nudged' \in BOOLEAN /\ active' \in BOOLEAN
        /\ goal' \in BOOLEAN /\ grind' \in BOOLEAN
    BY DEF TypeOK
  <2>5. /\ used' \subseteq Request /\ requests' \subseteq used'
        /\ marks' \subseteq requests' /\ prompts' \subseteq requests'
        /\ batch' \subseteq requests' /\ done' \subseteq batch'
        /\ reply' \subseteq requests' /\ answered' \subseteq Request
        /\ out' \subseteq batch' \ done'
    BY DEF TypeOK, EffectInv
  <2>6. /\ exec' \in [Request -> {"unset", "yes", "no"}]
        /\ asks' \subseteq Request
        /\ confirmed' \in [Request -> {"none", "allow", "deny"}]
        /\ mode' \in {"chat", "approve"}
        /\ ran' \in [Request -> Nat] /\ stray' \in [Request -> Nat]
        /\ replies' \in [Request -> Nat]
    BY DEF TypeOK
  <2>7. /\ queue' \in Nat /\ drained' \in Nat /\ delivered' \in Nat
        /\ accepted' \in Nat /\ discarded' \in Nat
        /\ messages' \in Nat /\ steers' \in Nat /\ faults' \in Nat /\ switches' \in Nat
    BY DEF TypeOK
  <2>. QED  BY <2>1, <2>2, <2>3, <2>4, <2>5, <2>6, <2>7 DEF TypeOK
<1>2. EffectInv'
  BY DEF TypeOK, EffectInv
<1>3. ReplyInv'
  BY DEF TypeOK, EffectInv, ReplyInv
<1>4. AskInv'
  BY DEF TypeOK, EffectInv, AskInv
<1>5. BatchInv'
  BY DEF TypeOK, EffectInv, BatchInv, AskInv, Allowed, ModeStable
<1>6. RunInv'
  BY DEF TypeOK, EffectInv, RunInv, Weight
<1>7. CallInv'
  BY DEF TypeOK, CallInv
<1>8. SteersKept'
  BY DEF TypeOK, EffectInv, SteersKept
<1>9. HookInv'
  BY DEF TypeOK, HookInv, Unanswered
<1>. QED  BY <1>1, <1>2, <1>3, <1>4, <1>5, <1>6, <1>7, <1>8, <1>9

LEMMA StopAtMaxTurnsKeeps ==
  ASSUME IInv, StopAtMaxTurns
  PROVE  IInv'
<1>. USE RequestAssumption, BoundAssumption
    DEF StopAtMaxTurns, Text, CountTurn, EndStep, machineIdle, IInv,
        turnVars, approvalVars, effectVars, goalVars, countVars,
        toolVars, promptVars, exceptStray
<1>1. TypeOK'
  <2>1. /\ last' \in Last
        /\ visible' \in {"user", "tool", "assistant"}
        /\ command' \in Command
    BY DEF TypeOK, Last, Command
  <2>2. pc' \in PC /\ yield' \in BOOLEAN /\ cancelled' \in BOOLEAN
    BY DEF TypeOK, PC
  <2>3. /\ turns' \in Nat /\ denials' \in Nat /\ attempts' \in Nat /\ calls' \in Nat
    BY DEF TypeOK
  <2>4. /\ nudged' \in BOOLEAN /\ active' \in BOOLEAN
        /\ goal' \in BOOLEAN /\ grind' \in BOOLEAN
    BY DEF TypeOK
  <2>5. /\ used' \subseteq Request /\ requests' \subseteq used'
        /\ marks' \subseteq requests' /\ prompts' \subseteq requests'
        /\ batch' \subseteq requests' /\ done' \subseteq batch'
        /\ reply' \subseteq requests' /\ answered' \subseteq Request
        /\ out' \subseteq batch' \ done'
    BY DEF TypeOK, EffectInv
  <2>6. /\ exec' \in [Request -> {"unset", "yes", "no"}]
        /\ asks' \subseteq Request
        /\ confirmed' \in [Request -> {"none", "allow", "deny"}]
        /\ mode' \in {"chat", "approve"}
        /\ ran' \in [Request -> Nat] /\ stray' \in [Request -> Nat]
        /\ replies' \in [Request -> Nat]
    BY DEF TypeOK
  <2>7. /\ queue' \in Nat /\ drained' \in Nat /\ delivered' \in Nat
        /\ accepted' \in Nat /\ discarded' \in Nat
        /\ messages' \in Nat /\ steers' \in Nat /\ faults' \in Nat /\ switches' \in Nat
    BY DEF TypeOK
  <2>. QED  BY <2>1, <2>2, <2>3, <2>4, <2>5, <2>6, <2>7 DEF TypeOK
<1>2. EffectInv'
  BY DEF TypeOK, EffectInv
<1>3. ReplyInv'
  BY DEF TypeOK, EffectInv, ReplyInv
<1>4. AskInv'
  BY DEF TypeOK, EffectInv, AskInv
<1>5. BatchInv'
  BY DEF TypeOK, EffectInv, BatchInv, AskInv, Allowed, ModeStable
<1>6. RunInv'
  BY DEF TypeOK, EffectInv, RunInv, Weight
<1>7. CallInv'
  BY DEF TypeOK, CallInv
<1>8. SteersKept'
  BY DEF TypeOK, EffectInv, SteersKept
<1>9. HookInv'
  BY DEF TypeOK, HookInv, Unanswered
<1>. QED  BY <1>1, <1>2, <1>3, <1>4, <1>5, <1>6, <1>7, <1>8, <1>9

LEMMA ApproveKeeps ==
  ASSUME IInv, Approve
  PROVE  IInv'
<1>. USE RequestAssumption, BoundAssumption
    DEF Approve, Silent, machineIdle, IInv,
        turnVars, approvalVars, effectVars, goalVars, countVars,
        toolVars, promptVars, exceptStray
<1>1. TypeOK'
  BY DEF TypeOK, EffectInv, ApprovalMarks, ToMark, ToInspect, Unanswered, PC
<1>2. EffectInv'
  BY DEF TypeOK, EffectInv
<1>3. ReplyInv'
  BY DEF TypeOK, EffectInv, ReplyInv
<1>4. AskInv'
  BY DEF TypeOK, EffectInv, AskInv, ApprovalMarks, ToMark, ToInspect, Unanswered
<1>5. BatchInv'
  BY DEF TypeOK, EffectInv, BatchInv, AskInv, Allowed, ModeStable
<1>6. RunInv'
  BY DEF TypeOK, EffectInv, RunInv, Weight
<1>7. CallInv'
  BY DEF TypeOK, CallInv
<1>8. SteersKept'
  BY DEF TypeOK, EffectInv, SteersKept
<1>9. HookInv'
  BY DEF TypeOK, HookInv, Unanswered
<1>. QED  BY <1>1, <1>2, <1>3, <1>4, <1>5, <1>6, <1>7, <1>8, <1>9

LEMMA MarkKeeps ==
  ASSUME IInv, NEW r \in Request, Mark(r)
  PROVE  IInv'
<1>. USE RequestAssumption, BoundAssumption
    DEF Mark, IInv,
        turnVars, approvalVars, effectVars, goalVars, countVars,
        toolVars, promptVars, exceptStray
<1>1. TypeOK'
  BY DEF TypeOK, EffectInv, Permitted
<1>2. EffectInv'
  BY DEF TypeOK, EffectInv
<1>3. ReplyInv'
  BY DEF TypeOK, EffectInv, ReplyInv
<1>4. AskInv'
  BY DEF TypeOK, EffectInv, AskInv, Permitted
<1>5. BatchInv'
  BY DEF TypeOK, EffectInv, BatchInv, AskInv, Allowed, ModeStable
<1>6. RunInv'
  BY DEF TypeOK, EffectInv, RunInv, Weight
<1>7. CallInv'
  BY DEF TypeOK, CallInv
<1>8. SteersKept'
  BY DEF TypeOK, EffectInv, SteersKept
<1>9. HookInv'
  BY DEF TypeOK, HookInv, Unanswered
<1>. QED  BY <1>1, <1>2, <1>3, <1>4, <1>5, <1>6, <1>7, <1>8, <1>9

LEMMA AskKeeps ==
  ASSUME IInv, NEW r \in Request, Ask(r)
  PROVE  IInv'
<1>. USE RequestAssumption, BoundAssumption
    DEF Ask, CountTurn, IInv,
        turnVars, approvalVars, effectVars, goalVars, countVars,
        toolVars, promptVars, exceptStray
<1>1. TypeOK'
  BY DEF TypeOK, EffectInv, Last
<1>2. EffectInv'
  BY DEF TypeOK, EffectInv
<1>3. ReplyInv'
  BY DEF TypeOK, EffectInv, ReplyInv
<1>4. AskInv'
  BY DEF TypeOK, EffectInv, AskInv
<1>5. BatchInv'
  BY DEF TypeOK, EffectInv, BatchInv, AskInv, Allowed, ModeStable
<1>6. RunInv'
  BY DEF TypeOK, EffectInv, RunInv, Weight
<1>7. CallInv'
  BY DEF TypeOK, CallInv
<1>8. SteersKept'
  BY DEF TypeOK, EffectInv, SteersKept
<1>9. HookInv'
  BY DEF TypeOK, HookInv, Unanswered
<1>. QED  BY <1>1, <1>2, <1>3, <1>4, <1>5, <1>6, <1>7, <1>8, <1>9

LEMMA AppliedKeeps ==
  ASSUME IInv, Applied
  PROVE  IInv'
<1>. USE RequestAssumption, BoundAssumption
    DEF Applied, Silent, EndStep, machineIdle, IInv,
        turnVars, approvalVars, effectVars, goalVars, countVars,
        toolVars, promptVars, exceptStray
<1>1. TypeOK'
  BY DEF TypeOK, EffectInv, PC
<1>2. EffectInv'
  BY DEF TypeOK, EffectInv
<1>3. ReplyInv'
  BY DEF TypeOK, EffectInv, ReplyInv
<1>4. AskInv'
  BY DEF TypeOK, EffectInv, AskInv
<1>5. BatchInv'
  BY DEF TypeOK, EffectInv, BatchInv, AskInv, Allowed, ModeStable
<1>6. RunInv'
  BY DEF TypeOK, EffectInv, RunInv, Weight
<1>7. CallInv'
  BY DEF TypeOK, CallInv
<1>8. SteersKept'
  BY DEF TypeOK, EffectInv, SteersKept
<1>9. HookInv'
  BY DEF TypeOK, HookInv, Unanswered
<1>. QED  BY <1>1, <1>2, <1>3, <1>4, <1>5, <1>6, <1>7, <1>8, <1>9

LEMMA ListToolsKeeps ==
  ASSUME IInv, ListTools
  PROVE  IInv'
<1>. USE RequestAssumption, BoundAssumption
    DEF ListTools, Silent, machineIdle, IInv,
        turnVars, approvalVars, effectVars, goalVars, countVars,
        toolVars, promptVars, exceptStray
<1>1. TypeOK'
  BY DEF TypeOK, EffectInv, KnownPending, Pending, ToExecute, Unanswered, PC
<1>2. EffectInv'
  BY DEF TypeOK, EffectInv, KnownPending, Pending, ToExecute, Unanswered
<1>3. ReplyInv'
  BY DEF TypeOK, EffectInv, ReplyInv, KnownPending, Pending, Unanswered
<1>4. AskInv'
  BY DEF TypeOK, EffectInv, AskInv
<1>5. BatchInv'
   BY DEF TypeOK, EffectInv, BatchInv, AskInv, Allowed, ModeStable,
         KnownPending, Pending, ToExecute, Unanswered, PastApproval, Approves,
         ApprovalMarks, ToMark, ToInspect, Permitted
<1>6. RunInv'
  BY DEF TypeOK, EffectInv, RunInv, Weight
<1>7. CallInv'
  BY DEF TypeOK, CallInv
<1>8. SteersKept'
  BY DEF TypeOK, EffectInv, SteersKept
<1>9. HookInv'
  BY DEF TypeOK, HookInv, Unanswered
<1>. QED  BY <1>1, <1>2, <1>3, <1>4, <1>5, <1>6, <1>7, <1>8, <1>9

LEMMA DispatchKeeps ==
  ASSUME IInv, Dispatch
  PROVE  IInv'
<1>. USE RequestAssumption, BoundAssumption
    DEF Dispatch, Silent, machineIdle, IInv,
        turnVars, approvalVars, effectVars, goalVars, countVars,
        toolVars, promptVars, exceptStray
<1>1. TypeOK'
  BY DEF TypeOK, EffectInv, PC
<1>2. EffectInv'
  BY DEF TypeOK, EffectInv
<1>3. ReplyInv'
  BY DEF TypeOK, EffectInv, ReplyInv
<1>4. AskInv'
  BY DEF TypeOK, EffectInv, AskInv
<1>5. BatchInv'
  BY DEF TypeOK, EffectInv, BatchInv, AskInv, Allowed, ModeStable
<1>6. RunInv'
  BY DEF TypeOK, EffectInv, ReplyInv, RunInv, Weight
<1>7. CallInv'
  BY DEF TypeOK, CallInv
<1>8. SteersKept'
  BY DEF TypeOK, EffectInv, SteersKept
<1>9. HookInv'
  BY DEF TypeOK, HookInv, Unanswered
<1>. QED  BY <1>1, <1>2, <1>3, <1>4, <1>5, <1>6, <1>7, <1>8, <1>9

LEMMA TakeEffectKeeps ==
  ASSUME IInv, NEW r \in Request, TakeEffect(r)
  PROVE  IInv'
<1>. USE RequestAssumption, BoundAssumption
    DEF TakeEffect, Silent, IInv,
        turnVars, approvalVars, effectVars, goalVars, countVars,
        toolVars, promptVars, exceptStray
<1>1. TypeOK'
  BY DEF TypeOK, EffectInv
<1>2. EffectInv'
  BY DEF TypeOK, EffectInv
<1>3. ReplyInv'
  BY DEF TypeOK, EffectInv, ReplyInv
<1>4. AskInv'
  BY DEF TypeOK, EffectInv, AskInv
<1>5. BatchInv'
  BY DEF TypeOK, EffectInv, BatchInv, AskInv, Allowed, ModeStable
<1>6. RunInv'
  BY DEF TypeOK, EffectInv, RunInv, Weight, ReplyInv
<1>7. CallInv'
  BY DEF TypeOK, CallInv
<1>8. SteersKept'
  BY DEF TypeOK, EffectInv, SteersKept
<1>9. HookInv'
  BY DEF TypeOK, HookInv, Unanswered
<1>. QED  BY <1>1, <1>2, <1>3, <1>4, <1>5, <1>6, <1>7, <1>8, <1>9

LEMMA ToolReturnsKeeps ==
  ASSUME IInv, NEW r \in Request, ToolReturns(r)
  PROVE  IInv'
<1>. USE RequestAssumption, BoundAssumption
    DEF ToolReturns, Silent, machineIdle, IInv,
        turnVars, approvalVars, effectVars, goalVars, countVars,
        toolVars, promptVars, exceptStray
<1>1. TypeOK'
  BY DEF TypeOK, EffectInv
<1>2. EffectInv'
  BY DEF TypeOK, EffectInv
<1>3. ReplyInv'
  BY DEF TypeOK, EffectInv, ReplyInv
<1>4. AskInv'
  BY DEF TypeOK, EffectInv, AskInv
<1>5. BatchInv'
  BY DEF TypeOK, EffectInv, BatchInv, AskInv, Allowed, ModeStable
<1>6. RunInv'
  BY DEF TypeOK, EffectInv, RunInv, Weight, ReplyInv
<1>7. CallInv'
  BY DEF TypeOK, CallInv
<1>8. SteersKept'
  BY DEF TypeOK, EffectInv, SteersKept
<1>9. HookInv'
  BY DEF TypeOK, HookInv, Unanswered
<1>. QED  BY <1>1, <1>2, <1>3, <1>4, <1>5, <1>6, <1>7, <1>8, <1>9

LEMMA LateEffectKeeps ==
  ASSUME IInv, NEW r \in Request, LateEffect(r)
  PROVE  IInv'
<1>. USE RequestAssumption, BoundAssumption
    DEF LateEffect, Silent, IInv,
        turnVars, approvalVars, effectVars, goalVars, countVars,
        toolVars, promptVars, exceptStray
<1>1. TypeOK'
  BY DEF TypeOK, EffectInv
<1>2. EffectInv'
  BY DEF TypeOK, EffectInv
<1>3. ReplyInv'
  BY DEF TypeOK, EffectInv, ReplyInv
<1>4. AskInv'
  BY DEF TypeOK, EffectInv, AskInv
<1>5. BatchInv'
  BY DEF TypeOK, EffectInv, BatchInv, AskInv, Allowed, ModeStable
<1>6. RunInv'
  BY DEF TypeOK, EffectInv, RunInv, Weight, ReplyInv
<1>7. CallInv'
  BY DEF TypeOK, CallInv
<1>8. SteersKept'
  BY DEF TypeOK, EffectInv, SteersKept
<1>9. HookInv'
  BY DEF TypeOK, HookInv, Unanswered
<1>. QED  BY <1>1, <1>2, <1>3, <1>4, <1>5, <1>6, <1>7, <1>8, <1>9

LEMMA CollectResultsKeeps ==
  ASSUME IInv, CollectResults
  PROVE  IInv'
<1>. USE RequestAssumption, BoundAssumption
    DEF CollectResults, LetGo, Silent, machineIdle, IInv,
        turnVars, approvalVars, effectVars, goalVars, countVars,
        toolVars, promptVars, exceptStray
<1>1. TypeOK'
  BY DEF TypeOK, EffectInv, PC
<1>2. EffectInv'
  BY DEF TypeOK, EffectInv
<1>3. ReplyInv'
  BY DEF TypeOK, EffectInv, ReplyInv
<1>4. AskInv'
  BY DEF TypeOK, EffectInv, AskInv
<1>5. BatchInv'
  BY DEF TypeOK, EffectInv, BatchInv, AskInv, Allowed, ModeStable
<1>6. RunInv'
  BY DEF TypeOK, EffectInv, RunInv, Weight
<1>7. CallInv'
  BY DEF TypeOK, CallInv
<1>8. SteersKept'
  BY DEF TypeOK, EffectInv, SteersKept
<1>9. HookInv'
  BY DEF TypeOK, HookInv, Unanswered
<1>. QED  BY <1>1, <1>2, <1>3, <1>4, <1>5, <1>6, <1>7, <1>8, <1>9

LEMMA RejectUnknownKeeps ==
  ASSUME IInv, RejectUnknown
  PROVE  IInv'
<1>. USE RequestAssumption, BoundAssumption
    DEF RejectUnknown, Silent, machineIdle, IInv,
        turnVars, approvalVars, effectVars, goalVars, countVars,
        toolVars, promptVars, exceptStray
<1>1. TypeOK'
  BY DEF TypeOK, EffectInv, Pending, Unanswered, PC
<1>2. EffectInv'
  BY DEF TypeOK, EffectInv
<1>3. ReplyInv'
  BY DEF TypeOK, EffectInv, ReplyInv, Pending, Unanswered
<1>4. AskInv'
  BY DEF TypeOK, EffectInv, AskInv
<1>5. BatchInv'
  BY DEF TypeOK, EffectInv, BatchInv, AskInv, Allowed, ModeStable
<1>6. RunInv'
  BY DEF TypeOK, EffectInv, RunInv, Weight
<1>7. CallInv'
  BY DEF TypeOK, CallInv
<1>8. SteersKept'
  BY DEF TypeOK, EffectInv, SteersKept
<1>9. HookInv'
  BY DEF TypeOK, HookInv, Unanswered
<1>. QED  BY <1>1, <1>2, <1>3, <1>4, <1>5, <1>6, <1>7, <1>8, <1>9

LEMMA PersistReplyKeeps ==
  ASSUME IInv, PersistReply
  PROVE  IInv'
<1>. USE RequestAssumption, BoundAssumption
    DEF PersistReply, EndStep, machineIdle, IInv,
        turnVars, approvalVars, effectVars, goalVars, countVars,
        toolVars, promptVars, exceptStray
<1>1. TypeOK'
  <2>1. /\ last' \in Last
        /\ visible' \in {"user", "tool", "assistant"}
        /\ command' \in Command
    BY DEF TypeOK, Last, Command
  <2>2. pc' \in PC /\ yield' \in BOOLEAN /\ cancelled' \in BOOLEAN
    BY DEF TypeOK, PC
  <2>3. /\ turns' \in Nat /\ denials' \in Nat /\ attempts' \in Nat /\ calls' \in Nat
    BY DEF TypeOK
  <2>4. /\ nudged' \in BOOLEAN /\ active' \in BOOLEAN
        /\ goal' \in BOOLEAN /\ grind' \in BOOLEAN
    BY DEF TypeOK
  <2>5. /\ used' \subseteq Request /\ requests' \subseteq used'
        /\ marks' \subseteq requests' /\ prompts' \subseteq requests'
        /\ batch' \subseteq requests' /\ done' \subseteq batch'
        /\ reply' \subseteq requests' /\ answered' \subseteq Request
        /\ out' \subseteq batch' \ done'
    BY DEF TypeOK, EffectInv
  <2>6. /\ exec' \in [Request -> {"unset", "yes", "no"}]
        /\ asks' \subseteq Request
        /\ confirmed' \in [Request -> {"none", "allow", "deny"}]
        /\ mode' \in {"chat", "approve"}
        /\ ran' \in [Request -> Nat] /\ stray' \in [Request -> Nat]
        /\ replies' \in [Request -> Nat]
    BY DEF TypeOK
  <2>7. /\ queue' \in Nat /\ drained' \in Nat /\ delivered' \in Nat
        /\ accepted' \in Nat /\ discarded' \in Nat
        /\ messages' \in Nat /\ steers' \in Nat /\ faults' \in Nat /\ switches' \in Nat
    BY DEF TypeOK
  <2>. QED  BY <2>1, <2>2, <2>3, <2>4, <2>5, <2>6, <2>7 DEF TypeOK
<1>2. EffectInv'
  BY DEF TypeOK, EffectInv
<1>3. ReplyInv'
  BY DEF TypeOK, EffectInv, ReplyInv
<1>4. AskInv'
  BY DEF TypeOK, EffectInv, AskInv
<1>5. BatchInv'
  BY DEF TypeOK, EffectInv, BatchInv, AskInv, Allowed, ModeStable
<1>6. RunInv'
  BY DEF TypeOK, EffectInv, RunInv, Weight
<1>7. CallInv'
  BY DEF TypeOK, CallInv
<1>8. SteersKept'
  BY DEF TypeOK, EffectInv, SteersKept
<1>9. HookInv'
  BY DEF TypeOK, HookInv, Unanswered
<1>. QED  BY <1>1, <1>2, <1>3, <1>4, <1>5, <1>6, <1>7, <1>8, <1>9

LEMMA CancelRestKeeps ==
  ASSUME IInv, CancelRest
  PROVE  IInv'
<1>. USE RequestAssumption, BoundAssumption
    DEF CancelRest, Silent, EndStep, machineIdle, IInv,
        turnVars, approvalVars, effectVars, goalVars, countVars,
        toolVars, promptVars, exceptStray
<1>1. TypeOK'
  <2>1. /\ last' \in Last
        /\ visible' \in {"user", "tool", "assistant"}
        /\ command' \in Command
    BY DEF TypeOK, Last, Command
  <2>2. pc' \in PC /\ yield' \in BOOLEAN /\ cancelled' \in BOOLEAN
    BY DEF TypeOK, PC
  <2>3. /\ turns' \in Nat /\ denials' \in Nat /\ attempts' \in Nat /\ calls' \in Nat
    BY DEF TypeOK
  <2>4. /\ nudged' \in BOOLEAN /\ active' \in BOOLEAN
        /\ goal' \in BOOLEAN /\ grind' \in BOOLEAN
    BY DEF TypeOK
  <2>5. /\ used' \subseteq Request /\ requests' \subseteq used'
        /\ marks' \subseteq requests' /\ prompts' \subseteq requests'
        /\ batch' \subseteq requests' /\ done' \subseteq batch'
        /\ reply' \subseteq requests' /\ answered' \subseteq Request
        /\ out' \subseteq batch' \ done'
    BY DEF TypeOK, EffectInv, Unanswered
  <2>6. /\ exec' \in [Request -> {"unset", "yes", "no"}]
        /\ asks' \subseteq Request
        /\ confirmed' \in [Request -> {"none", "allow", "deny"}]
        /\ mode' \in {"chat", "approve"}
        /\ ran' \in [Request -> Nat] /\ stray' \in [Request -> Nat]
        /\ replies' \in [Request -> Nat]
    BY DEF TypeOK
  <2>7. /\ queue' \in Nat /\ drained' \in Nat /\ delivered' \in Nat
        /\ accepted' \in Nat /\ discarded' \in Nat
        /\ messages' \in Nat /\ steers' \in Nat /\ faults' \in Nat /\ switches' \in Nat
    BY DEF TypeOK
  <2>. QED  BY <2>1, <2>2, <2>3, <2>4, <2>5, <2>6, <2>7 DEF TypeOK
<1>2. EffectInv'
  BY DEF TypeOK, EffectInv
<1>3. ReplyInv'
  BY DEF TypeOK, EffectInv, ReplyInv, Unanswered
<1>4. AskInv'
  BY DEF TypeOK, EffectInv, AskInv
<1>5. BatchInv'
  BY DEF TypeOK, EffectInv, BatchInv, AskInv, Allowed, ModeStable
<1>6. RunInv'
  BY DEF TypeOK, EffectInv, RunInv, Weight
<1>7. CallInv'
  BY DEF TypeOK, CallInv
<1>8. SteersKept'
  BY DEF TypeOK, EffectInv, SteersKept
<1>9. HookInv'
  BY DEF TypeOK, HookInv, Unanswered
<1>. QED  BY <1>1, <1>2, <1>3, <1>4, <1>5, <1>6, <1>7, <1>8, <1>9

LEMMA NudgeKeeps ==
  ASSUME IInv, Nudge
  PROVE  IInv'
<1>. USE RequestAssumption, BoundAssumption
    DEF Nudge, AtEnd, Hidden, EndStep, machineIdle, IInv,
        turnVars, approvalVars, effectVars, goalVars, countVars,
        toolVars, promptVars, exceptStray
<1>1. TypeOK'
  BY DEF TypeOK, EffectInv, PC, Last
<1>2. EffectInv'
  BY DEF TypeOK, EffectInv
<1>3. ReplyInv'
  BY DEF TypeOK, EffectInv, ReplyInv
<1>4. AskInv'
  BY DEF TypeOK, EffectInv, AskInv
<1>5. BatchInv'
  BY DEF TypeOK, EffectInv, BatchInv, AskInv, Allowed, ModeStable
<1>6. RunInv'
  BY DEF TypeOK, EffectInv, RunInv, Weight
<1>7. CallInv'
  BY DEF TypeOK, CallInv
<1>8. SteersKept'
  BY DEF TypeOK, EffectInv, SteersKept
<1>9. HookInv'
  BY DEF TypeOK, HookInv, Unanswered
<1>. QED  BY <1>1, <1>2, <1>3, <1>4, <1>5, <1>6, <1>7, <1>8, <1>9

LEMMA GrindKeeps ==
  ASSUME IInv, Grind
  PROVE  IInv'
<1>. USE RequestAssumption, BoundAssumption
    DEF Grind, AtEnd, Hidden, EndStep, machineIdle, IInv,
        turnVars, approvalVars, effectVars, goalVars, countVars,
        toolVars, promptVars, exceptStray
<1>1. TypeOK'
  BY DEF TypeOK, EffectInv, PC, Last
<1>2. EffectInv'
  BY DEF TypeOK, EffectInv
<1>3. ReplyInv'
  BY DEF TypeOK, EffectInv, ReplyInv
<1>4. AskInv'
  BY DEF TypeOK, EffectInv, AskInv
<1>5. BatchInv'
  BY DEF TypeOK, EffectInv, BatchInv, AskInv, Allowed, ModeStable
<1>6. RunInv'
  BY DEF TypeOK, EffectInv, RunInv, Weight
<1>7. CallInv'
  BY DEF TypeOK, CallInv
<1>8. SteersKept'
  BY DEF TypeOK, EffectInv, SteersKept
<1>9. HookInv'
  BY DEF TypeOK, HookInv, Unanswered
<1>. QED  BY <1>1, <1>2, <1>3, <1>4, <1>5, <1>6, <1>7, <1>8, <1>9

LEMMA GoalsMetKeeps ==
  ASSUME IInv, GoalsMet
  PROVE  IInv'
<1>. USE RequestAssumption, BoundAssumption
    DEF GoalsMet, AtEnd, Silent, IInv,
        turnVars, approvalVars, effectVars, goalVars, countVars,
        toolVars, promptVars, exceptStray
<1>1. TypeOK'
  BY DEF TypeOK, EffectInv, PC
<1>2. EffectInv'
  BY DEF TypeOK, EffectInv
<1>3. ReplyInv'
  BY DEF TypeOK, EffectInv, ReplyInv
<1>4. AskInv'
  BY DEF TypeOK, EffectInv, AskInv
<1>5. BatchInv'
  BY DEF TypeOK, EffectInv, BatchInv, AskInv, Allowed, ModeStable
<1>6. RunInv'
  BY DEF TypeOK, EffectInv, RunInv, Weight
<1>7. CallInv'
  BY DEF TypeOK, CallInv
<1>8. SteersKept'
  BY DEF TypeOK, EffectInv, SteersKept
<1>9. HookInv'
  BY DEF TypeOK, HookInv, Unanswered, PastTools, Pending, Awaiting
<1>. QED  BY <1>1, <1>2, <1>3, <1>4, <1>5, <1>6, <1>7, <1>8, <1>9

LEMMA ChecksPassKeeps ==
  ASSUME IInv, ChecksPass
  PROVE  IInv'
<1>. USE RequestAssumption, BoundAssumption
    DEF ChecksPass, Silent, machineIdle, IInv,
        turnVars, approvalVars, effectVars, goalVars, countVars,
        toolVars, promptVars, exceptStray
<1>1. TypeOK'
  BY DEF TypeOK, EffectInv, PC
<1>2. EffectInv'
  BY DEF TypeOK, EffectInv
<1>3. ReplyInv'
  BY DEF TypeOK, EffectInv, ReplyInv
<1>4. AskInv'
  BY DEF TypeOK, EffectInv, AskInv
<1>5. BatchInv'
  BY DEF TypeOK, EffectInv, BatchInv, AskInv, Allowed, ModeStable
<1>6. RunInv'
  BY DEF TypeOK, EffectInv, RunInv, Weight
<1>7. CallInv'
  BY DEF TypeOK, CallInv
<1>8. SteersKept'
  BY DEF TypeOK, EffectInv, SteersKept
<1>9. HookInv'
  BY DEF TypeOK, HookInv, Unanswered
<1>. QED  BY <1>1, <1>2, <1>3, <1>4, <1>5, <1>6, <1>7, <1>8, <1>9

LEMMA RetryErrorKeeps ==
  ASSUME IInv, RetryError
  PROVE  IInv'
<1>. USE RequestAssumption, BoundAssumption
    DEF RetryError, Error, CountTurn, EndStep, machineIdle, IInv,
        turnVars, approvalVars, effectVars, goalVars, countVars,
        toolVars, promptVars, exceptStray
<1>1. TypeOK'
  <2>1. /\ last' \in Last
        /\ visible' \in {"user", "tool", "assistant"}
        /\ command' \in Command
    BY DEF TypeOK, Last, Command
  <2>2. pc' \in PC /\ yield' \in BOOLEAN /\ cancelled' \in BOOLEAN
    BY DEF TypeOK, PC
  <2>3. /\ turns' \in Nat /\ denials' \in Nat /\ attempts' \in Nat /\ calls' \in Nat
    BY DEF TypeOK
  <2>4. /\ nudged' \in BOOLEAN /\ active' \in BOOLEAN
        /\ goal' \in BOOLEAN /\ grind' \in BOOLEAN
    BY DEF TypeOK
  <2>5. /\ used' \subseteq Request /\ requests' \subseteq used'
        /\ marks' \subseteq requests' /\ prompts' \subseteq requests'
        /\ batch' \subseteq requests' /\ done' \subseteq batch'
        /\ reply' \subseteq requests' /\ answered' \subseteq Request
        /\ out' \subseteq batch' \ done'
    BY DEF TypeOK, EffectInv
  <2>6. /\ exec' \in [Request -> {"unset", "yes", "no"}]
        /\ asks' \subseteq Request
        /\ confirmed' \in [Request -> {"none", "allow", "deny"}]
        /\ mode' \in {"chat", "approve"}
        /\ ran' \in [Request -> Nat] /\ stray' \in [Request -> Nat]
        /\ replies' \in [Request -> Nat]
    BY DEF TypeOK
  <2>7. /\ queue' \in Nat /\ drained' \in Nat /\ delivered' \in Nat
        /\ accepted' \in Nat /\ discarded' \in Nat
        /\ messages' \in Nat /\ steers' \in Nat /\ faults' \in Nat /\ switches' \in Nat
    BY DEF TypeOK
  <2>. QED  BY <2>1, <2>2, <2>3, <2>4, <2>5, <2>6, <2>7 DEF TypeOK
<1>2. EffectInv'
  BY DEF TypeOK, EffectInv
<1>3. ReplyInv'
  BY DEF TypeOK, EffectInv, ReplyInv
<1>4. AskInv'
  BY DEF TypeOK, EffectInv, AskInv
<1>5. BatchInv'
  BY DEF TypeOK, EffectInv, BatchInv, AskInv, Allowed, ModeStable
<1>6. RunInv'
  BY DEF TypeOK, EffectInv, RunInv, Weight
<1>7. CallInv'
  BY DEF TypeOK, CallInv
<1>8. SteersKept'
  BY DEF TypeOK, EffectInv, SteersKept
<1>9. HookInv'
  BY DEF TypeOK, HookInv, Unanswered
<1>. QED  BY <1>1, <1>2, <1>3, <1>4, <1>5, <1>6, <1>7, <1>8, <1>9

LEMMA RetryKeeps ==
  ASSUME IInv, Retry
  PROVE  IInv'
<1>. USE RequestAssumption, BoundAssumption
    DEF Retry, EndStep, machineIdle, IInv,
        turnVars, approvalVars, effectVars, goalVars, countVars,
        toolVars, promptVars, exceptStray
<1>1. TypeOK'
  <2>1. /\ last' \in Last
        /\ visible' \in {"user", "tool", "assistant"}
        /\ command' \in Command
    BY DEF TypeOK, Last, Command
  <2>2. pc' \in PC /\ yield' \in BOOLEAN /\ cancelled' \in BOOLEAN
    BY DEF TypeOK, PC
  <2>3. /\ turns' \in Nat /\ denials' \in Nat /\ attempts' \in Nat /\ calls' \in Nat
    BY DEF TypeOK
  <2>4. /\ nudged' \in BOOLEAN /\ active' \in BOOLEAN
        /\ goal' \in BOOLEAN /\ grind' \in BOOLEAN
    BY DEF TypeOK
  <2>5. /\ used' \subseteq Request /\ requests' \subseteq used'
        /\ marks' \subseteq requests' /\ prompts' \subseteq requests'
        /\ batch' \subseteq requests' /\ done' \subseteq batch'
        /\ reply' \subseteq requests' /\ answered' \subseteq Request
        /\ out' \subseteq batch' \ done'
    BY DEF TypeOK, EffectInv
  <2>6. /\ exec' \in [Request -> {"unset", "yes", "no"}]
        /\ asks' \subseteq Request
        /\ confirmed' \in [Request -> {"none", "allow", "deny"}]
        /\ mode' \in {"chat", "approve"}
        /\ ran' \in [Request -> Nat] /\ stray' \in [Request -> Nat]
        /\ replies' \in [Request -> Nat]
    BY DEF TypeOK
  <2>7. /\ queue' \in Nat /\ drained' \in Nat /\ delivered' \in Nat
        /\ accepted' \in Nat /\ discarded' \in Nat
        /\ messages' \in Nat /\ steers' \in Nat /\ faults' \in Nat /\ switches' \in Nat
    BY DEF TypeOK
  <2>. QED  BY <2>1, <2>2, <2>3, <2>4, <2>5, <2>6, <2>7 DEF TypeOK
<1>2. EffectInv'
  BY DEF TypeOK, EffectInv
<1>3. ReplyInv'
  BY DEF TypeOK, EffectInv, ReplyInv
<1>4. AskInv'
  BY DEF TypeOK, EffectInv, AskInv
<1>5. BatchInv'
  BY DEF TypeOK, EffectInv, BatchInv, AskInv, Allowed, ModeStable
<1>6. RunInv'
  BY DEF TypeOK, EffectInv, RunInv, Weight
<1>7. CallInv'
  BY DEF TypeOK, CallInv
<1>8. SteersKept'
  BY DEF TypeOK, EffectInv, SteersKept
<1>9. HookInv'
  BY DEF TypeOK, HookInv, Unanswered
<1>. QED  BY <1>1, <1>2, <1>3, <1>4, <1>5, <1>6, <1>7, <1>8, <1>9

LEMMA StopAllowedKeeps ==
  ASSUME IInv, StopAllowed
  PROVE  IInv'
<1>. USE RequestAssumption, BoundAssumption
    DEF StopAllowed, Silent, EndStep, machineIdle, IInv,
        turnVars, approvalVars, effectVars, goalVars, countVars,
        toolVars, promptVars, exceptStray
<1>1. TypeOK'
  BY DEF TypeOK, EffectInv, PC
<1>2. EffectInv'
  BY DEF TypeOK, EffectInv
<1>3. ReplyInv'
  BY DEF TypeOK, EffectInv, ReplyInv
<1>4. AskInv'
  BY DEF TypeOK, EffectInv, AskInv
<1>5. BatchInv'
  BY DEF TypeOK, EffectInv, BatchInv, AskInv, Allowed, ModeStable
<1>6. RunInv'
  BY DEF TypeOK, EffectInv, RunInv, Weight
<1>7. CallInv'
  BY DEF TypeOK, CallInv
<1>8. SteersKept'
  BY DEF TypeOK, EffectInv, SteersKept
<1>9. HookInv'
  BY DEF TypeOK, HookInv, Unanswered
<1>. QED  BY <1>1, <1>2, <1>3, <1>4, <1>5, <1>6, <1>7, <1>8, <1>9

LEMMA StopDeniedKeeps ==
  ASSUME IInv, StopDenied
  PROVE  IInv'
<1>. USE RequestAssumption, BoundAssumption
    DEF StopDenied, Text, CountTurn, Hidden, EndStep, machineIdle, IInv,
        turnVars, approvalVars, effectVars, goalVars, countVars,
        toolVars, promptVars, exceptStray
<1>1. TypeOK'
  <2>1. /\ last' \in Last
        /\ visible' \in {"user", "tool", "assistant"}
        /\ command' \in Command
    BY DEF TypeOK, Last, Command
  <2>2. pc' \in PC /\ yield' \in BOOLEAN /\ cancelled' \in BOOLEAN
    BY DEF TypeOK, PC
  <2>3. /\ turns' \in Nat /\ denials' \in Nat /\ attempts' \in Nat /\ calls' \in Nat
    BY DEF TypeOK
  <2>4. /\ nudged' \in BOOLEAN /\ active' \in BOOLEAN
        /\ goal' \in BOOLEAN /\ grind' \in BOOLEAN
    BY DEF TypeOK
  <2>5. /\ used' \subseteq Request /\ requests' \subseteq used'
        /\ marks' \subseteq requests' /\ prompts' \subseteq requests'
        /\ batch' \subseteq requests' /\ done' \subseteq batch'
        /\ reply' \subseteq requests' /\ answered' \subseteq Request
        /\ out' \subseteq batch' \ done'
    BY DEF TypeOK, EffectInv
  <2>6. /\ exec' \in [Request -> {"unset", "yes", "no"}]
        /\ asks' \subseteq Request
        /\ confirmed' \in [Request -> {"none", "allow", "deny"}]
        /\ mode' \in {"chat", "approve"}
        /\ ran' \in [Request -> Nat] /\ stray' \in [Request -> Nat]
        /\ replies' \in [Request -> Nat]
    BY DEF TypeOK
  <2>7. /\ queue' \in Nat /\ drained' \in Nat /\ delivered' \in Nat
        /\ accepted' \in Nat /\ discarded' \in Nat
        /\ messages' \in Nat /\ steers' \in Nat /\ faults' \in Nat /\ switches' \in Nat
    BY DEF TypeOK
  <2>. QED  BY <2>1, <2>2, <2>3, <2>4, <2>5, <2>6, <2>7 DEF TypeOK
<1>2. EffectInv'
  BY DEF TypeOK, EffectInv
<1>3. ReplyInv'
  BY DEF TypeOK, EffectInv, ReplyInv
<1>4. AskInv'
  BY DEF TypeOK, EffectInv, AskInv
<1>5. BatchInv'
  BY DEF TypeOK, EffectInv, BatchInv, AskInv, Allowed, ModeStable
<1>6. RunInv'
  BY DEF TypeOK, EffectInv, RunInv, Weight
<1>7. CallInv'
  BY DEF TypeOK, CallInv
<1>8. SteersKept'
  BY DEF TypeOK, EffectInv, SteersKept
<1>9. HookInv'
  BY DEF TypeOK, HookInv, Unanswered
<1>. QED  BY <1>1, <1>2, <1>3, <1>4, <1>5, <1>6, <1>7, <1>8, <1>9

LEMMA ExitOnErrorKeeps ==
  ASSUME IInv, ExitOnError
  PROVE  IInv'
<1>. USE RequestAssumption, BoundAssumption
    DEF ExitOnError, Silent, EndStep, machineIdle, IInv,
        turnVars, approvalVars, effectVars, goalVars, countVars,
        toolVars, promptVars, exceptStray
<1>1. TypeOK'
  BY DEF TypeOK, EffectInv, PC, Last
<1>2. EffectInv'
  BY DEF TypeOK, EffectInv
<1>3. ReplyInv'
  BY DEF TypeOK, EffectInv, ReplyInv
<1>4. AskInv'
  BY DEF TypeOK, EffectInv, AskInv
<1>5. BatchInv'
  BY DEF TypeOK, EffectInv, BatchInv, AskInv, Allowed, ModeStable
<1>6. RunInv'
  BY DEF TypeOK, EffectInv, RunInv, Weight
<1>7. CallInv'
  BY DEF TypeOK, CallInv
<1>8. SteersKept'
  BY DEF TypeOK, EffectInv, SteersKept
<1>9. HookInv'
  BY DEF TypeOK, HookInv, Unanswered
<1>. QED  BY <1>1, <1>2, <1>3, <1>4, <1>5, <1>6, <1>7, <1>8, <1>9

LEMMA CallModelKeeps ==
  ASSUME IInv, CallModel
  PROVE  IInv'
<1>. USE RequestAssumption, BoundAssumption
    DEF CallModel, machineIdle, IInv,
        turnVars, approvalVars, effectVars, goalVars, countVars,
        toolVars, promptVars, exceptStray
<1>1. TypeOK'
  BY DEF TypeOK, EffectInv, PC
<1>2. EffectInv'
  BY DEF TypeOK, EffectInv
<1>3. ReplyInv'
  BY DEF TypeOK, EffectInv, ReplyInv
<1>4. AskInv'
  BY DEF TypeOK, EffectInv, AskInv
<1>5. BatchInv'
  BY DEF TypeOK, EffectInv, BatchInv, AskInv, Allowed, ModeStable
<1>6. RunInv'
  BY DEF TypeOK, EffectInv, RunInv, Weight
<1>7. CallInv'
  BY DEF TypeOK, CallInv, PastTools, PastApproval, PastBudget, OutOfTurns
<1>8. SteersKept'
  BY DEF TypeOK, EffectInv, SteersKept
<1>9. HookInv'
  BY DEF TypeOK, HookInv, Unanswered
<1>. QED  BY <1>1, <1>2, <1>3, <1>4, <1>5, <1>6, <1>7, <1>8, <1>9

LEMMA NothingAppliesKeeps ==
  ASSUME IInv, NothingApplies
  PROVE  IInv'
<1>. USE RequestAssumption, BoundAssumption
    DEF NothingApplies, Silent, EndStep, machineIdle, IInv,
        turnVars, approvalVars, effectVars, goalVars, countVars,
        toolVars, promptVars, exceptStray
<1>1. TypeOK'
  BY DEF TypeOK, EffectInv, PC
<1>2. EffectInv'
  BY DEF TypeOK, EffectInv
<1>3. ReplyInv'
  BY DEF TypeOK, EffectInv, ReplyInv
<1>4. AskInv'
  BY DEF TypeOK, EffectInv, AskInv
<1>5. BatchInv'
  BY DEF TypeOK, EffectInv, BatchInv, AskInv, Allowed, ModeStable
<1>6. RunInv'
  BY DEF TypeOK, EffectInv, RunInv, Weight
<1>7. CallInv'
  BY DEF TypeOK, CallInv
<1>8. SteersKept'
  BY DEF TypeOK, EffectInv, SteersKept
<1>9. HookInv'
  BY DEF TypeOK, HookInv, Unanswered
<1>. QED  BY <1>1, <1>2, <1>3, <1>4, <1>5, <1>6, <1>7, <1>8, <1>9

LEMMA ModelAnswersKeeps ==
  ASSUME IInv, NEW R \in SUBSET Request, ModelAnswers(R)
  PROVE  IInv'
<1>. USE RequestAssumption, BoundAssumption
    DEF ModelAnswers, Said, EndStep, machineIdle, IInv,
        turnVars, approvalVars, effectVars, goalVars, countVars,
        toolVars, promptVars, exceptStray
<1>1. TypeOK'
  <2>1. /\ last' \in Last
        /\ visible' \in {"user", "tool", "assistant"}
        /\ command' \in Command
    BY DEF TypeOK, Last, Command
  <2>2. pc' \in PC /\ yield' \in BOOLEAN /\ cancelled' \in BOOLEAN
    BY DEF TypeOK, PC
  <2>3. /\ turns' \in Nat /\ denials' \in Nat /\ attempts' \in Nat /\ calls' \in Nat
    BY DEF TypeOK
  <2>4. /\ nudged' \in BOOLEAN /\ active' \in BOOLEAN
        /\ goal' \in BOOLEAN /\ grind' \in BOOLEAN
    BY DEF TypeOK
  <2>5. /\ used' \subseteq Request /\ requests' \subseteq used'
        /\ marks' \subseteq requests' /\ prompts' \subseteq requests'
        /\ batch' \subseteq requests' /\ done' \subseteq batch'
        /\ reply' \subseteq requests' /\ answered' \subseteq Request
        /\ out' \subseteq batch' \ done'
    BY DEF TypeOK, EffectInv, Unanswered
  <2>6. /\ exec' \in [Request -> {"unset", "yes", "no"}]
        /\ asks' \subseteq Request
        /\ confirmed' \in [Request -> {"none", "allow", "deny"}]
        /\ mode' \in {"chat", "approve"}
        /\ ran' \in [Request -> Nat] /\ stray' \in [Request -> Nat]
        /\ replies' \in [Request -> Nat]
    BY DEF TypeOK
  <2>7. /\ queue' \in Nat /\ drained' \in Nat /\ delivered' \in Nat
        /\ accepted' \in Nat /\ discarded' \in Nat
        /\ messages' \in Nat /\ steers' \in Nat /\ faults' \in Nat /\ switches' \in Nat
    BY DEF TypeOK
  <2>. QED  BY <2>1, <2>2, <2>3, <2>4, <2>5, <2>6, <2>7 DEF TypeOK
<1>2. EffectInv'
  BY DEF TypeOK, EffectInv
<1>3. ReplyInv'
  BY DEF TypeOK, EffectInv, ReplyInv
<1>4. AskInv'
  BY DEF TypeOK, EffectInv, AskInv
<1>5. BatchInv'
  BY DEF TypeOK, EffectInv, BatchInv, AskInv, Allowed, ModeStable
<1>6. RunInv'
  BY DEF TypeOK, EffectInv, RunInv, Weight
<1>7. CallInv'
  BY DEF TypeOK, CallInv
<1>8. SteersKept'
  BY DEF TypeOK, EffectInv, SteersKept
<1>9. HookInv'
  BY DEF TypeOK, HookInv, Unanswered
<1>. QED  BY <1>1, <1>2, <1>3, <1>4, <1>5, <1>6, <1>7, <1>8, <1>9

LEMMA EmptyAnswerKeeps ==
  ASSUME IInv, EmptyAnswer
  PROVE  IInv'
<1>. USE RequestAssumption, BoundAssumption
    DEF EmptyAnswer, Said, EndStep, machineIdle, IInv,
        turnVars, approvalVars, effectVars, goalVars, countVars,
        toolVars, promptVars, exceptStray
<1>1. TypeOK'
  <2>1. /\ last' \in Last
        /\ visible' \in {"user", "tool", "assistant"}
        /\ command' \in Command
    BY DEF TypeOK, Last, Command
  <2>2. pc' \in PC /\ yield' \in BOOLEAN /\ cancelled' \in BOOLEAN
    BY DEF TypeOK, PC
  <2>3. /\ turns' \in Nat /\ denials' \in Nat /\ attempts' \in Nat /\ calls' \in Nat
    BY DEF TypeOK
  <2>4. /\ nudged' \in BOOLEAN /\ active' \in BOOLEAN
        /\ goal' \in BOOLEAN /\ grind' \in BOOLEAN
    BY DEF TypeOK
  <2>5. /\ used' \subseteq Request /\ requests' \subseteq used'
        /\ marks' \subseteq requests' /\ prompts' \subseteq requests'
        /\ batch' \subseteq requests' /\ done' \subseteq batch'
        /\ reply' \subseteq requests' /\ answered' \subseteq Request
        /\ out' \subseteq batch' \ done'
    BY DEF TypeOK, EffectInv
  <2>6. /\ exec' \in [Request -> {"unset", "yes", "no"}]
        /\ asks' \subseteq Request
        /\ confirmed' \in [Request -> {"none", "allow", "deny"}]
        /\ mode' \in {"chat", "approve"}
        /\ ran' \in [Request -> Nat] /\ stray' \in [Request -> Nat]
        /\ replies' \in [Request -> Nat]
    BY DEF TypeOK
  <2>7. /\ queue' \in Nat /\ drained' \in Nat /\ delivered' \in Nat
        /\ accepted' \in Nat /\ discarded' \in Nat
        /\ messages' \in Nat /\ steers' \in Nat /\ faults' \in Nat /\ switches' \in Nat
    BY DEF TypeOK
  <2>. QED  BY <2>1, <2>2, <2>3, <2>4, <2>5, <2>6, <2>7 DEF TypeOK
<1>2. EffectInv'
  BY DEF TypeOK, EffectInv
<1>3. ReplyInv'
  BY DEF TypeOK, EffectInv, ReplyInv
<1>4. AskInv'
  BY DEF TypeOK, EffectInv, AskInv
<1>5. BatchInv'
  BY DEF TypeOK, EffectInv, BatchInv, AskInv, Allowed, ModeStable
<1>6. RunInv'
  BY DEF TypeOK, EffectInv, RunInv, Weight
<1>7. CallInv'
  BY DEF TypeOK, CallInv
<1>8. SteersKept'
  BY DEF TypeOK, EffectInv, SteersKept
<1>9. HookInv'
  BY DEF TypeOK, HookInv, Unanswered
<1>. QED  BY <1>1, <1>2, <1>3, <1>4, <1>5, <1>6, <1>7, <1>8, <1>9

LEMMA StoreFailsKeeps ==
  ASSUME IInv, StoreFails
  PROVE  IInv'
<1>. USE RequestAssumption, BoundAssumption
    DEF StoreFails, LetGo, Silent, EndStep, IInv,
        turnVars, approvalVars, effectVars, goalVars, countVars,
        toolVars, promptVars, exceptStray
<1>1. TypeOK'
  <2>1. /\ last' \in Last
        /\ visible' \in {"user", "tool", "assistant"}
        /\ command' \in Command
    BY DEF TypeOK, Last, Command
  <2>2. pc' \in PC /\ yield' \in BOOLEAN /\ cancelled' \in BOOLEAN
    BY DEF TypeOK, PC
  <2>3. /\ turns' \in Nat /\ denials' \in Nat /\ attempts' \in Nat /\ calls' \in Nat
    BY DEF TypeOK
  <2>4. /\ nudged' \in BOOLEAN /\ active' \in BOOLEAN
        /\ goal' \in BOOLEAN /\ grind' \in BOOLEAN
    BY DEF TypeOK
  <2>5. /\ used' \subseteq Request /\ requests' \subseteq used'
        /\ marks' \subseteq requests' /\ prompts' \subseteq requests'
        /\ batch' \subseteq requests' /\ done' \subseteq batch'
        /\ reply' \subseteq requests' /\ answered' \subseteq Request
        /\ out' \subseteq batch' \ done'
    BY DEF TypeOK, EffectInv
  <2>6. /\ exec' \in [Request -> {"unset", "yes", "no"}]
        /\ asks' \subseteq Request
        /\ confirmed' \in [Request -> {"none", "allow", "deny"}]
        /\ mode' \in {"chat", "approve"}
        /\ ran' \in [Request -> Nat] /\ stray' \in [Request -> Nat]
        /\ replies' \in [Request -> Nat]
    BY DEF TypeOK
  <2>7. /\ queue' \in Nat /\ drained' \in Nat /\ delivered' \in Nat
        /\ accepted' \in Nat /\ discarded' \in Nat
        /\ messages' \in Nat /\ steers' \in Nat /\ faults' \in Nat /\ switches' \in Nat
    BY DEF TypeOK
  <2>. QED  BY <2>1, <2>2, <2>3, <2>4, <2>5, <2>6, <2>7 DEF TypeOK
<1>2. EffectInv'
  BY DEF TypeOK, EffectInv
<1>3. ReplyInv'
  BY DEF TypeOK, EffectInv, ReplyInv
<1>4. AskInv'
  BY DEF TypeOK, EffectInv, AskInv
<1>5. BatchInv'
  BY DEF TypeOK, EffectInv, BatchInv, AskInv, Allowed, ModeStable
<1>6. RunInv'
  BY DEF TypeOK, EffectInv, RunInv, Weight
<1>7. CallInv'
  BY DEF TypeOK, CallInv
<1>8. SteersKept'
  BY DEF TypeOK, EffectInv, SteersKept
<1>9. HookInv'
  BY DEF TypeOK, HookInv, Unanswered
<1>. QED  BY <1>1, <1>2, <1>3, <1>4, <1>5, <1>6, <1>7, <1>8, <1>9

LEMMA CrashKeeps ==
  ASSUME IInv, Crash
  PROVE  IInv'
<1>. USE RequestAssumption, BoundAssumption
    DEF Crash, LetGo, Silent, EndStep, IInv,
        turnVars, approvalVars, effectVars, goalVars, countVars,
        toolVars, promptVars, exceptStray
<1>1. TypeOK'
  <2>1. /\ last' \in Last
        /\ visible' \in {"user", "tool", "assistant"}
        /\ command' \in Command
    BY DEF TypeOK, Last, Command
  <2>2. pc' \in PC /\ yield' \in BOOLEAN /\ cancelled' \in BOOLEAN
    BY DEF TypeOK, PC
  <2>3. /\ turns' \in Nat /\ denials' \in Nat /\ attempts' \in Nat /\ calls' \in Nat
    BY DEF TypeOK
  <2>4. /\ nudged' \in BOOLEAN /\ active' \in BOOLEAN
        /\ goal' \in BOOLEAN /\ grind' \in BOOLEAN
    BY DEF TypeOK
  <2>5. /\ used' \subseteq Request /\ requests' \subseteq used'
        /\ marks' \subseteq requests' /\ prompts' \subseteq requests'
        /\ batch' \subseteq requests' /\ done' \subseteq batch'
        /\ reply' \subseteq requests' /\ answered' \subseteq Request
        /\ out' \subseteq batch' \ done'
    BY DEF TypeOK, EffectInv
  <2>6. /\ exec' \in [Request -> {"unset", "yes", "no"}]
        /\ asks' \subseteq Request
        /\ confirmed' \in [Request -> {"none", "allow", "deny"}]
        /\ mode' \in {"chat", "approve"}
        /\ ran' \in [Request -> Nat] /\ stray' \in [Request -> Nat]
        /\ replies' \in [Request -> Nat]
    BY DEF TypeOK
  <2>7. /\ queue' \in Nat /\ drained' \in Nat /\ delivered' \in Nat
        /\ accepted' \in Nat /\ discarded' \in Nat
        /\ messages' \in Nat /\ steers' \in Nat /\ faults' \in Nat /\ switches' \in Nat
    BY DEF TypeOK
  <2>. QED  BY <2>1, <2>2, <2>3, <2>4, <2>5, <2>6, <2>7 DEF TypeOK
<1>2. EffectInv'
  BY DEF TypeOK, EffectInv
<1>3. ReplyInv'
  BY DEF TypeOK, EffectInv, ReplyInv
<1>4. AskInv'
  BY DEF TypeOK, EffectInv, AskInv
<1>5. BatchInv'
  BY DEF TypeOK, EffectInv, BatchInv, AskInv, Allowed, ModeStable
<1>6. RunInv'
  BY DEF TypeOK, EffectInv, RunInv, Weight
<1>7. CallInv'
  BY DEF TypeOK, CallInv
<1>8. SteersKept'
  BY DEF TypeOK, EffectInv, SteersKept
<1>9. HookInv'
  BY DEF TypeOK, HookInv, Unanswered
<1>. QED  BY <1>1, <1>2, <1>3, <1>4, <1>5, <1>6, <1>7, <1>8, <1>9

LEMMA StepInv == IInv /\ [Next]_vars => IInv'
<1>. SUFFICES ASSUME IInv, [Next]_vars PROVE IInv'
  OBVIOUS
<1>1. CASE UNCHANGED vars
   BY <1>1 DEF vars, turnVars, approvalVars, effectVars, goalVars, countVars,
        toolVars, promptVars, exceptStray,
      IInv, TypeOK, EffectInv, ReplyInv, AskInv,
              BatchInv, Allowed, RunInv, Weight, CallInv, SteersKept, HookInv, Unanswered
<1>2. CASE Client
  BY <1>2,
     UserMessageKeeps, ResumeKeeps, AcceptSteerKeeps, SendSteerKeeps,
     EndPromptKeeps, CancelKeeps, SetModeKeeps, ConfirmKeeps
  DEF Client
<1>3. CASE Machine
  BY <1>3,
     SetGoalKeeps, AnswerCommandKeeps, BeginWorkKeeps, DrainKeeps,
     PersistSteerKeeps, StopAtMaxTurnsKeeps, ApproveKeeps, MarkKeeps,
     AskKeeps, AppliedKeeps, ListToolsKeeps, DispatchKeeps,
     TakeEffectKeeps, ToolReturnsKeeps,
     CollectResultsKeeps, RejectUnknownKeeps, PersistReplyKeeps,
     CancelRestKeeps, NudgeKeeps, GrindKeeps, GoalsMetKeeps,
     ChecksPassKeeps, RetryErrorKeeps, RetryKeeps, StopAllowedKeeps,
     StopDeniedKeeps, ExitOnErrorKeeps, CallModelKeeps,
     NothingAppliesKeeps, ModelAnswersKeeps, EmptyAnswerKeeps
  DEF Machine
<1>4. CASE StoreFails \/ Crash \/ \E r \in Request : LateEffect(r)
  BY <1>4, StoreFailsKeeps, CrashKeeps, LateEffectKeeps
<1>. QED  BY <1>1, <1>2, <1>3, <1>4 DEF Next

LEMMA InvHolds == Spec => []IInv
  BY InitInv, StepInv, PTL DEF Spec

-----------------------------------------------------------------------------
\* Every variable keeps its type: the effects of a step speak of requests of
\* the turn only.
THEOREM TypeCorrect == Spec => []TypeOK
<1>1. IInv => TypeOK
  BY DEF IInv
<1>. QED  BY InvHolds, <1>1, PTL

\* No tool takes effect against the inspectors or without the approval they
\* want, as long as the mode is not changed while tool_execution lists tools.
THEOREM ApprovedOnly ==
  ASSUME ModeStable
  PROVE  Spec => []NothingUnapproved
<1>1. IInv => NothingUnapproved
  BY DEF IInv, BatchInv, Allowed, NothingUnapproved
<1>. QED  BY InvHolds, <1>1, PTL

\* A tool call has one effect, and one more for each fault at most, the calls
\* that may still take effect included.
THEOREM RunOnce == Spec => []ExecutedOnce
<1>1. IInv => ExecutedOnce
  BY DEF IInv, TypeOK, RunInv, Weight, Abroad, ExecutedOnce
<1>. QED  BY InvHolds, <1>1, PTL

\* The turn budget bounds the model calls of an attempt.
THEOREM BudgetKept == Spec => []BudgetHolds
<1>1. IInv => BudgetHolds
  BY DEF IInv, CallInv, BudgetHolds
<1>. QED  BY InvHolds, <1>1, PTL

\* Every acknowledged steer is queued, on its way, in the conversation, or was
\* dropped with its prompt, as long as there is no fault.
THEOREM SteersSafe == Spec => []SteersKept
<1>1. IInv => SteersKept
  BY DEF IInv
<1>. QED  BY InvHolds, <1>1, PTL

\* A run that ends by itself leaves only requests it asked the user about.
THEOREM OnlyQuestionsLeft == Spec => LeavesOnlyQuestions
<1>1. IInv /\ (NothingApplies \/ StopAllowed \/ ExitOnError) => Unanswered \subseteq asks
  BY DEF IInv, HookInv, NothingApplies, StopAllowed, ExitOnError, PastTools,
         Pending, Awaiting
<1>2. IInv /\ [Next]_vars =>
        [(NothingApplies \/ StopAllowed \/ ExitOnError) => Unanswered \subseteq asks]_vars
  BY <1>1
<1>. QED  BY InvHolds, <1>2, PTL DEF Spec, LeavesOnlyQuestions
-----------------------------------------------------------------------------
(* What is safe in "every run ends".  Each step of the machine ends the run, *)
(* or takes something that is not given back in the run: a steer, an         *)
(* attempt, a turn, a request left open, a mark to be made, the end of a     *)
(* turn, or a stage of the step.  The order is lexicographic.                *)

Open == Unanswered \ reply
Unmarked == ApprovalMarks \ marks
StageOf == [tools |-> 9, exec |-> 8, reply |-> 7, apply |-> 7, begin |-> 7,
            step |-> 6, respond |-> 5, steer |-> 5, check |-> 5, hook |-> 4,
            infer |-> 4, idle |-> 0]

\* What the steps between two stages leave as it was.
StageInv ==
    /\ pc = "steer" => drained > 0
    /\ pc = "respond" => turns = 0 /\ last = "kickoff"
    /\ pc = "infer" => turns < MaxTurns
    /\ pc = "apply" => turns < MaxTurns \/ InBlock
    /\ pc \in {"check", "hook"} => EndsTurn
    /\ command # "none" /\ last = "kickoff" => turns = 0

Smaller(new, old) == new \subseteq old /\ new # old

TakesSteer == queue' + drained' < queue + drained
TakesAttempt == attempts < attempts' /\ attempts' <= MaxRetries
TakesTurn == turns < turns' /\ turns <= MaxTurns
Answers == Smaller(Open', Open)
TakesMarks == Smaller(Unmarked', Unmarked)
LeavesEnd == EndsTurn /\ ~EndsTurn'
NextStage == StageOf[pc'] < StageOf[pc]
Effect == /\ pc' = pc
          /\ \/ Smaller(marks', marks) /\ prompts' = prompts
             \/ marks' = marks /\ Smaller(prompts', prompts)
             \/ /\ marks' = marks /\ prompts' = prompts /\ batch' = batch
                /\ \/ Smaller(batch \ done', batch \ done)
                   \/ done' = done /\ Smaller(out', out)

SameSteers == queue' + drained' = queue + drained
SameAttempts == attempts' = attempts
SameTurns == turns' = turns

\* What a step of the machine takes, the coarsest first.
RunNears ==
    \/ pc' = "idle"
    \/ TakesSteer
    \/ /\ SameSteers
       /\ \/ TakesAttempt
          \/ /\ SameAttempts
             /\ \/ TakesTurn
                \/ /\ SameTurns
                   /\ \/ Answers
                      \/ /\ Open' = Open
                         /\ \/ TakesMarks
                            \/ /\ Unmarked' = Unmarked
                               /\ \/ LeavesEnd
                                  \/ /\ EndsTurn' = EndsTurn
                                     /\ (NextStage \/ Effect)

\* Every step of a run takes it nearer to its end: no goal, hook, retry,
\* approval or steer sends the machine around without using something up.
EachStepNears == [][Machine => RunNears]_vars

-----------------------------------------------------------------------------
LEMMA InitStage == Init => StageInv
BY DEF Init, StageInv

LEMMA StageStays ==
  ASSUME TypeOK, EffectInv, StageInv, [Next]_vars
  PROVE  StageInv'
<1>. USE BoundAssumption DEF StageInv, EndsTurn, InBlock
<1>1. CASE UserMessage
  BY <1>1 DEF UserMessage, TypeOK, EffectInv, turnVars, effectVars, Start, Kickoff
<1>2. CASE Resume
  BY <1>2 DEF Resume, TypeOK, EffectInv, turnVars, effectVars, Start
<1>3. CASE AcceptSteer \/ SendSteer \/ EndPrompt
  BY <1>3 DEF AcceptSteer, SendSteer, EndPrompt, TypeOK, EffectInv, turnVars, effectVars
<1>4. CASE Cancel
  BY <1>4 DEF Cancel, TypeOK, EffectInv, turnVars, effectVars
<1>5. CASE SetMode
  BY <1>5 DEF SetMode, TypeOK, EffectInv, turnVars, effectVars
<1>6. CASE SetGoal
  BY <1>6 DEF SetGoal, TypeOK, EffectInv, turnVars, effectVars, Silent, RunsCommand
<1>7. CASE AnswerCommand
  BY <1>7 DEF AnswerCommand, TypeOK, EffectInv, turnVars, effectVars, CountTurn
<1>8. CASE BeginWork
  BY <1>8 DEF BeginWork, TypeOK, EffectInv, turnVars, effectVars, Hidden, EndStep
<1>9. CASE Drain
  BY <1>9 DEF Drain, TypeOK, EffectInv, turnVars, effectVars, Silent, Steers
<1>10. CASE PersistSteer
  BY <1>10 DEF PersistSteer, TypeOK, EffectInv, turnVars, effectVars, Kickoff, EndStep
<1>11. CASE StopAtMaxTurns
  BY <1>11 DEF StopAtMaxTurns, TypeOK, EffectInv, turnVars, effectVars, Text, CountTurn, EndStep
<1>12. CASE Approve
  BY <1>12 DEF Approve, TypeOK, EffectInv, turnVars, effectVars, Silent, PastBudget, PastSteer, OutOfTurns
<1>13. CASE Applied
  BY <1>13 DEF Applied, TypeOK, EffectInv, turnVars, effectVars, EndStep, Silent
<1>14. CASE ListTools
  BY <1>14 DEF ListTools, TypeOK, EffectInv, turnVars, effectVars, Silent
<1>15. CASE Dispatch
  BY <1>15 DEF Dispatch, TypeOK, EffectInv, turnVars, effectVars, Silent
<1>16. CASE CollectResults
  BY <1>16 DEF CollectResults, TypeOK, EffectInv, turnVars, effectVars, Silent
<1>17. CASE RejectUnknown
  BY <1>17 DEF RejectUnknown, TypeOK, EffectInv, turnVars, effectVars, Silent
<1>18. CASE PersistReply
  BY <1>18 DEF PersistReply, TypeOK, EffectInv, turnVars, effectVars, EndStep
<1>19. CASE CancelRest
  BY <1>19 DEF CancelRest, TypeOK, EffectInv, turnVars, effectVars, EndStep, Silent
<1>20. CASE Nudge
  BY <1>20 DEF Nudge, TypeOK, EffectInv, turnVars, effectVars, Hidden, EndStep, AtEnd
<1>21. CASE Grind
  BY <1>21 DEF Grind, TypeOK, EffectInv, turnVars, effectVars, Hidden, EndStep, AtEnd
<1>22. CASE GoalsMet
  BY <1>22 DEF GoalsMet, TypeOK, EffectInv, turnVars, effectVars, Silent, AtEnd
<1>23. CASE ChecksPass
  BY <1>23 DEF ChecksPass, TypeOK, EffectInv, turnVars, effectVars, Silent
<1>24. CASE RetryError
  BY <1>24 DEF RetryError, TypeOK, EffectInv, turnVars, effectVars, Error, CountTurn, EndStep
<1>25. CASE Retry
  BY <1>25 DEF Retry, TypeOK, EffectInv, turnVars, effectVars, EndStep
<1>26. CASE StopAllowed
  BY <1>26 DEF StopAllowed, TypeOK, EffectInv, turnVars, effectVars, EndStep, Silent
<1>27. CASE StopDenied
  BY <1>27 DEF StopDenied, TypeOK, EffectInv, turnVars, effectVars, Text, Hidden, CountTurn, EndStep
<1>28. CASE ExitOnError
  BY <1>28 DEF ExitOnError, TypeOK, EffectInv, turnVars, effectVars, EndStep, Silent
<1>29. CASE CallModel
  BY <1>29 DEF CallModel, TypeOK, EffectInv, turnVars, effectVars, PastTools, PastApproval, PastBudget, PastSteer, OutOfTurns
<1>30. CASE NothingApplies
  BY <1>30 DEF NothingApplies, TypeOK, EffectInv, turnVars, effectVars, EndStep, Silent
<1>31. CASE EmptyAnswer
  BY <1>31 DEF EmptyAnswer, TypeOK, EffectInv, turnVars, effectVars, Said, EndStep
<1>32. CASE StoreFails
  BY <1>32 DEF StoreFails, TypeOK, EffectInv, turnVars, effectVars, EndStep, Silent
<1>33. CASE Crash
  BY <1>33 DEF Crash, TypeOK, EffectInv, turnVars, effectVars, EndStep, Silent
<1>34. ASSUME NEW r \in Request, Confirm(r) PROVE StageInv'
  BY <1>34 DEF Confirm, TypeOK, EffectInv, turnVars, RunsCommand
<1>35. ASSUME NEW r \in Request, Mark(r) PROVE StageInv'
  BY <1>35 DEF Mark, TypeOK, EffectInv, turnVars
<1>36. ASSUME NEW r \in Request, Ask(r) PROVE StageInv'
  BY <1>36 DEF Ask, TypeOK, EffectInv, turnVars, CountTurn
<1>37. ASSUME NEW r \in Request, TakeEffect(r) \/ ToolReturns(r) \/ LateEffect(r)
       PROVE  StageInv'
  BY <1>37 DEF TakeEffect, ToolReturns, LateEffect, TypeOK, EffectInv, turnVars, effectVars, Silent
<1>38. ASSUME NEW R \in SUBSET Request, ModelAnswers(R) PROVE StageInv'
  BY <1>38 DEF ModelAnswers, TypeOK, EffectInv, Said, EndStep, turnVars
<1>39. CASE UNCHANGED vars
  BY <1>39 DEF vars, turnVars, effectVars
<1>. QED  BY <1>1, <1>2, <1>3, <1>4, <1>5, <1>6, <1>7, <1>8, <1>9, <1>10, <1>11, <1>12, <1>13, <1>14, <1>15, <1>16, <1>17, <1>18, <1>19, <1>20, <1>21, <1>22, <1>23, <1>24, <1>25, <1>26, <1>27, <1>28, <1>29, <1>30, <1>31, <1>32, <1>33, <1>34, <1>35, <1>36, <1>37, <1>38, <1>39 DEF Next, Client, Machine

\* The parts of the order that a step leaves alone.
LEMMA SameOpen ==
  ASSUME UNCHANGED <<requests, answered, reply>>
  PROVE  Open' = Open
BY DEF Open, Unanswered

LEMMA SameMarks ==
  ASSUME UNCHANGED <<requests, answered, asks, confirmed, exec, marks>>
  PROVE  Unmarked' = Unmarked
<1>1. Unanswered' = Unanswered
  BY DEF Unanswered
<1>2. \A r : Permitted(r)' = Permitted(r)
  BY DEF Permitted
<1>3. ToMark' = ToMark /\ ToInspect' = ToInspect
  BY <1>1, <1>2 DEF ToMark, ToInspect
<1>. QED  BY <1>3 DEF Unmarked, ApprovalMarks

\* Nothing is on its way but in the stages that say so.
LEMMA NothingHeld ==
  ASSUME TypeOK, EffectInv
  PROVE  /\ pc # "steer" => drained = 0
         /\ pc # "apply" => marks = {} /\ prompts = {}
         /\ pc \notin {"tools", "exec", "reply"} => batch = {} /\ reply = {}
         /\ pc \notin {"exec", "reply"} => done = {}
         /\ pc # "exec" => out = {}
BY DEF TypeOK, EffectInv

LEMMA StopsEnd ==
  ASSUME StopAtMaxTurns \/ StopAllowed \/ ExitOnError \/ NothingApplies \/ EmptyAnswer
  PROVE  RunNears
BY DEF StopAtMaxTurns, StopAllowed, ExitOnError, NothingApplies, EmptyAnswer, EndStep, RunNears

LEMMA SteerNears ==
  ASSUME TypeOK, PersistSteer
  PROVE  RunNears
<1>. USE DEF PersistSteer, Kickoff, EndStep, TypeOK
<1>1. TakesSteer
  BY DEF TakesSteer
<1>. QED  BY <1>1 DEF RunNears

LEMMA RetryNears ==
  ASSUME TypeOK, EffectInv, Retry
  PROVE  RunNears
<1>1. SameSteers
  BY NothingHeld DEF Retry, EndStep, SameSteers
<1>2. TakesAttempt
  BY BoundAssumption DEF Retry, TypeOK, TakesAttempt
<1>. QED  BY <1>1, <1>2 DEF RunNears

LEMMA TurnNears ==
  ASSUME TypeOK, EffectInv, StageInv,
         AnswerCommand \/ \E R \in SUBSET Request : ModelAnswers(R)
  PROVE  RunNears
<1>1. CASE AnswerCommand
  <2>1. TakesTurn
    BY <1>1, BoundAssumption DEF AnswerCommand, CountTurn, InBlock, TakesTurn, StageInv, TypeOK
  <2>2. SameSteers /\ SameAttempts
    BY <1>1 DEF AnswerCommand, effectVars, SameSteers, SameAttempts
  <2>. QED  BY <2>1, <2>2 DEF RunNears
<1>2. ASSUME NEW R \in SUBSET Request, ModelAnswers(R)
      PROVE  RunNears
  <2>1. TakesTurn
    BY <1>2, BoundAssumption DEF ModelAnswers, Said, TakesTurn, StageInv, TypeOK
  <2>2. SameAttempts
    BY <1>2 DEF ModelAnswers, Said, SameAttempts
  <2>3. SameSteers
    BY <1>2, NothingHeld DEF ModelAnswers, EndStep, SameSteers
  <2>. QED  BY <2>1, <2>2, <2>3 DEF RunNears
<1>. QED  BY <1>1, <1>2

\* tool_execution, unknown_tool and the cancel hook take requests to answer.
LEMMA AnswersNear ==
  ASSUME TypeOK, EffectInv, ListTools \/ RejectUnknown \/ CancelRest
  PROVE  RunNears
<1>1. CASE pc' = "idle"
  BY <1>1 DEF RunNears
<1>2. CASE pc' # "idle"
  <2>1. SameSteers /\ SameAttempts /\ SameTurns
    BY <1>2, NothingHeld DEF ListTools, RejectUnknown, CancelRest, EndStep, Silent,
       turnVars, SameSteers, SameAttempts, SameTurns
  <2>2. Unanswered' = Unanswered
    BY DEF ListTools, RejectUnknown, CancelRest, Silent, turnVars, Unanswered
  <2>3. reply = {}
    BY NothingHeld DEF ListTools, RejectUnknown, CancelRest
  <2>4. reply' # {} /\ reply' \subseteq Unanswered
    BY <1>2 DEF ListTools, RejectUnknown, CancelRest, EndStep, KnownPending, Pending
  <2>5. Answers
    BY <2>2, <2>3, <2>4 DEF Answers, Open, Smaller
  <2>. QED  BY <2>1, <2>5 DEF RunNears
<1>. QED  BY <1>1, <1>2

\* What tool_approval has marked needs no mark any more.
LEMMA MarkedIsDone ==
  ASSUME TypeOK, NEW r \in Request, Mark(r)
  PROVE  ApprovalMarks' \subseteq ApprovalMarks \ {r}
<1>. USE DEF Mark, turnVars
<1>1. Unanswered' = Unanswered /\ asks' = asks /\ confirmed' = confirmed
  BY DEF Unanswered
<1>2. \A q : Permitted(q)' = Permitted(q)
  BY DEF Permitted
<1>3. exec' = [exec EXCEPT ![r] = Permitted(r)] /\ exec \in [Request -> {"unset", "yes", "no"}]
  BY DEF TypeOK
<1>4. exec'[r] = Permitted(r)
  BY <1>3
<1>5. \A q \in Request \ {r} : exec'[q] = exec[q]
  BY <1>3
<1>6. Unanswered \subseteq Request
  BY DEF Unanswered, TypeOK
<1>7. ToMark' \subseteq ToMark \ {r}
  BY <1>1, <1>2, <1>4, <1>5, <1>6 DEF ToMark
<1>8. ToInspect' \subseteq ToInspect \ {r}
  BY <1>1, <1>4, <1>5, <1>6 DEF ToInspect, Permitted
<1>. QED  BY <1>7, <1>8 DEF ApprovalMarks

LEMMA ApproveNears ==
  ASSUME TypeOK, EffectInv, StageInv, Approve \/ Applied
  PROVE  RunNears
<1>1. SameSteers /\ SameAttempts /\ SameTurns
  BY NothingHeld DEF Approve, Applied, EndStep, Silent, turnVars,
     SameSteers, SameAttempts, SameTurns
<1>2. Open' = Open
  <2>1. UNCHANGED <<requests, answered, reply>>
    BY NothingHeld DEF Approve, Applied, EndStep, Silent, turnVars
  <2>. QED  BY <2>1, SameOpen
<1>3. CASE Approve
  <2>1. UNCHANGED <<requests, answered, asks, confirmed, exec>>
    BY <1>3 DEF Approve, Silent, turnVars, machineIdle, exceptStray, approvalVars
  <2>2. ApprovalMarks' = ApprovalMarks
    BY <2>1 DEF ApprovalMarks, ToMark, ToInspect, Unanswered, Permitted
  <2>3. marks = {} /\ marks' = ApprovalMarks /\ ApprovalMarks # {}
    BY <1>3, NothingHeld DEF Approve, Approves
  <2>4. TakesMarks
    BY <2>2, <2>3 DEF TakesMarks, Smaller, Unmarked
  <2>. QED  BY <1>1, <1>2, <2>4 DEF RunNears
<1>4. CASE Applied
  <2>1. UNCHANGED <<requests, answered, asks, confirmed, exec, marks>>
    BY <1>4 DEF Applied, EndStep, Silent, turnVars, machineIdle, exceptStray,
       approvalVars
  <2>2. Unmarked' = Unmarked
    BY <2>1, SameMarks
  <2>3. EndsTurn' = EndsTurn
    BY <1>4 DEF Applied, Silent, EndsTurn
  <2>4. pc' = "idle" \/ NextStage
    BY <1>4 DEF Applied, EndStep, NextStage, StageOf
  <2>. QED  BY <1>1, <1>2, <2>2, <2>3, <2>4 DEF RunNears
<1>. QED  BY <1>3, <1>4

LEMMA MarkNears ==
  ASSUME TypeOK, NEW r \in Request, Mark(r)
  PROVE  RunNears
<1>. USE DEF Mark, turnVars
<1>1. SameSteers /\ SameAttempts /\ SameTurns
  BY DEF SameSteers, SameAttempts, SameTurns
<1>2. Open' = Open
  BY SameOpen
<1>3. Unmarked' \subseteq Unmarked
  BY MarkedIsDone DEF Unmarked
<1>4. EndsTurn' = EndsTurn
  BY DEF EndsTurn
<1>5. Effect
  BY DEF Effect, Smaller
<1>. QED  BY <1>1, <1>2, <1>3, <1>4, <1>5 DEF RunNears, TakesMarks, Smaller

LEMMA AskNears ==
  ASSUME TypeOK, StageInv, NEW r \in Request, Ask(r)
  PROVE  RunNears
<1>1. SameSteers /\ SameAttempts
  BY DEF Ask, SameSteers, SameAttempts
<1>2. CASE TakesTurn
  BY <1>1, <1>2 DEF RunNears
<1>3. CASE ~TakesTurn
  <2>1. SameTurns
    BY <1>3, BoundAssumption DEF Ask, CountTurn, TakesTurn, SameTurns, StageInv, TypeOK
  <2>2. Open' = Open
    BY SameOpen DEF Ask
  <2>3. Unmarked' \subseteq Unmarked
    BY DEF Ask, Unmarked, ApprovalMarks, ToMark, ToInspect, Unanswered, Permitted
  <2>4. LeavesEnd \/ EndsTurn' = EndsTurn
    BY DEF Ask, LeavesEnd, EndsTurn
  <2>5. Effect
    BY DEF Ask, Effect, Smaller
  <2>. QED  BY <1>1, <2>1, <2>2, <2>3, <2>4, <2>5 DEF RunNears, TakesMarks, Smaller
<1>. QED  BY <1>2, <1>3

LEMMA ReplyNears ==
  ASSUME TypeOK, EffectInv, PersistReply
  PROVE  RunNears
<1>. USE DEF PersistReply, turnVars, EndStep
<1>1. SameSteers /\ SameAttempts /\ SameTurns
  BY NothingHeld DEF SameSteers, SameAttempts, SameTurns
<1>2. Open' = Open
  BY DEF Open, Unanswered
<1>3. Unmarked' \subseteq Unmarked
  <2>1. Unanswered' \subseteq Unanswered
    BY DEF Unanswered
  <2>2. UNCHANGED <<asks, confirmed, exec, marks>>
    BY NothingHeld DEF machineIdle, exceptStray, approvalVars
  <2>. QED  BY <2>1, <2>2 DEF Unmarked, ApprovalMarks, ToMark, ToInspect, Permitted
<1>4. LeavesEnd \/ EndsTurn' = EndsTurn
  BY DEF LeavesEnd, EndsTurn
<1>5. pc' = "idle" \/ NextStage
  BY DEF NextStage, StageOf
<1>. QED  BY <1>1, <1>2, <1>3, <1>4, <1>5 DEF RunNears, TakesMarks, Smaller

\* A goal, a hook or an error takes the end of the turn back.
LEMMA EndNears ==
  ASSUME TypeOK, EffectInv, StageInv, Nudge \/ Grind \/ StopDenied \/ RetryError
  PROVE  RunNears
<1>1. CASE pc' = "idle"
  BY <1>1 DEF RunNears
<1>2. CASE pc' # "idle"
  <2>1. EndsTurn
    BY DEF Nudge, Grind, StopDenied, RetryError, AtEnd, StageInv
  <2>2. ~EndsTurn'
    BY <1>2 DEF Nudge, Grind, StopDenied, RetryError, Hidden, Error, Text, EndStep, EndsTurn
  <2>3. SameSteers /\ SameAttempts /\ SameTurns
    BY <1>2, <2>1, NothingHeld DEF Nudge, Grind, StopDenied, RetryError, AtEnd, Hidden, Error,
       Text, CountTurn, InBlock, EndsTurn, EndStep, SameSteers, SameAttempts, SameTurns
  <2>4. UNCHANGED <<requests, answered, reply, asks, confirmed, exec, marks>>
    BY <1>2, NothingHeld DEF Nudge, Grind, StopDenied, RetryError, AtEnd, Hidden, Error, Text,
       EndStep, machineIdle, exceptStray, approvalVars
  <2>5. Open' = Open /\ Unmarked' = Unmarked
    BY <2>4, SameOpen, SameMarks
  <2>. QED  BY <2>1, <2>2, <2>3, <2>5 DEF RunNears, LeavesEnd
<1>. QED  BY <1>1, <1>2

LEMMA StageNears ==
  ASSUME TypeOK, EffectInv, StageInv,
         \/ SetGoal \/ BeginWork \/ Drain \/ Dispatch \/ CollectResults
         \/ GoalsMet \/ ChecksPass \/ CallModel
  PROVE  RunNears
<1>1. SameSteers /\ SameAttempts /\ SameTurns
  BY NothingHeld DEF SetGoal, BeginWork, Drain, Dispatch, CollectResults, GoalsMet, ChecksPass,
     CallModel, AtEnd, Silent, Hidden, EndStep, turnVars, effectVars, TypeOK,
     SameSteers, SameAttempts, SameTurns
<1>2. UNCHANGED <<requests, answered, reply, marks>>
  BY NothingHeld DEF SetGoal, BeginWork, Drain, Dispatch, CollectResults, GoalsMet, ChecksPass,
     CallModel, AtEnd, Silent, Hidden, EndStep, turnVars, effectVars
<1>3. UNCHANGED <<asks, confirmed, exec>>
  BY DEF SetGoal, BeginWork, Drain, Dispatch, CollectResults, GoalsMet, ChecksPass,
     CallModel, machineIdle, exceptStray, approvalVars
<1>4. Open' = Open /\ Unmarked' = Unmarked
  BY <1>2, <1>3, SameOpen, SameMarks
<1>5. LeavesEnd \/ EndsTurn' = EndsTurn
  BY DEF SetGoal, BeginWork, Drain, Dispatch, CollectResults, GoalsMet, ChecksPass, CallModel,
     Silent, Hidden, LeavesEnd, EndsTurn
<1>6. pc' = "idle" \/ NextStage
  BY DEF SetGoal, BeginWork, Drain, Dispatch, CollectResults, GoalsMet, ChecksPass, CallModel,
     AtEnd, EndStep, NextStage, StageOf
<1>. QED  BY <1>1, <1>4, <1>5, <1>6 DEF RunNears

LEMMA ToolNears ==
  ASSUME TypeOK, NEW r \in Request, TakeEffect(r) \/ ToolReturns(r)
  PROVE  RunNears
<1>. USE DEF TakeEffect, ToolReturns, Silent, turnVars
<1>1. SameSteers /\ SameAttempts /\ SameTurns
  BY DEF SameSteers, SameAttempts, SameTurns
<1>2. Open' = Open
  BY SameOpen
<1>3. Unmarked' = Unmarked
  BY SameMarks DEF approvalVars, machineIdle, exceptStray
<1>4. EndsTurn' = EndsTurn
  BY DEF EndsTurn
<1>5. Effect
  BY DEF Effect, Smaller, TypeOK
<1>. QED  BY <1>1, <1>2, <1>3, <1>4, <1>5 DEF RunNears

LEMMA MachineNears ==
  ASSUME TypeOK, EffectInv, StageInv, Machine
  PROVE  RunNears
BY StopsEnd, SteerNears, RetryNears, TurnNears, AnswersNear, ApproveNears, MarkNears, AskNears,
   ReplyNears, EndNears, StageNears, ToolNears DEF Machine

\* Every step of a run takes it nearer to its end, for any budgets, steers and
\* requests (state_machine/mod.rs, the loop of run).
THEOREM RunsEnd == Spec => EachStepNears
<1>1. TypeOK /\ EffectInv /\ StageInv /\ [Next]_vars => StageInv'
  BY StageStays
<1>2. Spec => [](TypeOK /\ EffectInv /\ StageInv)
  <2>1. IInv => TypeOK /\ EffectInv
    BY DEF IInv
  <2>. QED  BY <1>1, <2>1, InvHolds, InitStage, PTL DEF Spec
<1>3. TypeOK /\ EffectInv /\ StageInv => [Machine => RunNears]_vars
  BY MachineNears
<1>. QED  BY <1>2, <1>3, PTL DEF EachStepNears, Spec

-----------------------------------------------------------------------------
(* The agent loop implements ToolCall: for a tool request, what is persisted *)
(* effect by effect and taken up again by the next run is six steps.         *)

\* The actions that neither make, decide nor answer a request, and leave its
\* tool alone.
Aside == \/ UserMessage \/ Resume \/ AcceptSteer \/ SendSteer \/ EndPrompt
         \/ Cancel \/ SetMode
         \/ SetGoal \/ AnswerCommand \/ BeginWork \/ Drain \/ PersistSteer
         \/ StopAtMaxTurns \/ Approve \/ Applied \/ ListTools
         \/ RejectUnknown \/ CancelRest \/ Nudge \/ Grind
         \/ GoalsMet \/ ChecksPass \/ RetryError \/ Retry \/ StopAllowed
         \/ StopDenied \/ ExitOnError \/ CallModel \/ NothingApplies
         \/ \E r \in Request : Mark(r) \/ Ask(r)

\* Those that let go of the calls that are out.
LetsGo == CollectResults \/ StoreFails \/ Crash

LEMMA NextSplit ==
  Next => \/ Aside \/ LetsGo \/ Dispatch \/ PersistReply \/ EmptyAnswer
          \/ \E r \in Request : \/ Confirm(r) \/ TakeEffect(r)
                                \/ ToolReturns(r) \/ LateEffect(r)
          \/ \E R \in SUBSET Request : ModelAnswers(R)
BY DEF Next, Client, Machine, Aside, LetsGo

LEMMA SameAbroad ==
  ASSUME UNCHANGED <<out, stray>>
  PROVE  Abroad' = Abroad
BY DEF Abroad

LEMMA AsideLeavesCalls ==
  ASSUME TypeOK, EffectInv, Aside
  PROVE  UNCHANGED Call!vars
<1>. USE NothingHeld, SameAbroad
     DEF EndStep, toolVars, effectVars, machineIdle, exceptStray, approvalVars, Call!vars
<1>1. CASE \/ UserMessage \/ Resume \/ AcceptSteer \/ SendSteer \/ EndPrompt \/ Cancel
           \/ SetMode \/ \E r \in Request : Mark(r) \/ Ask(r)
  BY <1>1 DEF UserMessage, Resume, AcceptSteer, SendSteer, EndPrompt, Cancel, SetMode, Mark, Ask
<1>2. CASE \/ SetGoal \/ AnswerCommand \/ BeginWork \/ Drain \/ PersistSteer \/ StopAtMaxTurns
           \/ Approve \/ Applied \/ ListTools
  BY <1>2 DEF SetGoal, AnswerCommand, BeginWork, Drain, PersistSteer, StopAtMaxTurns, Approve,
     Applied, ListTools
<1>3. CASE RejectUnknown \/ CancelRest \/ Nudge \/ Grind \/ GoalsMet
  BY <1>3 DEF RejectUnknown, CancelRest, Nudge, Grind, GoalsMet, AtEnd
<1>4. CASE \/ ChecksPass \/ RetryError \/ Retry \/ StopAllowed \/ StopDenied \/ ExitOnError
           \/ CallModel \/ NothingApplies
  BY <1>4 DEF ChecksPass, RetryError, Retry, StopAllowed, StopDenied, ExitOnError, CallModel,
     NothingApplies
<1>. QED  BY <1>1, <1>2, <1>3, <1>4 DEF Aside

\* A call that is let go of may take effect as it might before.
LEMMA LetGoLeavesCalls ==
  ASSUME LetsGo
  PROVE  UNCHANGED Call!vars
<1>1. LetGo /\ out' = {}
  BY DEF LetsGo, CollectResults, StoreFails, Crash, EndStep
<1>2. Abroad' = Abroad
  BY <1>1 DEF LetGo, Abroad
<1>. QED
  BY <1>2 DEF LetsGo, CollectResults, StoreFails, Crash, exceptStray, approvalVars, Call!vars

\* tool_execution calls what no response has been given to.
LEMMA CallsOpen ==
  ASSUME IInv, Dispatch
  PROVE  /\ out' # {} => out' \subseteq Call!Open
         /\ Abroad' = [r \in Request |-> IF r \in out' THEN Abroad[r] + 1 ELSE Abroad[r]]
         /\ UNCHANGED <<used, confirmed, answered, ran, replies>>
<1>1. out = {} /\ batch \subseteq Call!Open
  BY DEF Dispatch, IInv, EffectInv, ReplyInv, TypeOK, Call!Open
<1>2. stray' = stray /\ UNCHANGED <<used, confirmed, answered, ran, replies>>
  BY DEF Dispatch, machineIdle, exceptStray, approvalVars
<1>3. out' \in {{}, batch}
  BY <1>1 DEF Dispatch
<1>. QED  BY <1>1, <1>2, <1>3 DEF Abroad

\* An effect or a return takes a call away.
LEMMA EffectTakesCall ==
  ASSUME IInv, NEW r \in Request, TakeEffect(r) \/ LateEffect(r)
  PROVE  Call!TakeEffect(r)
<1>. USE DEF TakeEffect, LateEffect, IInv, TypeOK
<1>1. Abroad[r] > 0
  BY DEF Abroad
<1>2. Abroad'[r] = Abroad[r] - 1
  BY DEF Abroad, effectVars
<1>3. \A q \in Request \ {r} : Abroad'[q] = Abroad[q]
  BY DEF Abroad, effectVars
<1>4. Abroad' = [Abroad EXCEPT ![r] = @ - 1]
  BY <1>2, <1>3 DEF Abroad
<1>. QED  BY <1>1, <1>4 DEF approvalVars, Call!TakeEffect

LEMMA ReturnTakesCall ==
  ASSUME IInv, NEW r \in Request, ToolReturns(r)
  PROVE  Call!Fail(r) \/ UNCHANGED Call!vars
<1>. USE DEF ToolReturns, machineIdle, exceptStray, approvalVars, IInv, TypeOK
<1>1. CASE r \in out
  <2>1. Abroad[r] > 0 /\ Abroad'[r] = Abroad[r] - 1
    BY <1>1 DEF Abroad
  <2>2. \A q \in Request \ {r} : Abroad'[q] = Abroad[q]
    BY <1>1 DEF Abroad
  <2>3. Abroad' = [Abroad EXCEPT ![r] = @ - 1]
    BY <2>1, <2>2 DEF Abroad
  <2>. QED  BY <2>1, <2>3 DEF Call!Fail
<1>2. CASE r \notin out
  BY <1>2, SameAbroad DEF Call!vars
<1>. QED  BY <1>1, <1>2

LEMMA AnswersOpen ==
  ASSUME IInv, PersistReply
  PROVE  Call!Answer(reply)
<1>1. reply \subseteq Call!Open
  BY DEF IInv, ReplyInv, TypeOK, Call!Open
<1>2. Abroad' = Abroad
  BY NothingHeld, SameAbroad DEF PersistReply, EndStep, machineIdle, IInv
<1>. QED  BY <1>1, <1>2 DEF PersistReply, machineIdle, exceptStray, approvalVars, Call!Answer

LEMMA ModelLeavesCalls ==
  ASSUME IInv, EmptyAnswer \/ \E R \in SUBSET Request : ModelAnswers(R)
  PROVE  UNCHANGED <<Abroad, confirmed, answered, ran, replies>>
<1>1. UNCHANGED <<out, stray>>
  BY NothingHeld DEF EmptyAnswer, ModelAnswers, EndStep, machineIdle, IInv
<1>. QED
  BY <1>1, SameAbroad DEF EmptyAnswer, ModelAnswers, machineIdle, exceptStray, approvalVars

LEMMA CallStep ==
  ASSUME ModeStable
  PROVE  IInv /\ [Next]_vars => [Call!Next]_(Call!vars)
<1>. SUFFICES ASSUME IInv, [Next]_vars PROVE [Call!Next]_(Call!vars)
  OBVIOUS
<1>1. CASE Dispatch
  <2>1. out' \subseteq batch /\ \A r \in out' : Call!Permitted(r)
    BY <1>1, ModeStable
    DEF Dispatch, IInv, EffectInv, BatchInv, TypeOK, Allowed, Call!Permitted
  <2>2. out' \subseteq Call!Open /\ out' \subseteq Request
    BY <1>1, <2>1, CallsOpen DEF IInv, TypeOK
  <2>3. Call!CallTools(out')
    BY <1>1, <2>1, <2>2, CallsOpen DEF Call!CallTools
  <2>. QED  BY <2>2, <2>3 DEF Call!Next
<1>2. ASSUME NEW r \in Request, TakeEffect(r) \/ LateEffect(r)
      PROVE  Call!TakeEffect(r)
  BY <1>2, EffectTakesCall
<1>3. ASSUME NEW r \in Request, Confirm(r)
      PROVE  \E p \in {"allow", "deny"} : Call!Decide(r, p)
  BY <1>3, SameAbroad DEF Confirm, effectVars, toolVars, IInv, TypeOK, AskInv, Call!Decide
<1>4. CASE PersistReply
  <2>1. Call!Answer(reply) /\ reply \subseteq Request
    BY <1>4, AnswersOpen DEF IInv, TypeOK
  <2>. QED  BY <2>1 DEF Call!Next
<1>5. ASSUME NEW R \in SUBSET Request, ModelAnswers(R)
      PROVE  Call!Make(R)
  BY <1>5, ModelLeavesCalls DEF ModelAnswers, Said, Call!Make
<1>6. CASE EmptyAnswer
  BY <1>6, ModelLeavesCalls DEF EmptyAnswer, Said, Call!vars
<1>7. CASE UNCHANGED vars
  BY <1>7, SameAbroad DEF vars, approvalVars, effectVars, toolVars, Call!vars
<1>. QED
  BY <1>1, <1>2, <1>3, <1>4, <1>5, <1>6, <1>7, NextSplit, AsideLeavesCalls,
     LetGoLeavesCalls, ReturnTakesCall DEF Call!Next, IInv

\* The loop keeps the promise of ToolCall, for any requests, budgets, faults
\* and resumed runs, also when an effect comes after the run has let go of the
\* call, if the mode does not change between its two reads in a step
\* (machine.rs, step and apply; ops_toolcalling.rs).
THEOREM ImplementsCall ==
  ASSUME ModeStable
  PROVE  Spec => CallsPromise
<1>1. Init => Call!Init
  BY DEF Init, Abroad, Call!Init
<1>. QED  BY <1>1, CallStep, InvHolds, PTL DEF Spec, CallsPromise, Call!Spec

\* Nobody forbade a call that may still take effect, also one that a cancelled
\* or dead run has let go of (ops_toolcalling.rs, execute).
THEOREM CallsPermitted ==
  ASSUME ModeStable
  PROVE  Spec => []Call!EffectsPermitted
<1>1. IInv => Call!EffectsPermitted
  <2>. SUFFICES ASSUME IInv, NEW r \in Request, ran[r] + Abroad[r] > 0
                PROVE  Allowed(r)
    BY DEF Call!EffectsPermitted, Call!Permitted, Allowed
  <2>1. ran[r] > 0 \/ stray[r] > 0 \/ r \in out
    BY DEF Abroad, IInv, TypeOK
  <2>2. r \in out => pc = "exec" /\ r \in batch
    BY DEF IInv, TypeOK, EffectInv
  <2>. QED  BY <2>1, <2>2 DEF IInv, BatchInv
<1>. QED  BY InvHolds, <1>1, PTL

\* Execution, rejection and cancellation never answer a request twice
\* (ops_toolcalling.rs, ops_unknown_tool.rs and the cancel hook of ops_llm.rs).
THEOREM RepliedOnce == Spec => []Call!AnsweredOnce
<1>1. IInv => Call!AnsweredOnce
  BY DEF IInv, ReplyInv, Call!AnsweredOnce
<1>. QED  BY InvHolds, <1>1, PTL

\* A tool whose request was answered, declined or cancelled is not called any
\* more, whatever mode, crash or resumed run comes after: its effects and the
\* calls that may still have one do not grow (ops_toolcalling.rs,
\* pending_tool_requests).
THEOREM AnsweredStays == Spec => Call!AnsweredIsOver
<1>. DEFINE Over(r) == /\ ran'[r] + Abroad'[r] <= ran[r] + Abroad[r]
                       /\ replies'[r] = replies[r]
<1>1. ASSUME IInv, Next, NEW r \in answered
      PROVE  Over(r)
  <2>. r \in Request /\ ran[r] \in Nat /\ Abroad[r] \in Nat
    BY <1>1 DEF IInv, TypeOK, Abroad
  <2>1. ASSUME NEW q \in Request, TakeEffect(q) \/ LateEffect(q)
        PROVE  Over(r)
    <3>1. Call!TakeEffect(q)
      BY <1>1, <2>1, EffectTakesCall
    <3>2. q = r \/ (ran'[r] = ran[r] /\ Abroad'[r] = Abroad[r])
      BY <1>1, <3>1 DEF Call!TakeEffect, Abroad, IInv, TypeOK
    <3>3. q = r => ran'[r] = ran[r] + 1 /\ Abroad'[r] = Abroad[r] - 1
      BY <1>1, <3>1 DEF Call!TakeEffect, Abroad, IInv, TypeOK
    <3>. QED  BY <3>1, <3>2, <3>3 DEF Call!TakeEffect
  <2>2. ASSUME NEW q \in Request, ToolReturns(q)
        PROVE  Over(r)
    <3>1. Call!Fail(q) \/ UNCHANGED Call!vars
      BY <1>1, <2>2, ReturnTakesCall
    <3>2. Abroad'[r] \in {Abroad[r], Abroad[r] - 1}
      BY <3>1 DEF Call!Fail, Call!vars, Abroad
    <3>. QED  BY <3>1, <3>2 DEF Call!Fail, Call!vars
  <2>3. CASE Dispatch
    <3>1. r \notin out'
      BY <1>1, <2>3, CallsOpen DEF Call!Open
    <3>. QED  BY <1>1, <2>3, <3>1, CallsOpen
  <2>4. CASE PersistReply
    <3>1. r \notin reply /\ Call!Answer(reply)
      BY <1>1, <2>4, AnswersOpen DEF IInv, ReplyInv
    <3>. QED  BY <3>1 DEF Call!Answer
  <2>5. ASSUME NEW q \in Request, Confirm(q)
        PROVE  Over(r)
    BY <2>5, SameAbroad DEF Confirm, effectVars, toolVars
  <2>6. ASSUME EmptyAnswer \/ \E R \in SUBSET Request : ModelAnswers(R)
        PROVE  Over(r)
    BY <1>1, <2>6, ModelLeavesCalls
  <2>7. Aside \/ LetsGo => Over(r)
    BY <1>1, AsideLeavesCalls, LetGoLeavesCalls DEF Call!vars, IInv
  <2>. QED  BY <1>1, <2>1, <2>2, <2>3, <2>4, <2>5, <2>6, <2>7, NextSplit
<1>2. IInv /\ [Next]_vars => [\A r \in answered : Over(r)]_(Call!vars)
  BY <1>1, SameAbroad DEF vars, approvalVars, effectVars, toolVars, Call!vars
<1>. QED  BY <1>2, InvHolds, PTL DEF Spec, Call!AnsweredIsOver
=============================================================================
