----------------------------- MODULE ReviewPool -----------------------------
(***************************************************************************)
(* The model pass of an Investigate or Deep scan: a pool of workers that   *)
(* review engine hits in two passes, an investigator's and a validator's,  *)
(* and confirm or dismiss a hit on which both agree                        *)
(* (crates/achilles-store/src/engines/agent.rs), while people and Jev      *)
(* triage the same findings (store.rs).                                    *)
(*                                                                         *)
(* Every write to a finding reads the row, edits its evidence and writes   *)
(* it back whole: two steps.  What the model reads before it answers, and  *)
(* the spending cap that makes a call fail, are left to the call's result. *)
(***************************************************************************)
EXTENDS Naturals, FiniteSets

CONSTANTS
    Finding,
    Job,           \* the reviews of this pass
    About,         \* the finding each job reviews
    ByCandidate,   \* jobs for a candidate still pending, not for a finding
    User, Jev,     \* people, and Jev assessors, at work on the findings
    MaxWorkers,    \* permits of the pool
    MaxPauses,     \* bound on the times the scan is paused
    MaxTriage,     \* bound on the triage of people and of Jev
    None

ASSUME PoolAssumption ==
    /\ About \in [Job -> Finding]
    /\ ByCandidate \subseteq Job
    /\ MaxWorkers \in Nat \ {0} /\ MaxPauses \in Nat /\ MaxTriage \in Nat
    /\ User \cap Jev = {} /\ Job \cap (User \cup Jev) = {}
    /\ IsFiniteSet(Job)

VARIABLES
    row,       \* findings: the state and what the evidence holds
    cand,      \* the candidates' status
    spawner,   \* where agent::run is
    pc, op,    \* where each job is, and the write it is at
    inv, val,  \* the verdicts a job got
    seen,      \* the row a writer read
    abort, pause, pauses,
    tri, triaged

job == <<pc, op, inv, val>>
control == <<abort, pause, pauses>>
others == <<tri, triaged>>
vars == <<row, cand, spawner, job, seen, control, others>>
-----------------------------------------------------------------------------
Verdict == {"true_positive", "false_positive", "uncertain"}
State == {"open", "confirmed", "dismissed", "verified_fixed"}
Row == [state : State \cup {"none"}, inv : Verdict \cup {None}, val : Verdict \cup {None},
        jev : Verdict \cup {None}, mark : BOOLEAN]
Outcome == {"confirmed", "dismissed", "open", "cancelled", "error"}
Working == {"waiting", "ask", "read", "write", "settle"}
Writer == Job \cup User \cup Jev

TypeOK ==
    /\ row \in [Finding -> Row]
    /\ cand \in [ByCandidate -> {"pending", "confirmed", "escalated", "rejected"}]
    /\ spawner \in {"check", "acquire", "join", "returned"}
    /\ pc \in [Job -> {"queued"} \cup Working \cup Outcome]
    /\ op \in [Job -> {"inv", "val", "set"}]
    /\ inv \in [Job -> Verdict \cup {None}]
    /\ val \in [Job -> Verdict \cup {None}]
    /\ seen \in [Writer -> Row \cup {None}]
    /\ abort \in BOOLEAN /\ pause \in BOOLEAN /\ pauses \in 0..MaxPauses
    /\ tri \in [User \cup Jev -> {None} \cup
                  [f : Finding, to : State \cup Verdict, fp : BOOLEAN]]
    /\ triaged \in 0..MaxTriage

\* The engines' hits, with nothing in their evidence yet.  A review of a
\* finding is for one that is open or confirmed; a candidate may be all there
\* is of a hit, or report again what somebody has dismissed.
Init ==
    /\ row \in [Finding -> [state : {"none", "open", "confirmed", "dismissed"},
                            inv : {None}, val : {None}, jev : {None},
                            mark : {FALSE}]]
    /\ \A j \in Job \ ByCandidate :
          row[About[j]].state \in {"open", "confirmed"}
    /\ cand = [j \in ByCandidate |-> "pending"]
    /\ spawner = "check"
    /\ pc = [j \in Job |-> "queued"]
    /\ op = [j \in Job |-> "inv"]
    /\ inv = [j \in Job |-> None] /\ val = [j \in Job |-> None]
    /\ seen = [w \in Writer |-> None]
    /\ abort = FALSE /\ pause = FALSE /\ pauses = 0
    /\ tri = [u \in User \cup Jev |-> None] /\ triaged = 0
-----------------------------------------------------------------------------
(* agent::run: one permit, one spawned task per job *)

Running == {j \in Job : pc[j] \in Working}
\* Mutant: a review that fails keeps its permit.
FreeLeaked == MaxWorkers - Cardinality({j \in Job : pc[j] \in Working \cup {"error"}})

Free == MaxWorkers - Cardinality(Running)

Queued == {j \in Job : pc[j] = "queued"}

\* The top of the loop over the jobs.
SpawnCheck ==
    /\ spawner = "check"
    /\ spawner' = IF abort \/ Queued = {} THEN "join" ELSE "acquire"
    /\ UNCHANGED <<row, cand, job, seen, control, others>>

Spawn(j) ==
    /\ spawner = "acquire" /\ pc[j] = "queued" /\ Free > 0
    /\ pc' = [pc EXCEPT ![j] = "waiting"]
    /\ spawner' = "check"
    /\ UNCHANGED <<row, cand, op, inv, val, seen, control, others>>

JoinAll ==
    /\ spawner = "join" /\ Running = {}
    /\ spawner' = "returned"
    /\ UNCHANGED <<row, cand, job, seen, control, others>>
-----------------------------------------------------------------------------
(* review_one *)

Goto(j, label) == pc' = [pc EXCEPT ![j] = label]

\* wait_pause ends; a scan cancelled by now skips the job.
BeginReview(j) ==
    /\ pc[j] = "waiting" /\ ~pause /\ ~abort
    /\ Goto(j, "ask")
    /\ UNCHANGED <<row, cand, spawner, op, inv, val, seen, control, others>>

\* Mutant: wait_pause looks at the pause only.
SkipUnpaused(j) ==
    /\ pc[j] = "waiting" /\ ~pause
    /\ Goto(j, "cancelled")
    /\ UNCHANGED <<row, cand, spawner, op, inv, val, seen, control, others>>

\* wait_pause sees the cancel, or the budget is spent before the first call.
SkipReview(j) ==
    /\ pc[j] = "waiting"
    /\ abort \/ ~pause
    /\ Goto(j, "cancelled")
    /\ UNCHANGED <<row, cand, spawner, op, inv, val, seen, control, others>>

\* complete_verdict answers.  A candidate's verdicts are kept for later, a
\* finding's are written at once.
Answer(j) ==
    /\ pc[j] = "ask"
    /\ \E v \in Verdict :
          \/ op[j] = "inv" /\ inv' = [inv EXCEPT ![j] = v] /\ UNCHANGED val
          \/ op[j] = "val" /\ val' = [val EXCEPT ![j] = v] /\ UNCHANGED inv
    /\ IF j \notin ByCandidate THEN Goto(j, "read") /\ UNCHANGED op
       ELSE IF op[j] = "inv" THEN op' = [op EXCEPT ![j] = "val"] /\ UNCHANGED pc
       ELSE Goto(j, "settle") /\ UNCHANGED op
    /\ UNCHANGED <<row, cand, spawner, seen, control, others>>

\* The model fails, runs out of turns or of budget.
AnswerFailed(j) ==
    /\ pc[j] = "ask"
    /\ Goto(j, "error")
    /\ UNCHANGED <<row, cand, spawner, op, inv, val, seen, control, others>>

\* set_finding_verdict and set_finding_state read the finding.
ReadRow(j) ==
    /\ pc[j] = "read"
    /\ seen' = [seen EXCEPT ![j] = row[About[j]]]
    /\ Goto(j, "write")
    /\ UNCHANGED <<row, cand, spawner, op, inv, val, control, others>>

Agreed(j, v) == inv[j] = v /\ val[j] = v

\* Mutant: the verdict is written as the state.
SettledRaw(j) == val[j]

Settled(j) == IF Agreed(j, "true_positive") THEN "confirmed" ELSE "dismissed"

\* The row a writer leaves: its own columns, and the evidence it has read.
WithEvidence(now, read) ==
    [read EXCEPT !.state = now.state]
TriagedAs(read, to, fp) ==
    [read EXCEPT !.state = to,
                 !.mark = to = "dismissed" /\ (fp \/ @)]

Written(j) ==
    LET now == row[About[j]] IN
    CASE op[j] = "inv" -> [WithEvidence(now, seen[j]) EXCEPT !.inv = inv[j]]
      [] op[j] = "val" -> [WithEvidence(now, seen[j]) EXCEPT !.val = val[j]]
      [] op[j] = "set" -> TriagedAs(seen[j], Settled(j), FALSE)

\* What follows a write: the validator, the settling, the next write of a
\* confirmed candidate, or the end.
AfterWrite(j) ==
    CASE op[j] = "inv" ->
           /\ op' = [op EXCEPT ![j] = "val"]
           /\ Goto(j, IF j \in ByCandidate THEN "read" ELSE "ask")
      [] op[j] = "val" ->
           IF j \in ByCandidate
           THEN op' = [op EXCEPT ![j] = "set"] /\ Goto(j, "read")
           ELSE Goto(j, "settle") /\ UNCHANGED op
      [] op[j] = "set" -> Goto(j, Settled(j)) /\ UNCHANGED op

WriteRow(j) ==
    /\ pc[j] = "write"
    /\ row' = [row EXCEPT ![About[j]] = Written(j)]
    /\ seen' = [seen EXCEPT ![j] = None]
    /\ AfterWrite(j)
    /\ UNCHANGED <<cand, spawner, inv, val, control, others>>

\* The store fails a read or a write: a finding's verdict ends the review in
\* error, any later write is given up.
WriteFailed(j) ==
    /\ pc[j] \in {"read", "write"}
    /\ seen' = [seen EXCEPT ![j] = None]
    /\ IF op[j] # "set" /\ j \notin ByCandidate
       THEN Goto(j, "error") /\ UNCHANGED op
       ELSE AfterWrite(j)
    /\ UNCHANGED <<row, cand, spawner, inv, val, control, others>>

\* Mutant: the validator decides alone.
SettleByValidator(j) ==
    /\ pc[j] = "settle" /\ j \notin ByCandidate
    /\ IF val[j] # "uncertain"
       THEN op' = [op EXCEPT ![j] = "set"] /\ Goto(j, "read")
       ELSE Goto(j, "open") /\ UNCHANGED op
    /\ UNCHANGED <<row, cand, spawner, inv, val, seen, control, others>>

\* The two verdicts are in.
SettleFinding(j) ==
    /\ pc[j] = "settle" /\ j \notin ByCandidate
    /\ IF \E v \in {"true_positive", "false_positive"} : Agreed(j, v)
       THEN op' = [op EXCEPT ![j] = "set"] /\ Goto(j, "read")
       ELSE Goto(j, "open") /\ UNCHANGED op
    /\ UNCHANGED <<row, cand, spawner, inv, val, seen, control, others>>

\* confirm_candidate, or escalate_candidate when the passes disagree; the
\* finding it upserts keeps its evidence (ScanLedger has the steps of it).
SettleCandidate(j) ==
    /\ pc[j] = "settle" /\ j \in ByCandidate
    /\ row' = [row EXCEPT ![About[j]].state =
                 IF @ \in {"none", "verified_fixed"} THEN "open" ELSE @]
    /\ \/ /\ Agreed(j, "true_positive")
          /\ cand' = [cand EXCEPT ![j] = "confirmed"]
          /\ op' = [op EXCEPT ![j] = "inv"] /\ Goto(j, "read")
       \/ /\ Agreed(j, "false_positive")
          /\ cand' = [cand EXCEPT ![j] = "confirmed"]
          /\ op' = [op EXCEPT ![j] = "set"] /\ Goto(j, "read")
       \/ /\ ~Agreed(j, "true_positive") /\ ~Agreed(j, "false_positive")
          /\ cand' = [cand EXCEPT ![j] = "escalated"]
          /\ Goto(j, "open") /\ UNCHANGED op
    /\ UNCHANGED <<spawner, inv, val, seen, control, others>>

\* Mutant: whatever the verdicts, a failed confirmation rejects.
SettleRejects(j) ==
    /\ pc[j] = "settle" /\ j \in ByCandidate
    /\ cand' = [cand EXCEPT ![j] = "rejected"]
    /\ Goto(j, "error")
    /\ UNCHANGED <<row, spawner, op, inv, val, seen, control, others>>

\* The store fails the confirmation.
SettleFailed(j) ==
    /\ pc[j] = "settle" /\ j \in ByCandidate
    /\ \/ Agreed(j, "true_positive") /\ Goto(j, "error") /\ UNCHANGED cand
       \/ /\ Agreed(j, "false_positive") /\ Goto(j, "dismissed")
          /\ cand' = [cand EXCEPT ![j] = "rejected"]
       \/ /\ ~Agreed(j, "true_positive") /\ ~Agreed(j, "false_positive")
          /\ Goto(j, "open") /\ UNCHANGED cand
    /\ UNCHANGED <<row, spawner, op, inv, val, seen, control, others>>
-----------------------------------------------------------------------------
(* People and Jev *)

\* triage_finding_with_source by a person; record_jev_verdict by Jev.
OtherRead(u) ==
    /\ tri[u] = None /\ triaged < MaxTriage
    /\ triaged' = triaged + 1
    /\ \E f \in Finding :
          /\ row[f].state # "none"
          /\ seen' = [seen EXCEPT ![u] = row[f]]
          /\ \/ /\ u \in User
                /\ \E to \in State, fp \in BOOLEAN :
                      /\ fp => to = "dismissed"
                      /\ tri' = [tri EXCEPT ![u] = [f |-> f, to |-> to, fp |-> fp]]
             \/ /\ u \in Jev
                /\ \E v \in Verdict :
                      tri' = [tri EXCEPT ![u] = [f |-> f, to |-> v, fp |-> FALSE]]
    /\ UNCHANGED <<row, cand, spawner, job, control>>

OtherWrite(u) ==
    /\ tri[u] # None
    /\ LET f == tri[u].f
       IN  row' = [row EXCEPT ![f] =
                     IF u \in User THEN TriagedAs(seen[u], tri[u].to, tri[u].fp)
                     ELSE [WithEvidence(@, seen[u]) EXCEPT !.jev = tri[u].to]]
    /\ tri' = [tri EXCEPT ![u] = None]
    /\ seen' = [seen EXCEPT ![u] = None]
    /\ UNCHANGED <<cand, spawner, job, control, triaged>>

\* pause_scan; a cancel through cancel_scan takes the pause back, one by a
\* waiter that goes away does not.
SetPause ==
    /\ spawner # "returned"
    /\ \/ pause /\ pause' = FALSE /\ UNCHANGED pauses
       \/ ~pause /\ pauses < MaxPauses /\ pause' = TRUE /\ pauses' = pauses + 1
    /\ UNCHANGED <<row, cand, spawner, job, seen, abort, others>>

Cancel ==
    /\ spawner # "returned" /\ ~abort
    /\ abort' = TRUE
    /\ pause' \in {pause, FALSE}
    /\ UNCHANGED <<row, cand, spawner, job, seen, pauses, others>>
-----------------------------------------------------------------------------
Spawner == SpawnCheck \/ JoinAll \/ \E j \in Job : Spawn(j)

Review(j) ==
    \/ BeginReview(j) \/ SkipReview(j) \/ Answer(j) \/ AnswerFailed(j)
    \/ ReadRow(j) \/ WriteRow(j) \/ WriteFailed(j)
    \/ SettleFinding(j) \/ SettleCandidate(j) \/ SettleFailed(j)

Next ==
    \/ Spawner
    \/ \E j \in Job : Review(j)
    \/ \E u \in User \cup Jev : OtherRead(u) \/ OtherWrite(u)
    \/ SetPause \/ Cancel

Spec == Init /\ [][Next]_vars

\* The tasks are polled, and a call to the model returns in the end, with an
\* answer or an error.
FairSpec ==
    /\ Spec
    /\ WF_vars(Spawner)
    /\ \A j \in Job : WF_vars(Review(j))
-----------------------------------------------------------------------------
(* Properties *)

\* A finding is confirmed or dismissed by a person, or by a review both of
\* whose passes said so: "A failed or incomplete verdict must leave the
\* engine hit on the ledger" (agent.rs:2-3).
TwoPassesDecide ==
    [][\A f \in Finding :
         row'[f].state # row[f].state /\ row'[f].state \in {"confirmed", "dismissed"} =>
           \/ \E u \in User : tri[u] # None /\ tri[u].f = f /\ tri'[u] = None
           \/ \E j \in Job :
                /\ About[j] = f /\ pc[j] = "write" /\ pc'[j] = row'[f].state
                /\ Agreed(j, IF row'[f].state = "confirmed" THEN "true_positive"
                             ELSE "false_positive")]_vars

\* A candidate leaves the queue for the ledger; it is rejected without a
\* finding only on two false-positive verdicts.
CandidateOnLedger ==
    \A j \in ByCandidate :
       /\ cand[j] \in {"confirmed", "escalated"} => row[About[j]].state # "none"
       /\ cand[j] = "rejected" => Agreed(j, "false_positive")

\* A finding whose review ended in a decision carries both passes in its
\* evidence: false beside any other writer.  Jev's verdict is kept "separate from the investigator/validator
\* passes so dual-pass logic is unaffected" (store.rs:1488-1490).
EvidenceBacksReview ==
    \A j \in Job \ ByCandidate :
       pc[j] \in {"confirmed", "dismissed"} =>
          row[About[j]].inv = inv[j] /\ row[About[j]].val = val[j]

\* Once the scan is cancelled the pool drains, paused or not, permits or not.
CancelEndsPool == abort ~> spawner = "returned"

\* A pool that does not stay paused gets through its jobs, failed ones too.
UnpausedPoolEnds == <>[]~pause => <>(spawner = "returned")
=============================================================================
