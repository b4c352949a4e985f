--------------------------- MODULE ScanLifecycle ---------------------------
(***************************************************************************)
(* The life of an assessment of the AppSec ledger: start_scan (new or      *)
(* resumed), the spawned worker with its gates, cancel_scan, pause_scan,   *)
(* and the status column of the assessments table that all of them write   *)
(* (crates/achilles-store/src/scan.rs and store.rs).                       *)
(*                                                                         *)
(* A step is what the code does between two awaits: one SQL statement, or  *)
(* the synchronous code that follows one.  The control map and the flags   *)
(* live in a process; the assessments table is one SQLite file that every  *)
(* process (desktop server, command line) opens.                           *)
(***************************************************************************)
EXTENDS Naturals, FiniteSets

CONSTANTS
    Assessment,  \* rows of the assessments table that may be created
    Run,         \* calls of start_scan, each with the worker it spawns
    Caller,      \* clients that call cancel_scan and pause_scan
    Proc,        \* operating system processes that open the same ledger
    ProcOf,      \* the process each run and each caller lives in
    Nobody,      \* no control registered
    Gates,       \* engine stages, each behind a gate, before the final gate
    MaxCrashes   \* bound on process crashes

ASSUME LifecycleAssumption ==
    /\ ProcOf \in [Run \cup Caller -> Proc]
    /\ Run \cap Caller = {}
    /\ Nobody \notin Run
    /\ Gates \in Nat
    /\ MaxCrashes \in Nat

VARIABLES
    status,   \* assessments.status; "none" before the row exists
    control,  \* scan_controls(): per process, the run whose flags are listed
    cancel,   \* ScanControl.abort of each run
    pause,    \* ScanControl.pause of each run
    pc,       \* where each run is
    target,   \* the assessment each run works on
    saw,      \* the status a resume read before it reopened the row
    passed,   \* engine stages the worker has finished
    outcome,  \* how run_engines returned
    call,     \* the request each caller has in flight
    crashes

vars == <<status, control, cancel, pause, pc, target, saw, passed, outcome,
          call, crashes>>
store == <<status>>
flags == <<control, cancel, pause>>
job == <<target, saw, passed, outcome>>
-----------------------------------------------------------------------------
Live == {"queued", "running", "paused"}
Terminal == {"completed", "failed", "cancelled", "partial"}
Status == {"none"} \cup Live \cup Terminal
Resumable == {"cancelled", "partial", "paused", "failed", "running"}

Starting == {"read", "checked", "opened"}
Task == {"gate", "paused", "unpausing", "work", "finishing", "stopping"}
Ended == {"done", "abandoned", "crashed", "unrecorded"}
PC == {"free", "recording"} \cup Starting \cup Task \cup Ended
Outcome == {"none", "ok", "cancelled", "partial", "failed"}

Idle == [op |-> "idle"]
Request ==
    {Idle}
    \cup [op : {"cancel"}, at : {"flag", "store"}, asmt : Assessment]
    \cup [op : {"pause"}, at : {"flag", "store"}, asmt : Assessment,
          on : BOOLEAN]

TypeOK ==
    /\ status \in [Assessment -> Status]
    /\ control \in [Proc -> [Assessment -> Run \cup {Nobody}]]
    /\ cancel \in [Run -> BOOLEAN]
    /\ pause \in [Run -> BOOLEAN]
    /\ pc \in [Run -> PC]
    /\ target \in [Run -> Assessment]
    /\ saw \in [Run -> Status]
    /\ passed \in [Run -> 0..Gates]
    /\ outcome \in [Run -> Outcome]
    /\ call \in [Caller -> Request]
    /\ crashes \in 0..MaxCrashes

Init ==
    /\ status = [a \in Assessment |-> "none"]
    /\ control = [p \in Proc |-> [a \in Assessment |-> Nobody]]
    /\ cancel = [r \in Run |-> FALSE]
    /\ pause = [r \in Run |-> FALSE]
    /\ pc = [r \in Run |-> "free"]
    /\ target \in [Run -> Assessment]
    /\ saw = [r \in Run |-> "none"]
    /\ passed = [r \in Run |-> 0]
    /\ outcome = [r \in Run |-> "none"]
    /\ call = [c \in Caller |-> Idle]
    /\ crashes = 0
-----------------------------------------------------------------------------
(* The three UPDATEs of assessments.status, each one guarded statement. *)
FinishAssessment(a, verdict) ==
    [status EXCEPT ![a] = IF @ \in Live THEN verdict ELSE @]

\* Mutant: the WHERE on the live statuses is left out.
SetLiveOverwrites(a, live) == [status EXCEPT ![a] = live]

SetLiveStatus(a, live) ==
    [status EXCEPT ![a] = IF @ \in Live THEN live ELSE @]

\* Mutant: the WHERE on the resumable statuses is left out.
ReopenOverwrites(a) == [status EXCEPT ![a] = "running"]

ReopenAssessment(a) ==
    [status EXCEPT ![a] = IF @ \in Resumable THEN "running" ELSE @]

\* A write of the store: it may fail, and then leaves the row as it was.
Written(new) == status' = new \/ status' = status

Registered(r) == control[ProcOf[r]][target[r]]

Goto(r, label) == pc' = [pc EXCEPT ![r] = label]

Stop(r, how) ==
    /\ outcome' = [outcome EXCEPT ![r] = how]
    /\ Goto(r, "stopping")
    /\ UNCHANGED <<store, flags, target, saw, passed, call, crashes>>
-----------------------------------------------------------------------------
(* start_scan *)

\* create_assessment inserts the row already running.
StartNew(r) ==
    /\ pc[r] = "free"
    /\ status[target[r]] = "none"
    /\ status' = [status EXCEPT ![target[r]] = "running"]
    /\ Goto(r, "opened")
    /\ UNCHANGED <<flags, job, call, crashes>>

\* The resume path reads the row it was given.
ResumeRead(r) ==
    /\ pc[r] = "free"
    /\ status[target[r]] # "none"
    /\ saw' = [saw EXCEPT ![r] = status[target[r]]]
    /\ Goto(r, "read")
    /\ UNCHANGED <<store, flags, target, passed, outcome, call, crashes>>

\* Back from the read: the status that was read must be resumable and no
\* worker of this process may be registered for the assessment.
ResumeCheck(r) ==
    /\ pc[r] = "read"
    /\ Goto(r, IF saw[r] \in Resumable /\ Registered(r) = Nobody
               THEN "checked" ELSE "done")
    /\ UNCHANGED <<store, flags, job, call, crashes>>

\* reopen_assessment fails when its guarded UPDATE touches no row.
ResumeReopen(r) ==
    /\ pc[r] = "checked"
    /\ status' = ReopenAssessment(target[r])
    /\ Goto(r, IF status[target[r]] \in Resumable THEN "opened" ELSE "done")
    /\ UNCHANGED <<flags, job, call, crashes>>

\* A later statement of start_scan fails, or its future is dropped, before
\* the worker exists.
AbandonStart(r) ==
    /\ pc[r] \in Starting
    /\ Goto(r, IF pc[r] = "opened" THEN "abandoned" ELSE "done")
    /\ UNCHANGED <<store, flags, job, call, crashes>>

\* register_control overwrites whatever the map holds, then the task is spawned.
Register(r) ==
    /\ pc[r] = "opened"
    /\ control' = [control EXCEPT ![ProcOf[r]][target[r]] = r]
    /\ Goto(r, "gate")
    /\ UNCHANGED <<store, cancel, pause, job, call, crashes>>

\* The caller that waits for the scan goes away: CancelOnDrop.
DropWaiter(r) ==
    /\ pc[r] \in Task
    /\ cancel' = [cancel EXCEPT ![r] = TRUE]
    /\ UNCHANGED <<store, control, pause, pc, job, call, crashes>>
-----------------------------------------------------------------------------
(* The worker: gate, engine stages, final gate *)

\* Mutant: one more engine stage than there is.
AfterGateLate(r) == IF passed[r] > Gates THEN "finishing" ELSE "work"

AfterGate(r) == IF passed[r] = Gates THEN "finishing" ELSE "work"

GateBudget(r) ==
    /\ pc[r] \in {"gate", "paused"}
    /\ Stop(r, "partial")

GateCancelled(r) ==
    /\ pc[r] \in {"gate", "paused"}
    /\ cancel[r]
    /\ Stop(r, "cancelled")

GatePass(r) ==
    /\ pc[r] = "gate"
    /\ ~cancel[r]
    /\ Goto(r, IF pause[r] THEN "paused" ELSE AfterGate(r))
    /\ UNCHANGED <<store, flags, job, call, crashes>>

\* The 50 ms poll finds the pause flag down.
GateWake(r) ==
    /\ pc[r] = "paused"
    /\ ~cancel[r]
    /\ ~pause[r]
    /\ Goto(r, "unpausing")
    /\ UNCHANGED <<store, flags, job, call, crashes>>

\* The result of the write is dropped: the worker goes on without it.
GateUnpause(r) ==
    /\ pc[r] = "unpausing"
    /\ Written(SetLiveStatus(target[r], "running"))
    /\ Goto(r, AfterGate(r))
    /\ UNCHANGED <<flags, job, call, crashes>>

EngineDone(r) ==
    /\ pc[r] = "work"
    /\ passed' = [passed EXCEPT ![r] = @ + 1]
    /\ Goto(r, "gate")
    /\ UNCHANGED <<store, flags, target, saw, outcome, call, crashes>>

\* An engine polls the flag and leaves through stop_engine.
EngineStopped(r) ==
    /\ pc[r] = "work"
    /\ cancel[r]
    /\ Stop(r, "cancelled")

EngineFailed(r) ==
    /\ pc[r] \in {"work", "finishing"}
    /\ Stop(r, "failed")

FinishCompleted(r) ==
    /\ pc[r] = "finishing"
    /\ status' = FinishAssessment(target[r], "completed")
    /\ outcome' = [outcome EXCEPT ![r] = "ok"]
    /\ Goto(r, "stopping")
    /\ UNCHANGED <<flags, target, saw, passed, call, crashes>>

\* Mutant: only a failed worker is unregistered.
UnregisterFailed(r) ==
    /\ pc[r] = "stopping"
    /\ control' = IF outcome[r] = "ok" THEN control
                  ELSE [control EXCEPT ![ProcOf[r]][target[r]] = Nobody]
    /\ Goto(r, IF outcome[r] = "ok" THEN "done" ELSE "recording")
    /\ UNCHANGED <<store, cancel, pause, job, call, crashes>>

\* unregister_control removes the key, whoever registered it last; an error
\* is then classified, a raised abort flag before anything else.
Unregister(r) ==
    /\ pc[r] = "stopping"
    /\ control' = [control EXCEPT ![ProcOf[r]][target[r]] = Nobody]
    /\ Goto(r, IF outcome[r] = "ok" THEN "done" ELSE "recording")
    /\ outcome' = [outcome EXCEPT
                     ![r] = IF @ # "ok" /\ cancel[r] THEN "cancelled" ELSE @]
    /\ UNCHANGED <<store, cancel, pause, target, saw, passed, call, crashes>>

\* The worker's last write; nobody looks at its result (`let _ =`).
RecordStop(r) ==
    /\ pc[r] = "recording"
    /\ \/ /\ status' = FinishAssessment(target[r], outcome[r])
          /\ Goto(r, "done")
       \/ /\ UNCHANGED status
          /\ Goto(r, "unrecorded")
    /\ UNCHANGED <<flags, job, call, crashes>>
-----------------------------------------------------------------------------
(* cancel_scan and pause_scan *)

Ask(c, request) ==
    /\ call[c] = Idle
    /\ status[request.asmt] \in Live
    /\ call' = [call EXCEPT ![c] = request]
    /\ UNCHANGED <<store, flags, pc, job, crashes>>

CancelRead(c) ==
    \E a \in Assessment : Ask(c, [op |-> "cancel", at |-> "flag", asmt |-> a])

PauseRead(c) ==
    \E a \in Assessment, on \in BOOLEAN :
        Ask(c, [op |-> "pause", at |-> "flag", asmt |-> a, on |-> on])

\* The run whose flags the caller's process can reach.
Reached(c) == control[ProcOf[c]][call[c].asmt]

RequestCancelFlag(c) ==
    /\ call[c].op = "cancel"
    /\ call[c].at = "flag"
    /\ IF Reached(c) = Nobody
       THEN UNCHANGED <<cancel, pause>>
       ELSE /\ cancel' = [cancel EXCEPT ![Reached(c)] = TRUE]
            /\ pause' = [pause EXCEPT ![Reached(c)] = FALSE]
    /\ call' = [call EXCEPT ![c].at = "store"]
    /\ UNCHANGED <<store, control, pc, job, crashes>>

CancelStore(c) ==
    /\ call[c].op = "cancel"
    /\ call[c].at = "store"
    /\ Written(FinishAssessment(call[c].asmt, "cancelled"))
    /\ call' = [call EXCEPT ![c] = Idle]
    /\ UNCHANGED <<flags, pc, job, crashes>>

\* Without a registered worker the request fails.
SetPauseFlag(c) ==
    /\ call[c].op = "pause"
    /\ call[c].at = "flag"
    /\ IF Reached(c) = Nobody
       THEN /\ call' = [call EXCEPT ![c] = Idle]
            /\ UNCHANGED pause
       ELSE /\ pause' = [pause EXCEPT ![Reached(c)] = call[c].on]
            /\ call' = [call EXCEPT ![c].at = "store"]
    /\ UNCHANGED <<store, control, cancel, pc, job, crashes>>

PauseStore(c) ==
    /\ call[c].op = "pause"
    /\ call[c].at = "store"
    /\ Written(SetLiveStatus(call[c].asmt,
                             IF call[c].on THEN "paused" ELSE "running"))
    /\ call' = [call EXCEPT ![c] = Idle]
    /\ UNCHANGED <<flags, pc, job, crashes>>
-----------------------------------------------------------------------------
\* A process dies: its control map, tasks and requests go with it.
Crash(p) ==
    /\ crashes < MaxCrashes
    /\ crashes' = crashes + 1
    /\ control' = [control EXCEPT ![p] = [a \in Assessment |-> Nobody]]
    /\ pc' = [r \in Run |->
                IF ProcOf[r] # p \/ pc[r] \in {"free"} \cup Ended THEN pc[r]
                ELSE IF pc[r] \in {"read", "checked"} THEN "done"
                ELSE "crashed"]
    /\ call' = [c \in Caller |-> IF ProcOf[c] = p THEN Idle ELSE call[c]]
    /\ UNCHANGED <<store, cancel, pause, job>>

Start(r) ==
    \/ StartNew(r) \/ ResumeRead(r) \/ ResumeCheck(r) \/ ResumeReopen(r)
    \/ AbandonStart(r) \/ Register(r) \/ DropWaiter(r)

Work(r) ==
    \/ GateCancelled(r) \/ GatePass(r) \/ GateWake(r) \/ GateUnpause(r)
    \/ EngineDone(r) \/ EngineStopped(r) \/ EngineFailed(r)
    \/ FinishCompleted(r) \/ Unregister(r) \/ RecordStop(r)

Serve(c) ==
    \/ CancelRead(c) \/ RequestCancelFlag(c) \/ CancelStore(c)
    \/ PauseRead(c) \/ SetPauseFlag(c) \/ PauseStore(c)

Next ==
    \/ \E r \in Run : Start(r) \/ Work(r) \/ GateBudget(r)
    \/ \E c \in Caller : Serve(c)
    \/ \E p \in Proc : Crash(p)

Spec == Init /\ [][Next]_vars

-----------------------------------------------------------------------------
(* Safety *)

\* The run opened its row and has the verdict still to write.
Closing(r) ==
    /\ pc[r] \in Task \cup {"opened", "recording"}
    /\ ~(pc[r] = "stopping" /\ outcome[r] = "ok")

\* The start was given up after it opened its row, the worker died with its
\* process, or its last write failed and nobody noticed: nobody is left to
\* write a verdict (scan.rs:370, scan.rs:424, scan.rs:447).
Lost(r) == pc[r] \in {"abandoned", "crashed", "unrecorded"}

\* A row that says running or paused has a worker that will close it, unless
\* a worker of that very assessment was lost in one of these three ways: no
\* interleaving of cancel, pause, resume, failing writes and the worker's own
\* verdict brings a stopped row back to life (store.rs:510-574).
LiveRowHasWorker ==
    \A a \in Assessment :
        status[a] \in Live =>
            \E r \in Run : target[r] = a /\ (Closing(r) \/ Lost(r))

\* The control map never lists a run that has ended or another assessment's
\* run, so a cancel or a pause never reaches a dead flag (scan.rs:49-64).
ControlIsLiveTask ==
    \A p \in Proc, a \in Assessment :
        LET r == control[p][a] IN
        r # Nobody => ProcOf[r] = p /\ target[r] = a /\ pc[r] \in Task

\* What each caller may rely on whoever else writes the row: AssessmentRow.
Row == INSTANCE AssessmentRow
RowPromise == Row!Spec

-----------------------------------------------------------------------------
(* What the repository says of the program, and its code does not keep *)

Quiet(a) == \A c \in Caller : call[c] # Idle => call[c].asmt # a

\* "assessment ... is still running" (scan.rs:367-368): an assessment that a
\* worker is scanning is not handed to a second one.
OneWorker ==
    \A a \in Assessment :
        Cardinality({r \in Run : target[r] = a /\ pc[r] \in Task}) <= 1

\* "scan worker was still running after stop" (scan.rs:2651-2654): once
\* cancel_scan has marked the row, the worker's abort flag is up.
CancelDelivered ==
    \A r \in Run :
        /\ status[target[r]] = "cancelled" /\ Quiet(target[r])
        /\ pc[r] \in Task \ {"stopping"}
        => cancel[r]

\* A run that went through every engine, that nobody cancelled and that is
\* still the registered worker leaves the assessment completed (the test
\* duration_cap_stops_partial_and_resume_completes, scan.rs:1940).
FinishedIsCompleted ==
    [][\A r \in Run :
          /\ pc[r] = "finishing" /\ outcome'[r] = "ok"
          /\ ~cancel[r] /\ Registered(r) = r
          => status'[target[r]] = "completed"]_vars
=============================================================================
