----------------------------- MODULE Scheduler -----------------------------
(***************************************************************************)
(* The scheduler of recipe jobs: the map of jobs behind its mutex, the     *)
(* file it is written to, the cron tasks of the internal scheduler, and    *)
(* the cancellation tokens of the jobs at work.  Every operation gives the *)
(* mutex back between looking, changing and persisting; persisting itself  *)
(* holds it while the whole map is written.                                *)
(*                                                                         *)
(* The file is rewritten in place: a write that fails, or that the process *)
(* ends in, may leave a part of it that nobody can read.  The future of    *)
(* run_now and of a request may be dropped at any of its awaits, as when   *)
(* the turn that called the schedule tool is cancelled.                    *)
(*                                                                         *)
(* One process.  Recipe files, sessions and the times in an entry are left *)
(* out, and the cron tasks fire at any time.                               *)
(***************************************************************************)
EXTENDS Naturals, FiniteSets

CONSTANTS
    Job, Caller,     \* job ids; callers of the API, one request each at a time
    Run,             \* executions under way at the same time
    Cron, Invalid,   \* cron expressions, and those that do not parse
    TaskId, Absent,  \* uuids of cron tasks
    ListAlone,       \* jobs are listed only while no other request is served
    MaxRequests, MaxFaults, MaxCrashes   \* bounds of the instance

ASSUME SchedulerAssumption ==
    /\ Invalid \subseteq Cron
    /\ Absent \notin Job \cup Run \cup TaskId \cup Cron
    /\ Absent \notin [cron : Cron, paused : BOOLEAN, running : BOOLEAN]
    /\ Absent \notin [cron : Cron, paused : BOOLEAN, running : BOOLEAN, task : TaskId]
    /\ ListAlone \in BOOLEAN
    /\ MaxRequests \in Nat /\ MaxFaults \in Nat /\ MaxCrashes \in Nat

VARIABLES
    jobs,       \* the map: an entry with the uuid of its task, or Absent
    file,       \* schedule.json
    written,    \* it is there and can be read
    tasks,      \* the job that a registered cron task starts
    running,    \* running_tasks: the run whose token is in the map
    rpc, rjob, now, cancelled,   \* a run: where, of what, run_now?, its token
    cpc, cjob, ccron, ctask,     \* a caller: where, its arguments, a uuid
    onDisk,     \* what a listing read from the file
    adding,     \* the jobs the listing is to add to the map
    dropping,   \* the uuid of a job the listing is to drop
    stored,     \* add returned Ok for the job; since then nobody removed it,
                \* asked for an expression that does not parse, nor did a
                \* process begin without a file that can be read
    left, cut,  \* jobs whose run_now, or whose request, was dropped in between
    requests, faults, crashes

fileVars == <<file, written>>
listVars == <<onDisk, adding, dropping>>
entryVars == <<jobs, fileVars, stored>>
runVars == <<rpc, rjob, now, cancelled>>
callVars == <<cpc, cjob, ccron, ctask, listVars>>
lifeVars == <<crashes, left, cut>>
countVars == <<requests, faults, lifeVars>>
vars == <<entryVars, tasks, running, runVars, callVars, countVars>>

Entry == [cron : Cron, paused : BOOLEAN, running : BOOLEAN, task : TaskId]
Saved == [cron : Cron, paused : BOOLEAN, running : BOOLEAN]

RPC == {"idle", "checked", "marked", "token", "exec", "unmark", "persist"}
CPC == {"idle", "register", "insert", "stored", "unregister", "replace", "renew",
        "swap", "untoken", "clear", "persist", "compare", "sync", "adopt", "forget"}

TypeOK ==
    /\ jobs \in [Job -> Entry \cup {Absent}]
    /\ file \in [Job -> Saved \cup {Absent}] /\ written \in BOOLEAN
    /\ tasks \in [TaskId -> Job \cup {Absent}]
    /\ running \in [Job -> Run \cup {Absent}]
    /\ rpc \in [Run -> RPC] /\ rjob \in [Run -> Job \cup {Absent}]
    /\ now \in [Run -> BOOLEAN] /\ cancelled \in [Run -> BOOLEAN]
    /\ cpc \in [Caller -> CPC] /\ cjob \in [Caller -> Job \cup {Absent}]
    /\ ccron \in [Caller -> Cron \cup {Absent}]
    /\ ctask \in [Caller -> TaskId \cup {Absent}]
    /\ onDisk \in [Job -> Saved \cup {Absent}]
    /\ adding \subseteq Job
    /\ dropping \in [Job -> TaskId \cup {Absent}]
    /\ stored \in [Job -> BOOLEAN]
    /\ left \subseteq Job /\ cut \subseteq Job
    /\ requests \in Nat /\ faults \in Nat /\ crashes \in Nat

-----------------------------------------------------------------------------
Has(j) == jobs[j] # Absent
Working(j) == Has(j) /\ jobs[j].running

ToSave(e) == IF e = Absent THEN Absent
             ELSE [cron |-> e.cron, paused |-> e.paused, running |-> e.running]

\* persist_jobs: the file becomes what is in the map.
PersistJobs == file' = [j \in Job |-> ToSave(jobs[j])] /\ written' = TRUE

\* A write that fails leaves the file alone, or a part of it.
Nothing == [j \in Job |-> Absent]
LoseFile == file' = Nothing /\ written' = FALSE
FailWrite == faults < MaxFaults /\ faults' = faults + 1
             /\ (UNCHANGED fileVars \/ LoseFile)

\* The uuid of a new task is nobody's.
Fresh == {t \in TaskId :
            /\ tasks[t] = Absent
            /\ \A j \in Job : Has(j) => jobs[j].task # t
            /\ \A j \in Job : dropping[j] # t
            /\ \A c \in Caller : ctask[c] # t}

RunTo(r, l) == rpc' = [rpc EXCEPT ![r] = l]
CallTo(c, l) == cpc' = [cpc EXCEPT ![c] = l]

\* The end of a run and of a request; its arguments are forgotten.
Over(r) ==
    /\ RunTo(r, "idle")
    /\ rjob' = [rjob EXCEPT ![r] = Absent]
    /\ now' = [now EXCEPT ![r] = FALSE]
    /\ cancelled' = [cancelled EXCEPT ![r] = FALSE]

Return(c) ==
    /\ CallTo(c, "idle")
    /\ cjob' = [cjob EXCEPT ![c] = Absent]
    /\ ccron' = [ccron EXCEPT ![c] = Absent]
    /\ ctask' = [ctask EXCEPT ![c] = Absent]

-----------------------------------------------------------------------------
(* The runs: a cron task that fires, and run_now. *)

\* The task looks whether its job is there and not paused.
Fire(r, t) ==
    /\ rpc[r] = "idle" /\ tasks[t] # Absent
    /\ Has(tasks[t]) /\ ~jobs[tasks[t]].paused
    /\ RunTo(r, "checked")
    /\ rjob' = [rjob EXCEPT ![r] = tasks[t]]
    /\ UNCHANGED <<entryVars, tasks, running, now, cancelled, callVars, countVars>>

\* In a second section of the mutex it marks the job, if that is still there.
Mark(r) ==
    /\ rpc[r] = "checked"
    /\ jobs' = IF Has(rjob[r]) THEN [jobs EXCEPT ![rjob[r]].running = TRUE] ELSE jobs
    /\ RunTo(r, "marked")
    /\ UNCHANGED <<fileVars, stored, tasks, running, rjob, now, cancelled, callVars,
                   countVars>>

RunNow(r, j) ==
    /\ rpc[r] = "idle"
    /\ Has(j) /\ ~jobs[j].running
    /\ jobs' = [jobs EXCEPT ![j].running = TRUE]
    /\ RunTo(r, "marked")
    /\ rjob' = [rjob EXCEPT ![r] = j]
    /\ now' = [now EXCEPT ![r] = TRUE]
    /\ UNCHANGED <<fileVars, stored, tasks, running, cancelled, callVars, countVars>>

PersistMark(r) ==
    /\ rpc[r] = "marked"
    /\ PersistJobs /\ RunTo(r, "token")
    /\ UNCHANGED <<jobs, stored, tasks, running, rjob, now, cancelled, callVars,
                   countVars>>

\* A cron task logs the failure and goes on; run_now returns it.
MarkNotPersisted(r) ==
    /\ rpc[r] = "marked"
    /\ FailWrite
    /\ IF now[r] THEN Over(r) ELSE RunTo(r, "token") /\ UNCHANGED <<rjob, now, cancelled>>
    /\ UNCHANGED <<jobs, stored, tasks, running, callVars, requests, lifeVars>>

InsertToken(r) ==
    /\ rpc[r] = "token"
    /\ running' = [running EXCEPT ![rjob[r]] = r]
    /\ RunTo(r, "exec")
    /\ UNCHANGED <<entryVars, tasks, rjob, now, cancelled, callVars, countVars>>

\* Mutant: a run that was cancelled returns at once.
ExecutedReturns(r) ==
    /\ rpc[r] = "exec"
    /\ running' = [running EXCEPT ![rjob[r]] = Absent]
    /\ IF cancelled[r] THEN Over(r)
       ELSE RunTo(r, "unmark") /\ UNCHANGED <<rjob, now, cancelled>>
    /\ UNCHANGED <<entryVars, tasks, callVars, countVars>>

\* execute_job is over, however it ended; the token is taken from the map,
\* whoever's it is.
Executed(r) ==
    /\ rpc[r] = "exec"
    /\ running' = [running EXCEPT ![rjob[r]] = Absent]
    /\ RunTo(r, "unmark")
    /\ UNCHANGED <<entryVars, tasks, rjob, now, cancelled, callVars, countVars>>

Unmark(r) ==
    /\ rpc[r] = "unmark"
    /\ jobs' = IF Has(rjob[r]) THEN [jobs EXCEPT ![rjob[r]].running = FALSE] ELSE jobs
    /\ RunTo(r, "persist")
    /\ UNCHANGED <<fileVars, stored, tasks, running, rjob, now, cancelled, callVars,
                   countVars>>

PersistEnd(r) ==
    /\ rpc[r] = "persist"
    /\ (PersistJobs /\ UNCHANGED faults) \/ FailWrite
    /\ Over(r)
    /\ UNCHANGED <<jobs, stored, tasks, running, callVars, requests, lifeVars>>

\* The caller of run_now goes away, and the future with it: the mark and the
\* token stay.
RunDropped(r) ==
    /\ rpc[r] # "idle" /\ now[r] /\ faults + Cardinality(left) < MaxFaults
    /\ Over(r)
    /\ left' = left \cup {rjob[r]}
    /\ UNCHANGED <<entryVars, tasks, running, callVars, requests, faults, crashes, cut>>

-----------------------------------------------------------------------------
(* The requests. *)

Listing == \E c \in Caller : cpc[c] \in {"compare", "sync", "adopt", "forget"}

Request(c, j) ==
    /\ cpc[c] = "idle" /\ requests < MaxRequests
    /\ ListAlone => ~Listing
    /\ requests' = requests + 1
    /\ cjob' = [cjob EXCEPT ![c] = j]

\* What a request leaves alone that only looks at or changes the map.
notJobs == <<fileVars, tasks, running, runVars, listVars, faults, lifeVars>>

Add(c, j, cron) ==
    /\ Request(c, j) /\ ~Has(j)
    /\ CallTo(c, "register")
    /\ ccron' = [ccron EXCEPT ![c] = cron]
    /\ UNCHANGED <<jobs, stored, ctask, notJobs>>

\* A cron task is made and registered; an expression that does not parse ends
\* the request.
NewTask(c, l) ==
    IF ccron[c] \in Invalid
    THEN Return(c) /\ UNCHANGED tasks
    ELSE /\ \E t \in Fresh :
               /\ tasks' = [tasks EXCEPT ![t] = cjob[c]]
               /\ ctask' = [ctask EXCEPT ![c] = t]
         /\ CallTo(c, l)
         /\ UNCHANGED <<cjob, ccron>>

Register(c) ==
    /\ cpc[c] = "register"
    /\ NewTask(c, "insert")
    /\ UNCHANGED <<entryVars, running, runVars, listVars, countVars>>

\* The entry is put in, over one that came in between.
Insert(c) ==
    /\ cpc[c] = "insert"
    /\ jobs' = [jobs EXCEPT ![cjob[c]] =
                  [cron |-> ccron[c], paused |-> FALSE, running |-> FALSE,
                   task |-> ctask[c]]]
    /\ CallTo(c, "stored")
    /\ UNCHANGED <<stored, cjob, ccron, ctask, requests, notJobs>>

Remove(c, j) ==
    /\ Request(c, j) /\ Has(j)
    /\ ctask' = [ctask EXCEPT ![c] = jobs[j].task]
    /\ jobs' = [jobs EXCEPT ![j] = Absent]
    /\ stored' = [stored EXCEPT ![j] = FALSE]
    /\ CallTo(c, "unregister")
    /\ UNCHANGED <<ccron, notJobs>>

DropTask(c, from, to) ==
    /\ cpc[c] = from
    /\ tasks' = [tasks EXCEPT ![ctask[c]] = Absent]
    /\ ctask' = [ctask EXCEPT ![c] = Absent]
    /\ CallTo(c, to)
    /\ UNCHANGED <<entryVars, running, runVars, cjob, ccron, listVars, countVars>>

Unregister(c) == DropTask(c, "unregister", "persist")

\* pause refuses a job at work, unpause does not.
SetPaused(c, j, p) ==
    /\ Request(c, j) /\ Has(j) /\ (p => ~jobs[j].running)
    /\ jobs' = [jobs EXCEPT ![j].paused = p]
    /\ CallTo(c, "persist")
    /\ UNCHANGED <<stored, ccron, ctask, notJobs>>

\* update_schedule: the entry has the new expression at once; the old task is
\* removed, a new one registered, and its uuid put in.
Update(c, j, cron) ==
    /\ Request(c, j) /\ Has(j) /\ ~jobs[j].running /\ jobs[j].cron # cron
    /\ jobs' = [jobs EXCEPT ![j].cron = cron]
    /\ ccron' = [ccron EXCEPT ![c] = cron]
    /\ ctask' = [ctask EXCEPT ![c] = jobs[j].task]
    /\ CallTo(c, "replace")
    /\ stored' = [stored EXCEPT ![j] = @ /\ cron \notin Invalid]
    /\ UNCHANGED notJobs

Replace(c) == DropTask(c, "replace", "renew")

Renew(c) ==
    /\ cpc[c] = "renew"
    /\ NewTask(c, "swap")
    /\ UNCHANGED <<entryVars, running, runVars, listVars, countVars>>

\* Mutant: the entry keeps the uuid of the task that was removed.
SwapKeepsOld(c) ==
    /\ cpc[c] = "swap"
    /\ CallTo(c, "persist")
    /\ UNCHANGED <<jobs, stored, cjob, ccron, ctask, requests, notJobs>>

Swap(c) ==
    /\ cpc[c] = "swap"
    /\ jobs' = IF Has(cjob[c]) THEN [jobs EXCEPT ![cjob[c]].task = ctask[c]] ELSE jobs
    /\ CallTo(c, "persist")
    /\ UNCHANGED <<stored, cjob, ccron, ctask, requests, notJobs>>

\* kill_running_job: the token that is in the map, if any, is cancelled; that of
\* a dropped run is nobody's.
Kill(c, j) ==
    /\ Request(c, j) /\ Working(j)
    /\ CallTo(c, "untoken")
    /\ UNCHANGED <<jobs, stored, ccron, ctask, notJobs>>

CancelRun(c) ==
    /\ cpc[c] = "untoken"
    /\ cancelled' = [r \in Run |-> \/ cancelled[r]
                                   \/ /\ running[cjob[c]] = r
                                      /\ rpc[r] = "exec" /\ rjob[r] = cjob[c]]
    /\ running' = [running EXCEPT ![cjob[c]] = Absent]
    /\ CallTo(c, "clear")
    /\ UNCHANGED <<entryVars, tasks, rpc, rjob, now, cjob, ccron, ctask, listVars,
                   countVars>>

\* Mutant: a killed job is cleared in the map only.
ClearUnsaved(c) ==
    /\ cpc[c] = "clear"
    /\ jobs' = IF Has(cjob[c]) THEN [jobs EXCEPT ![cjob[c]].running = FALSE] ELSE jobs
    /\ Return(c)
    /\ UNCHANGED <<stored, requests, notJobs>>

Clear(c) ==
    /\ cpc[c] = "clear"
    /\ IF Has(cjob[c])
       THEN /\ jobs' = [jobs EXCEPT ![cjob[c]].running = FALSE]
            /\ CallTo(c, "persist")
            /\ UNCHANGED <<cjob, ccron, ctask>>
       ELSE Return(c) /\ UNCHANGED jobs
    /\ UNCHANGED <<stored, requests, notJobs>>

\* Every change of the map ends with writing it; the request then returns.
Persist(c) ==
    /\ cpc[c] \in {"persist", "stored"}
    /\ PersistJobs
    /\ stored' = [j \in Job |-> IF cpc[c] = "stored" /\ cjob[c] = j
                               THEN Has(j) /\ jobs[j].cron \notin Invalid
                               ELSE stored[j]]
    /\ Return(c)
    /\ UNCHANGED <<jobs, tasks, running, runVars, listVars, countVars>>

\* Mutant: a request whose write fails reports success, as a cron task goes on.
NotPersistedOk(c) ==
    /\ cpc[c] \in {"persist", "stored"}
    /\ FailWrite
    /\ stored' = [j \in Job |-> stored[j] \/ (cpc[c] = "stored" /\ cjob[c] = j)]
    /\ Return(c)
    /\ UNCHANGED <<jobs, tasks, running, runVars, listVars, requests, lifeVars>>

NotPersisted(c) ==
    /\ cpc[c] \in {"persist", "stored"}
    /\ FailWrite
    /\ Return(c)
    /\ UNCHANGED <<jobs, stored, tasks, running, runVars, listVars, requests, lifeVars>>

-----------------------------------------------------------------------------
(* list_scheduled_jobs brings the map in line with the file first; one      *)
(* listing at a time, and alone of all requests where ListAlone says so.    *)

List(c) ==
    /\ cpc[c] = "idle" /\ requests < MaxRequests /\ written
    /\ ~Listing /\ (ListAlone => \A d \in Caller : cpc[d] = "idle")
    /\ requests' = requests + 1
    /\ onDisk' = file
    /\ CallTo(c, "compare")
    /\ UNCHANGED <<entryVars, tasks, running, runVars, cjob, ccron, ctask, adding,
                   dropping, faults, lifeVars>>

\* An entry that the file has not, and that is not at work, is to go.
Compare(c) ==
    /\ cpc[c] = "compare"
    /\ adding' = {j \in Job : ~Has(j) /\ onDisk[j] # Absent}
    /\ dropping' = [j \in Job |->
          IF Has(j) /\ onDisk[j] = Absent /\ ~jobs[j].running THEN jobs[j].task
                                                             ELSE Absent]
    /\ CallTo(c, "sync")
    /\ UNCHANGED <<entryVars, tasks, running, runVars, cjob, ccron, ctask, onDisk,
                   countVars>>

\* What the file has and the map has not is registered, then put in.
Adopt(c, j) ==
    /\ cpc[c] = "sync" /\ j \in adding
    /\ adding' = adding \ {j}
    /\ cjob' = [cjob EXCEPT ![c] = j]
    /\ IF onDisk[j].cron \in Invalid
       THEN UNCHANGED <<tasks, ctask, cpc>>
       ELSE \E t \in Fresh :
               /\ tasks' = [tasks EXCEPT ![t] = j]
               /\ ctask' = [ctask EXCEPT ![c] = t]
               /\ CallTo(c, "adopt")
    /\ UNCHANGED <<entryVars, running, runVars, ccron, onDisk, dropping, countVars>>

Adopted(c) ==
    /\ cpc[c] = "adopt"
    /\ jobs' = [jobs EXCEPT ![cjob[c]] =
                  [cron |-> onDisk[cjob[c]].cron, paused |-> onDisk[cjob[c]].paused,
                   running |-> onDisk[cjob[c]].running, task |-> ctask[c]]]
    /\ ctask' = [ctask EXCEPT ![c] = Absent]
    /\ CallTo(c, "sync")
    /\ UNCHANGED <<stored, cjob, ccron, requests, notJobs>>

\* The task of an entry that is to go is removed, then the entry.
Forget(c, j) ==
    /\ cpc[c] = "sync" /\ adding = {} /\ dropping[j] # Absent
    /\ tasks' = [tasks EXCEPT ![dropping[j]] = Absent]
    /\ dropping' = [dropping EXCEPT ![j] = Absent]
    /\ cjob' = [cjob EXCEPT ![c] = j]
    /\ CallTo(c, "forget")
    /\ UNCHANGED <<entryVars, running, runVars, ccron, ctask, onDisk, adding, countVars>>

Forgotten(c) ==
    /\ cpc[c] = "forget"
    /\ jobs' = [jobs EXCEPT ![cjob[c]] = Absent]
    /\ CallTo(c, "sync")
    /\ UNCHANGED <<stored, cjob, ccron, ctask, requests, notJobs>>

Listed(c) ==
    /\ cpc[c] = "sync" /\ adding = {} /\ \A j \in Job : dropping[j] = Absent
    /\ Return(c)
    /\ onDisk' = [j \in Job |-> Absent]
    /\ UNCHANGED <<entryVars, tasks, running, runVars, adding, dropping, countVars>>

\* The caller of a request, or of a listing, goes away.
RequestDropped(c) ==
    /\ cpc[c] # "idle" /\ faults < MaxFaults
    /\ faults' = faults + 1
    /\ Return(c)
    /\ cut' = cut \cup ({cjob[c]} \cap Job)
    /\ IF cpc[c] \in {"compare", "sync", "adopt", "forget"}
       THEN onDisk' = Nothing /\ adding' = {} /\ dropping' = Nothing
       ELSE UNCHANGED listVars
    /\ UNCHANGED <<entryVars, tasks, running, runVars, requests, crashes, left>>

-----------------------------------------------------------------------------
(* The process ends and a new one loads the file: flags of runs that are no *)
(* more are cleared, in the map and in the file; jobs whose expression does *)
(* not parse are skipped.                                                   *)

Cleared(e) == IF e = Absent THEN Absent ELSE [e EXCEPT !.running = FALSE]

\* load_jobs_from_storage of what is in the file, with the uuids it gets: the map.
Loaded(f, task) ==
    [j \in Job |-> IF f[j] = Absent \/ f[j].cron \in Invalid THEN Absent
                   ELSE [cron |-> f[j].cron, paused |-> f[j].paused,
                         running |-> FALSE, task |-> task[j]]]

\* The tasks registered for the entries of a map.
TasksOf(map) == [t \in TaskId |->
    LET owner == {j \in Job : map[j] # Absent /\ map[j].task = t}
    IN IF owner = {} THEN Absent ELSE CHOOSE j \in owner : TRUE]

Uuids == {task \in [Job -> TaskId] : \A i, j \in Job : task[i] = task[j] => i = j}

\* The process may end in a write.
Writing == \/ \E r \in Run : rpc[r] \in {"marked", "persist"}
           \/ \E c \in Caller : cpc[c] \in {"stored", "persist"}

\* What a new process finds, and makes of it: the flags are written only where
\* there were any, and that may fail too.
StartWith(f, whole) ==
    /\ stored' = [j \in Job |-> stored[j] /\ whole]
    /\ \E task \in Uuids : jobs' = Loaded(f, task) /\ tasks' = TasksOf(jobs')
    /\ \/ /\ file' = [j \in Job |-> Cleared(f[j])] /\ written' = whole
          /\ UNCHANGED faults
       \/ /\ \E j \in Job : f[j] # Absent /\ f[j].running
          /\ faults < MaxFaults /\ faults' = faults + 1
          /\ (file' = f /\ written' = whole) \/ LoseFile

Restart ==
    /\ crashes < MaxCrashes
    /\ crashes' = crashes + 1
    /\ left' = {} /\ cut' = {}
    /\ StartWith(file, written) \/ (Writing /\ StartWith(Nothing, FALSE))
    /\ running' = [j \in Job |-> Absent]
    /\ rpc' = [r \in Run |-> "idle"] /\ rjob' = [r \in Run |-> Absent]
    /\ now' = [r \in Run |-> FALSE] /\ cancelled' = [r \in Run |-> FALSE]
    /\ cpc' = [c \in Caller |-> "idle"] /\ cjob' = [c \in Caller |-> Absent]
    /\ ccron' = [c \in Caller |-> Absent] /\ ctask' = [c \in Caller |-> Absent]
    /\ onDisk' = [j \in Job |-> Absent] /\ adding' = {}
    /\ dropping' = [j \in Job |-> Absent]
    /\ UNCHANGED requests

-----------------------------------------------------------------------------
\* The file may hold jobs of an earlier process, or only say that it has none.
Init ==
    /\ file \in [Job -> {Absent} \cup
                 [cron : Cron \ Invalid, paused : {FALSE}, running : {FALSE}]]
    /\ written \in BOOLEAN /\ ((\E j \in Job : file[j] # Absent) => written)
    /\ \E task \in Uuids : jobs = Loaded(file, task) /\ tasks = TasksOf(jobs)
    /\ stored = [j \in Job |-> file[j] # Absent]
    /\ running = [j \in Job |-> Absent]
    /\ rpc = [r \in Run |-> "idle"] /\ rjob = [r \in Run |-> Absent]
    /\ now = [r \in Run |-> FALSE] /\ cancelled = [r \in Run |-> FALSE]
    /\ cpc = [c \in Caller |-> "idle"] /\ cjob = [c \in Caller |-> Absent]
    /\ ccron = [c \in Caller |-> Absent] /\ ctask = [c \in Caller |-> Absent]
    /\ onDisk = [j \in Job |-> Absent] /\ adding = {}
    /\ dropping = [j \in Job |-> Absent]
    /\ left = {} /\ cut = {}
    /\ requests = 0 /\ faults = 0 /\ crashes = 0

Execution(r) == Mark(r) \/ PersistMark(r) \/ InsertToken(r) \/ Executed(r)
                \/ Unmark(r) \/ PersistEnd(r) \/ RunDropped(r)

Ask(c, j) == \/ Remove(c, j) \/ Kill(c, j)
             \/ \E p \in BOOLEAN : SetPaused(c, j, p)
             \/ \E cron \in Cron : Add(c, j, cron) \/ Update(c, j, cron)

Serve(c) == \/ Register(c) \/ Insert(c) \/ Unregister(c) \/ Replace(c)
            \/ Renew(c) \/ Swap(c) \/ CancelRun(c) \/ Clear(c) \/ Persist(c)
            \/ NotPersisted(c) \/ RequestDropped(c) \/ Compare(c) \/ Adopted(c) \/ Forgotten(c)
            \/ Listed(c) \/ \E j \in Job : Forget(c, j) \/ Adopt(c, j)

Next == \/ \E r \in Run : \/ Execution(r) \/ MarkNotPersisted(r)
                          \/ \E t \in TaskId : Fire(r, t)
                          \/ \E j \in Job : RunNow(r, j)
        \/ \E c \in Caller : \/ Serve(c) \/ List(c)
                             \/ \E j \in Job : Ask(c, j)
        \/ Restart

Spec == Init /\ [][Next]_vars

-----------------------------------------------------------------------------
\* As long as the file can be written and no caller goes away, a job marked as
\* running has a run that will unmark it: otherwise it could not be run, paused
\* or updated any more.  A run_now that is dropped leaves the mark of its job.
FlagHasRun ==
    faults = 0 => \A j \in Job \ left : Working(j) =>
        \E r \in Run : /\ rjob[r] = j
                       /\ rpc[r] \in {"marked", "token", "exec", "unmark"}

\* Every change of the map is on its way to the file: once nothing is under way
\* they differ only in jobs whose expression does not parse, and in the mark
\* that a dropped run_now has left.
MapReachesFile ==
    (/\ faults = 0
     /\ \A r \in Run : rpc[r] \notin {"marked", "persist"}
     /\ \A c \in Caller : cpc[c] \in {"idle", "register", "compare"})
    => \A j \in Job \ left :
                      \/ file[j] = ToSave(jobs[j])
                      \/ Has(j) /\ jobs[j].cron \in Invalid
                      \/ ~Has(j) /\ file[j].cron \in Invalid

\* The cron task that starts the job is there, or an update is about to give it
\* one, or a listing to take the job away.
Fires(j) ==
    \/ tasks[jobs[j].task] = j
    \/ \E c \in Caller :
          /\ cjob[c] = j
          /\ \/ cpc[c] \in {"replace", "renew", "swap"} /\ ccron[c] \notin Invalid
             \/ cpc[c] = "forget"

\* Every job in the map fires, if its expression parses and no update of it, nor
\* a listing that was to take it away, was dropped half-way.
JobFires == \A j \in Job \ cut : Has(j) /\ jobs[j].cron \notin Invalid => Fires(j)

\* A job that was added and not removed stays in the map across failed and torn
\* writes, dropped requests, listings and restarts, and no readable file is
\* without it; only a process that finds the file torn starts without the job.
NothingLost == \A j \in Job : stored[j] => Has(j) /\ (written => file[j] # Absent)

\* A restart finds every job whose add was acknowledged: false, for a write that
\* is torn leaves no file to load.
JobsSurvive == [][Restart => \A j \in Job : stored[j] => jobs'[j] # Absent]_vars

\* A job marked as running has a run, whoever goes away: false of the job of a
\* run_now that was dropped.
MarkHasRun == faults = 0 => \A j \in Job : Working(j) => \E r \in Run : rjob[r] = j

\* "Successfully killed": no run of the job goes on uncancelled.
KillCancels ==
    [][\A c \in Caller : (Clear(c) /\ Has(cjob[c])) =>
          \A r \in Run : (rjob[r] = cjob[c] /\ rpc[r] \in {"marked", "token", "exec"})
                         => cancelled[r]]_vars
=============================================================================
