-------------------------- MODULE Scheduler_proofs --------------------------
(* Type correctness, and that every job in the map can fire, listings beside *)
(* other requests included; where jobs are listed alone, that no added job   *)
(* is lost, that the running flag of a job has a run behind it, and that the *)
(* map and the file differ only in what is about to be written.  For any     *)
(* number of jobs, callers, runs and cron tasks.                             *)
EXTENDS Scheduler, TLAPS

-----------------------------------------------------------------------------
(* The inductive invariant.  The uuid of a cron task belongs to one entry of *)
(* the map, or to the request that has just registered it; whoever removes a *)
(* task holds a uuid that is of no other job.                                *)

RunInv == \A r \in Run : rpc[r] # "idle" => rjob[r] \in Job

Renewing == {"replace", "renew", "swap"}

CallInv == \A c \in Caller :
    /\ cpc[c] \notin {"idle", "compare", "sync"} => cjob[c] \in Job
    /\ cpc[c] \in {"register", "insert"} \cup Renewing => ccron[c] \in Cron
    /\ cpc[c] \in {"insert", "swap"} => ccron[c] \notin Invalid
    /\ cpc[c] \in {"unregister", "replace"} => ctask[c] \in TaskId

\* One listing at a time; it adds only what the file has.
Listers == {"compare", "sync", "adopt", "forget"}

ListInv ==
    /\ \A c, d \in Caller : cpc[c] \in Listers /\ cpc[d] \in Listers => c = d
    /\ \A c \in Caller : cpc[c] = "adopt" =>
          onDisk[cjob[c]] # Absent /\ onDisk[cjob[c]].cron \notin Invalid
    /\ \A j \in adding : onDisk[j] # Absent
    /\ adding # {} => \E c \in Caller : cpc[c] \in Listers

DistinctInv ==
    \A i, j \in Job : Has(i) /\ Has(j) /\ jobs[i].task = jobs[j].task => i = j

\* A task that was registered and is not yet in the map is its request's alone.
PrivateInv == \A c \in Caller : cpc[c] \in {"insert", "swap", "adopt"} =>
    /\ ctask[c] \in TaskId /\ tasks[ctask[c]] = cjob[c]
    /\ \A d \in Caller : ctask[d] = ctask[c] => d = c
    /\ \A j \in Job : Has(j) => jobs[j].task # ctask[c]
    /\ \A j \in Job : dropping[j] # ctask[c]

\* The task of a removed entry is of no entry; that of an entry under update,
\* or to be dropped, is of no other.
OldInv == \A c \in Caller : cpc[c] = "unregister" =>
    \A j \in Job : Has(j) => jobs[j].task # ctask[c]

ReplaceInv == \A c \in Caller : cpc[c] = "replace" =>
    \A j \in Job : Has(j) /\ jobs[j].task = ctask[c] => j = cjob[c]

DropInv == \A i, j \in Job :
    dropping[i] # Absent /\ Has(j) /\ jobs[j].task = dropping[i] => i = j

Renews(c, j) == cjob[c] = j /\ cpc[c] \in Renewing /\ ccron[c] \notin Invalid

\* Where an update is about to remove the task of an entry whose expression
\* parses, some update will give it another, if none of the job was dropped.
PendingInv == \A c \in Caller : cpc[c] = "replace" =>
    \A j \in Job \ cut : /\ Has(j) /\ jobs[j].task = ctask[c] /\ jobs[j].cron \notin Invalid
                         => \E d \in Caller : Renews(d, j)

IInv == /\ TypeOK /\ RunInv /\ CallInv /\ ListInv /\ DistinctInv /\ PrivateInv
        /\ OldInv /\ ReplaceInv /\ DropInv /\ PendingInv /\ JobFires

-----------------------------------------------------------------------------
\* What the map says of tasks and expressions.
SameJobs == \A j \in Job :
    /\ jobs'[j] # Absent <=> jobs[j] # Absent
    /\ Has(j) => jobs'[j].task = jobs[j].task /\ jobs'[j].cron = jobs[j].cron

\* The runs change neither; the rest of the invariant stays.
LEMMA RunFrame ==
  ASSUME IInv, TypeOK', RunInv', SameJobs, UNCHANGED <<tasks, callVars, cut>>
  PROVE  IInv'
<1>. USE DEF callVars, listVars
<1>1. CallInv' /\ ListInv'
  BY DEF IInv, CallInv, ListInv, Renewing, Listers
<1>2. DistinctInv' /\ OldInv' /\ ReplaceInv' /\ DropInv'
  BY DEF IInv, DistinctInv, OldInv, ReplaceInv, DropInv, SameJobs, Has
<1>3. PrivateInv'
  BY DEF IInv, PrivateInv, SameJobs, Has
<1>4. PendingInv'
  BY DEF IInv, PendingInv, SameJobs, Has, Renews
<1>5. JobFires'
  BY DEF IInv, JobFires, Fires, SameJobs, Has
<1>. QED  BY <1>1, <1>2, <1>3, <1>4, <1>5 DEF IInv

LEMMA SavedEntry ==
  ASSUME NEW e \in Entry \cup {Absent}
  PROVE  ToSave(e) \in Saved \cup {Absent}
BY DEF ToSave, Entry, Saved

LEMMA PersistTypes ==
  ASSUME TypeOK, PersistJobs
  PROVE  file' \in [Job -> Saved \cup {Absent}] /\ written' \in BOOLEAN
<1>1. \A j \in Job : ToSave(jobs[j]) \in Saved \cup {Absent}
  BY SavedEntry DEF TypeOK
<1>. QED  BY <1>1 DEF PersistJobs

LEMMA FailTypes ==
  ASSUME TypeOK, FailWrite
  PROVE  /\ file' \in [Job -> Saved \cup {Absent}] /\ written' \in BOOLEAN
         /\ faults' \in Nat
<1>1. faults' \in Nat
  BY DEF TypeOK, FailWrite
<1>2. CASE UNCHANGED fileVars
  BY <1>1, <1>2 DEF TypeOK, fileVars
<1>3. CASE LoseFile
  BY <1>1, <1>3 DEF LoseFile, Nothing
<1>. QED  BY <1>2, <1>3 DEF FailWrite

LEMMA PutTypes ==
  ASSUME TypeOK, NEW j \in Job, NEW e \in Entry, jobs' = [jobs EXCEPT ![j] = e]
  PROVE  jobs' \in [Job -> Entry \cup {Absent}]
BY DEF TypeOK

LEMMA FlagTypes ==
  ASSUME TypeOK, NEW j \in Job, Has(j), NEW b \in BOOLEAN,
         jobs' = [jobs EXCEPT ![j].running = b]
  PROVE  jobs' \in [Job -> Entry \cup {Absent}] /\ SameJobs
<1>1. jobs[j] \in Entry
  BY DEF TypeOK, Has
<1>2. [jobs[j] EXCEPT !.running = b] \in Entry
  BY <1>1 DEF Entry
<1>3. [jobs[j] EXCEPT !.running = b] # Absent
  BY <1>2, SchedulerAssumption DEF Entry
<1>4. jobs' = [jobs EXCEPT ![j] = [jobs[j] EXCEPT !.running = b]]
  OBVIOUS
<1>5. jobs' \in [Job -> Entry \cup {Absent}]
  BY <1>2, <1>4 DEF TypeOK
<1>6. /\ [jobs[j] EXCEPT !.running = b].task = jobs[j].task
      /\ [jobs[j] EXCEPT !.running = b].cron = jobs[j].cron
  BY <1>1 DEF Entry
<1>7. SameJobs
  BY <1>3, <1>4, <1>6 DEF SameJobs, Has, TypeOK
<1>. QED  BY <1>5, <1>7

LEMMA PausedTypes ==
  ASSUME TypeOK, NEW j \in Job, Has(j), NEW b \in BOOLEAN,
         jobs' = [jobs EXCEPT ![j].paused = b]
  PROVE  jobs' \in [Job -> Entry \cup {Absent}] /\ SameJobs
<1>1. jobs[j] \in Entry
  BY DEF TypeOK, Has
<1>2. [jobs[j] EXCEPT !.paused = b] \in Entry
  BY <1>1 DEF Entry
<1>3. [jobs[j] EXCEPT !.paused = b] # Absent
  BY <1>2, SchedulerAssumption DEF Entry
<1>4. jobs' = [jobs EXCEPT ![j] = [jobs[j] EXCEPT !.paused = b]]
  OBVIOUS
<1>5. jobs' \in [Job -> Entry \cup {Absent}]
  BY <1>2, <1>4 DEF TypeOK
<1>6. /\ [jobs[j] EXCEPT !.paused = b].task = jobs[j].task
      /\ [jobs[j] EXCEPT !.paused = b].cron = jobs[j].cron
  BY <1>1 DEF Entry
<1>7. SameJobs
  BY <1>3, <1>4, <1>6 DEF SameJobs, Has, TypeOK
<1>. QED  BY <1>5, <1>7

-----------------------------------------------------------------------------
(* The runs. *)

LEMMA FireKeeps ==
  ASSUME IInv, NEW r \in Run, NEW t \in TaskId, Fire(r, t)
  PROVE  IInv'
<1>. USE DEF Fire, RunTo, entryVars, fileVars, IInv
<1>1. tasks[t] \in Job
  BY DEF TypeOK
<1>2. TypeOK'
  BY <1>1 DEF TypeOK, RPC, callVars, listVars, countVars, lifeVars
<1>3. RunInv'
  BY <1>1 DEF TypeOK, RunInv
<1>4. SameJobs
  BY DEF SameJobs, Has
<1>. QED  BY <1>2, <1>3, <1>4, RunFrame DEF countVars, lifeVars

LEMMA MarkKeeps ==
  ASSUME IInv, NEW r \in Run, Mark(r)
  PROVE  IInv'
<1>. USE DEF Mark, RunTo, fileVars, IInv
<1>1. rjob[r] \in Job
  BY DEF RunInv
<1>2. jobs' \in [Job -> Entry \cup {Absent}] /\ SameJobs
  <2>1. CASE Has(rjob[r])
    BY <1>1, <2>1, FlagTypes
  <2>2. CASE ~Has(rjob[r])
    BY <2>2 DEF SameJobs, Has, TypeOK
  <2>. QED  BY <2>1, <2>2
<1>3. TypeOK'
  BY <1>2 DEF TypeOK, RPC, callVars, listVars, countVars, lifeVars
<1>4. RunInv'
  BY DEF TypeOK, RunInv
<1>. QED  BY <1>2, <1>3, <1>4, RunFrame DEF countVars, lifeVars

LEMMA UnmarkKeeps ==
  ASSUME IInv, NEW r \in Run, Unmark(r)
  PROVE  IInv'
<1>. USE DEF Unmark, RunTo, fileVars, IInv
<1>1. rjob[r] \in Job
  BY DEF RunInv
<1>2. jobs' \in [Job -> Entry \cup {Absent}] /\ SameJobs
  <2>1. CASE Has(rjob[r])
    BY <1>1, <2>1, FlagTypes
  <2>2. CASE ~Has(rjob[r])
    BY <2>2 DEF SameJobs, Has, TypeOK
  <2>. QED  BY <2>1, <2>2
<1>3. TypeOK'
  BY <1>2 DEF TypeOK, RPC, callVars, listVars, countVars, lifeVars
<1>4. RunInv'
  BY DEF TypeOK, RunInv
<1>. QED  BY <1>2, <1>3, <1>4, RunFrame DEF countVars, lifeVars

LEMMA RunNowKeeps ==
  ASSUME IInv, NEW r \in Run, NEW j \in Job, RunNow(r, j)
  PROVE  IInv'
<1>. USE DEF RunNow, RunTo, fileVars, IInv
<1>1. jobs' \in [Job -> Entry \cup {Absent}] /\ SameJobs
  BY FlagTypes
<1>2. TypeOK'
  BY <1>1 DEF TypeOK, RPC, callVars, listVars, countVars, lifeVars
<1>3. RunInv'
  BY DEF TypeOK, RunInv
<1>. QED  BY <1>1, <1>2, <1>3, RunFrame DEF countVars, lifeVars

LEMMA PersistMarkKeeps ==
  ASSUME IInv, NEW r \in Run, PersistMark(r)
  PROVE  IInv'
<1>. USE DEF PersistMark, RunTo, IInv
<1>1. file' \in [Job -> Saved \cup {Absent}] /\ written' \in BOOLEAN
  BY PersistTypes DEF fileVars, TypeOK
<1>2. TypeOK'
  BY <1>1, SchedulerAssumption DEF TypeOK, RPC, callVars, listVars, countVars, lifeVars, fileVars
<1>3. RunInv'
  BY DEF TypeOK, RunInv
<1>4. SameJobs
  BY DEF SameJobs, Has
<1>. QED  BY <1>2, <1>3, <1>4, RunFrame DEF countVars, lifeVars

LEMMA MarkNotPersistedKeeps ==
  ASSUME IInv, NEW r \in Run, MarkNotPersisted(r)
  PROVE  IInv'
<1>. USE DEF MarkNotPersisted, RunTo, Over, entryVars, IInv
<1>1. /\ rpc' \in [Run -> RPC] /\ rjob' \in [Run -> Job \cup {Absent}]
      /\ now' \in [Run -> BOOLEAN] /\ cancelled' \in [Run -> BOOLEAN]
  <2>1. CASE now[r]
    BY <2>1 DEF TypeOK, RPC
  <2>2. CASE ~now[r]
    BY <2>2 DEF TypeOK, RPC
  <2>. QED  BY <2>1, <2>2
<1>2. TypeOK'
  <2>1. file' \in [Job -> Saved \cup {Absent}] /\ written' \in BOOLEAN /\ faults' \in Nat
    BY FailTypes
  <2>. QED  BY <1>1, <2>1 DEF TypeOK, callVars, listVars, lifeVars
<1>3. RunInv'
  BY DEF TypeOK, RunInv
<1>4. SameJobs
  BY DEF SameJobs, Has
<1>. QED  BY <1>2, <1>3, <1>4, RunFrame DEF countVars, lifeVars

LEMMA InsertTokenKeeps ==
  ASSUME IInv, NEW r \in Run, InsertToken(r)
  PROVE  IInv'
<1>. USE DEF InsertToken, RunTo, entryVars, IInv
<1>2. TypeOK'
  BY SchedulerAssumption DEF TypeOK, RPC, callVars, listVars, countVars, lifeVars, fileVars
<1>3. RunInv'
  BY DEF TypeOK, RunInv
<1>4. SameJobs
  BY DEF SameJobs, Has
<1>. QED  BY <1>2, <1>3, <1>4, RunFrame DEF countVars, lifeVars

LEMMA ExecutedKeeps ==
  ASSUME IInv, NEW r \in Run, Executed(r)
  PROVE  IInv'
<1>. USE DEF Executed, RunTo, entryVars, IInv
<1>2. TypeOK'
  BY SchedulerAssumption DEF TypeOK, RPC, callVars, listVars, countVars, lifeVars, fileVars
<1>3. RunInv'
  BY DEF TypeOK, RunInv
<1>4. SameJobs
  BY DEF SameJobs, Has
<1>. QED  BY <1>2, <1>3, <1>4, RunFrame DEF countVars, lifeVars

LEMMA PersistEndKeeps ==
  ASSUME IInv, NEW r \in Run, PersistEnd(r)
  PROVE  IInv'
<1>. USE DEF PersistEnd, RunTo, Over, IInv
<1>1. file' \in [Job -> Saved \cup {Absent}] /\ written' \in BOOLEAN /\ faults' \in Nat
  BY PersistTypes, FailTypes DEF TypeOK
<1>2. TypeOK'
  BY <1>1, SchedulerAssumption DEF TypeOK, RPC, callVars, listVars, lifeVars
<1>3. RunInv'
  BY DEF TypeOK, RunInv
<1>4. SameJobs
  BY DEF SameJobs, Has
<1>. QED  BY <1>2, <1>3, <1>4, RunFrame DEF countVars, lifeVars

LEMMA RunDroppedKeeps ==
  ASSUME IInv, NEW r \in Run, RunDropped(r)
  PROVE  IInv'
<1>. USE DEF RunDropped, RunTo, Over, entryVars, IInv
<1>1. rjob[r] \in Job
  BY DEF RunInv
<1>2. TypeOK'
  BY <1>1, SchedulerAssumption DEF TypeOK, RPC, callVars, listVars, fileVars
<1>3. RunInv'
  BY DEF TypeOK, RunInv
<1>4. SameJobs
  BY DEF SameJobs, Has
<1>. QED  BY <1>2, <1>3, <1>4, RunFrame DEF countVars, lifeVars

-----------------------------------------------------------------------------
(* The requests. *)

LEMMA AddKeeps ==
  ASSUME IInv, NEW c \in Caller, NEW j \in Job, NEW cron \in Cron, Add(c, j, cron)
  PROVE  IInv'
<1>. USE SchedulerAssumption DEF Add, Request, CallTo, Has, entryVars, fileVars, runVars, listVars, countVars, lifeVars, notJobs, IInv
<1>1. TypeOK'
  BY DEF TypeOK, CPC, Entry, Saved, CallInv, Renewing
<1>2. RunInv'
  BY DEF RunInv
<1>3. CallInv'
  BY DEF TypeOK, CallInv, Renewing, Entry
<1>4. ListInv'
  BY DEF TypeOK, ListInv, Listers
<1>5. DistinctInv'
  BY DEF TypeOK, DistinctInv, PrivateInv
<1>6. PrivateInv'
  BY DEF TypeOK, PrivateInv, CallInv, Renewing, OldInv, ReplaceInv
<1>7. OldInv'
  BY DEF TypeOK, OldInv, PrivateInv, DistinctInv
<1>8. ReplaceInv'
  BY DEF TypeOK, ReplaceInv, PrivateInv, DistinctInv
<1>9. DropInv'
  BY DEF TypeOK, DropInv, PrivateInv
<1>10. PendingInv'
  BY DEF TypeOK, PendingInv, Renews, Renewing, PrivateInv, ReplaceInv
<1>11. JobFires'
  BY DEF TypeOK, JobFires, Fires, Renewing
<1>. QED  BY <1>1, <1>2, <1>3, <1>4, <1>5, <1>6, <1>7, <1>8, <1>9, <1>10, <1>11

LEMMA RegisterKeeps ==
  ASSUME IInv, NEW c \in Caller, Register(c)
  PROVE  IInv'
<1>. USE SchedulerAssumption DEF Register, NewTask, Return, Fresh, CallTo, Has, entryVars, fileVars, runVars, listVars, countVars, lifeVars, notJobs, IInv
<1>1. TypeOK'
  <2>1. CASE ccron[c] \in Invalid
    BY <2>1 DEF TypeOK, CPC
  <2>2. CASE ccron[c] \notin Invalid
    <3>1. PICK t \in TaskId : /\ tasks' = [tasks EXCEPT ![t] = cjob[c]]
                              /\ ctask' = [ctask EXCEPT ![c] = t]
      BY <2>2
    <3>2. cjob[c] \in Job
      BY DEF CallInv
    <3>3. UNCHANGED <<cjob, ccron>> /\ cpc' = [cpc EXCEPT ![c] = "insert"]
      BY <2>2
    <3>. QED  BY <3>1, <3>2, <3>3 DEF TypeOK, CPC
  <2>. QED  BY <2>1, <2>2
<1>2. RunInv'
  BY DEF RunInv
<1>3. CallInv'
  BY DEF TypeOK, CallInv, Renewing, Entry
<1>4. ListInv'
  BY DEF TypeOK, ListInv, Listers
<1>5. DistinctInv'
  BY DEF TypeOK, DistinctInv, PrivateInv
<1>6. PrivateInv'
  BY DEF TypeOK, PrivateInv, CallInv, Renewing, OldInv, ReplaceInv
<1>7. OldInv'
  BY DEF TypeOK, OldInv, PrivateInv, DistinctInv
<1>8. ReplaceInv'
  BY DEF TypeOK, ReplaceInv, PrivateInv, DistinctInv
<1>9. DropInv'
  BY DEF TypeOK, DropInv, PrivateInv
<1>10. PendingInv'
  BY DEF TypeOK, PendingInv, Renews, Renewing, PrivateInv, ReplaceInv
<1>11. JobFires'
  <2>. SUFFICES ASSUME NEW i \in Job \ cut, jobs'[i] # Absent, jobs'[i].cron \notin Invalid
       PROVE Fires(i)'
    BY DEF JobFires
  <2>1. jobs[i] \in Entry /\ jobs[i].task \in TaskId /\ jobs[i].cron \notin Invalid /\ Fires(i)
    BY DEF TypeOK, Entry, JobFires
  <2>2. CASE tasks[jobs[i].task] = i
    <3>1. tasks'[jobs[i].task] = i
      BY <2>1, <2>2 DEF TypeOK
    <3>. QED  BY <3>1 DEF Fires
  <2>3. CASE tasks[jobs[i].task] # i
    <3>1. PICK d \in Caller : /\ cjob[d] = i
                              /\ \/ cpc[d] \in Renewing /\ ccron[d] \notin Invalid
                                 \/ cpc[d] = "forget"
      BY <2>1, <2>3 DEF Fires, Renewing
    <3>2. d # c
      BY <3>1 DEF Renewing
    <3>3. cjob'[d] = i /\ cpc'[d] = cpc[d] /\ ccron'[d] = ccron[d]
      BY <3>1, <3>2 DEF TypeOK
    <3>. QED  BY <3>1, <3>3 DEF Fires, Renewing
  <2>. QED  BY <2>2, <2>3
<1>. QED  BY <1>1, <1>2, <1>3, <1>4, <1>5, <1>6, <1>7, <1>8, <1>9, <1>10, <1>11

LEMMA InsertKeeps ==
  ASSUME IInv, NEW c \in Caller, Insert(c)
  PROVE  IInv'
<1>. USE SchedulerAssumption DEF Insert, CallTo, Has, entryVars, fileVars, runVars, listVars, countVars, lifeVars, notJobs, IInv
<1>. DEFINE e == [cron |-> ccron[c], paused |-> FALSE, running |-> FALSE, task |-> ctask[c]]
<1>0. cjob[c] \in Job /\ ctask[c] \in TaskId /\ e \in Entry /\ e # Absent
  <2>1. cjob[c] \in Job /\ ctask[c] \in TaskId /\ ccron[c] \in Cron
    BY DEF CallInv, PrivateInv, Renewing
  <2>2. e \in Entry
    BY <2>1 DEF Entry
  <2>3. e # Absent
    BY <2>2 DEF Entry
  <2>. QED  BY <2>1, <2>2, <2>3
<1>1. TypeOK'
  <2>1. jobs' = [jobs EXCEPT ![cjob[c]] = e]
    OBVIOUS
  <2>2. jobs' \in [Job -> Entry \cup {Absent}]
    <3>. HIDE DEF e
    <3>. QED  BY <2>1, <1>0, PutTypes
  <2>. QED  BY <2>2 DEF TypeOK, CPC
<1>2. RunInv'
  BY DEF RunInv
<1>3. CallInv'
  BY DEF TypeOK, CallInv, Renewing, Entry
<1>4. ListInv'
  BY DEF TypeOK, ListInv, Listers
<1>5. DistinctInv'
  BY DEF TypeOK, DistinctInv, PrivateInv
<1>6. PrivateInv'
  BY DEF TypeOK, PrivateInv, CallInv, Renewing, OldInv, ReplaceInv
<1>7. OldInv'
  BY DEF TypeOK, OldInv, PrivateInv, DistinctInv
<1>8. ReplaceInv'
  BY DEF TypeOK, ReplaceInv, PrivateInv, DistinctInv
<1>9. DropInv'
  BY DEF TypeOK, DropInv, PrivateInv
<1>10. PendingInv'
  BY DEF TypeOK, PendingInv, Renews, Renewing, PrivateInv, ReplaceInv
<1>11. JobFires'
  <2>. SUFFICES ASSUME NEW i \in Job \ cut, jobs'[i] # Absent, jobs'[i].cron \notin Invalid
       PROVE Fires(i)'
    BY DEF JobFires
  <2>1. CASE i = cjob[c]
    <3>1. jobs'[i].task = ctask[c]
      BY <2>1, <1>0 DEF TypeOK, Entry
    <3>. QED  BY <2>1, <3>1 DEF Fires, PrivateInv
  <2>2. CASE i # cjob[c]
    <3>1. jobs'[i] = jobs[i]
      BY <2>2 DEF TypeOK
    <3>2. Fires(i)
      BY <3>1 DEF JobFires
    <3>3. ASSUME NEW d \in Caller, cjob[d] = i
          PROVE  cjob'[d] = i /\ cpc'[d] = cpc[d] /\ ccron'[d] = ccron[d]
      BY <2>2, <3>3 DEF TypeOK
    <3>. QED  BY <3>1, <3>2, <3>3 DEF Fires, Renewing
  <2>. QED  BY <2>1, <2>2
<1>. QED  BY <1>1, <1>2, <1>3, <1>4, <1>5, <1>6, <1>7, <1>8, <1>9, <1>10, <1>11

LEMMA RemoveKeeps ==
  ASSUME IInv, NEW c \in Caller, NEW j \in Job, Remove(c, j)
  PROVE  IInv'
<1>. USE SchedulerAssumption DEF Remove, Request, CallTo, Has, entryVars, fileVars, runVars, listVars, countVars, lifeVars, notJobs, IInv
<1>1. TypeOK'
  BY DEF TypeOK, CPC, Entry, Saved, CallInv, Renewing
<1>2. RunInv'
  BY DEF RunInv
<1>3. CallInv'
  BY DEF TypeOK, CallInv, Renewing, Entry
<1>4. ListInv'
  BY DEF TypeOK, ListInv, Listers
<1>5. DistinctInv'
  BY DEF TypeOK, DistinctInv, PrivateInv
<1>6. PrivateInv'
  BY DEF TypeOK, PrivateInv, CallInv, Renewing, OldInv, ReplaceInv
<1>7. OldInv'
  BY DEF TypeOK, OldInv, PrivateInv, DistinctInv
<1>8. ReplaceInv'
  BY DEF TypeOK, ReplaceInv, PrivateInv, DistinctInv
<1>9. DropInv'
  BY DEF TypeOK, DropInv, PrivateInv
<1>10. PendingInv'
  BY DEF TypeOK, PendingInv, Renews, Renewing, PrivateInv, ReplaceInv
<1>11. JobFires'
  BY DEF TypeOK, JobFires, Fires, Renewing
<1>. QED  BY <1>1, <1>2, <1>3, <1>4, <1>5, <1>6, <1>7, <1>8, <1>9, <1>10, <1>11

LEMMA UnregisterKeeps ==
  ASSUME IInv, NEW c \in Caller, Unregister(c)
  PROVE  IInv'
<1>. USE SchedulerAssumption DEF Unregister, DropTask, CallTo, Has, entryVars, fileVars, runVars, listVars, countVars, lifeVars, notJobs, IInv
<1>1. TypeOK'
  BY DEF TypeOK, CPC, Entry, Saved, CallInv, Renewing
<1>2. RunInv'
  BY DEF RunInv
<1>3. CallInv'
  BY DEF TypeOK, CallInv, Renewing, Entry
<1>4. ListInv'
  BY DEF TypeOK, ListInv, Listers
<1>5. DistinctInv'
  BY DEF TypeOK, DistinctInv, PrivateInv
<1>6. PrivateInv'
  BY DEF TypeOK, PrivateInv, CallInv, Renewing, OldInv, ReplaceInv
<1>7. OldInv'
  BY DEF TypeOK, OldInv, PrivateInv, DistinctInv
<1>8. ReplaceInv'
  BY DEF TypeOK, ReplaceInv, PrivateInv, DistinctInv
<1>9. DropInv'
  BY DEF TypeOK, DropInv, PrivateInv
<1>10. PendingInv'
  BY DEF TypeOK, PendingInv, Renews, Renewing, PrivateInv, ReplaceInv
<1>11. JobFires'
  <2>. SUFFICES ASSUME NEW i \in Job \ cut, jobs'[i] # Absent, jobs'[i].cron \notin Invalid
       PROVE Fires(i)'
    BY DEF JobFires
  <2>1. jobs[i] \in Entry /\ jobs[i].task \in TaskId /\ jobs[i].cron \notin Invalid /\ Fires(i)
    BY DEF TypeOK, Entry, JobFires
  <2>2. CASE tasks[jobs[i].task] = i
    <3>1. tasks'[jobs[i].task] = i
      BY <2>1, <2>2 DEF TypeOK, OldInv
    <3>. QED  BY <3>1 DEF Fires
  <2>3. CASE tasks[jobs[i].task] # i
    <3>1. PICK d \in Caller : /\ cjob[d] = i
                              /\ \/ cpc[d] \in Renewing /\ ccron[d] \notin Invalid
                                 \/ cpc[d] = "forget"
      BY <2>1, <2>3 DEF Fires, Renewing
    <3>2. d # c
      BY <3>1 DEF Renewing
    <3>3. cjob'[d] = i /\ cpc'[d] = cpc[d] /\ ccron'[d] = ccron[d]
      BY <3>1, <3>2 DEF TypeOK
    <3>. QED  BY <3>1, <3>3 DEF Fires, Renewing
  <2>. QED  BY <2>2, <2>3
<1>. QED  BY <1>1, <1>2, <1>3, <1>4, <1>5, <1>6, <1>7, <1>8, <1>9, <1>10, <1>11

LEMMA SetPausedKeeps ==
  ASSUME IInv, NEW c \in Caller, NEW j \in Job, NEW p \in BOOLEAN, SetPaused(c, j, p)
  PROVE  IInv'
<1>. USE SchedulerAssumption DEF SetPaused, Request, CallTo, Has, entryVars, fileVars, runVars, listVars, countVars, lifeVars, notJobs, IInv
<1>1. TypeOK'
  BY DEF TypeOK, CPC, Entry, Saved, CallInv, Renewing
<1>2. RunInv'
  BY DEF RunInv
<1>3. CallInv'
  BY DEF TypeOK, CallInv, Renewing, Entry
<1>4. ListInv'
  BY DEF TypeOK, ListInv, Listers
<1>5. DistinctInv'
  BY DEF TypeOK, DistinctInv, PrivateInv
<1>6. PrivateInv'
  BY DEF TypeOK, PrivateInv, CallInv, Renewing, OldInv, ReplaceInv
<1>7. OldInv'
  BY DEF TypeOK, OldInv, PrivateInv, DistinctInv
<1>8. ReplaceInv'
  BY DEF TypeOK, ReplaceInv, PrivateInv, DistinctInv
<1>9. DropInv'
  BY DEF TypeOK, DropInv, PrivateInv
<1>10. PendingInv'
  BY DEF TypeOK, PendingInv, Renews, Renewing, PrivateInv, ReplaceInv
<1>11. JobFires'
  BY DEF TypeOK, JobFires, Fires, Renewing
<1>. QED  BY <1>1, <1>2, <1>3, <1>4, <1>5, <1>6, <1>7, <1>8, <1>9, <1>10, <1>11

LEMMA UpdateKeeps ==
  ASSUME IInv, NEW c \in Caller, NEW j \in Job, NEW cron \in Cron, Update(c, j, cron)
  PROVE  IInv'
<1>. USE SchedulerAssumption DEF Update, Request, CallTo, Has, entryVars, fileVars, runVars, listVars, countVars, lifeVars, notJobs, IInv
<1>1. TypeOK'
  BY DEF TypeOK, CPC, Entry, Saved, CallInv, Renewing
<1>2. RunInv'
  BY DEF RunInv
<1>3. CallInv'
  BY DEF TypeOK, CallInv, Renewing, Entry
<1>4. ListInv'
  BY DEF TypeOK, ListInv, Listers
<1>5. DistinctInv'
  BY DEF TypeOK, DistinctInv, PrivateInv
<1>6. PrivateInv'
  BY DEF TypeOK, PrivateInv, CallInv, Renewing, OldInv, ReplaceInv
<1>7. OldInv'
  BY DEF TypeOK, OldInv, PrivateInv, DistinctInv
<1>8. ReplaceInv'
  BY DEF TypeOK, ReplaceInv, PrivateInv, DistinctInv
<1>9. DropInv'
  BY DEF TypeOK, DropInv, PrivateInv
<1>10. PendingInv'
  <2>. SUFFICES ASSUME NEW d \in Caller, cpc'[d] = "replace", NEW i \in Job \ cut,
                       jobs'[i] # Absent, jobs'[i].task = ctask'[d], jobs'[i].cron \notin Invalid
       PROVE \E k \in Caller : Renews(k, i)'
    BY DEF PendingInv
  <2>1. jobs[i] # Absent /\ jobs'[i].task = jobs[i].task
    BY DEF TypeOK, Entry
  <2>2. jobs[i] \in Entry
    BY <2>1 DEF TypeOK
  <2>3. CASE i = j
    <3>1. cron \notin Invalid
      BY <2>2, <2>3 DEF TypeOK, Entry
    <3>2. cjob'[c] = i /\ cpc'[c] = "replace" /\ ccron'[c] = cron
      BY <2>3 DEF TypeOK
    <3>3. Renews(c, i)'
      BY <3>1, <3>2 DEF Renews, Renewing
    <3>. QED  BY <3>3
  <2>4. CASE i # j
    <3>1. jobs'[i] = jobs[i]
      BY <2>4 DEF TypeOK
    <3>2. d # c
      BY <3>1, <2>1, <2>4 DEF TypeOK, DistinctInv
    <3>3. cpc[d] = "replace" /\ ctask'[d] = ctask[d]
      BY <3>2 DEF TypeOK
    <3>4. PICK k \in Caller : Renews(k, i)
      BY <3>1, <3>3 DEF PendingInv
    <3>5. k # c
      BY <3>4 DEF Renews, Renewing
    <3>6. Renews(k, i)'
      BY <3>4, <3>5 DEF Renews, TypeOK
    <3>. QED  BY <3>6
  <2>. QED  BY <2>3, <2>4
<1>11. JobFires'
  BY DEF TypeOK, JobFires, Fires, Renewing
<1>. QED  BY <1>1, <1>2, <1>3, <1>4, <1>5, <1>6, <1>7, <1>8, <1>9, <1>10, <1>11

LEMMA ReplaceKeeps ==
  ASSUME IInv, NEW c \in Caller, Replace(c)
  PROVE  IInv'
<1>. USE SchedulerAssumption DEF Replace, DropTask, CallTo, Has, entryVars, fileVars, runVars, listVars, countVars, lifeVars, notJobs, IInv
<1>1. TypeOK'
  BY DEF TypeOK, CPC, Entry, Saved, CallInv, Renewing
<1>2. RunInv'
  BY DEF RunInv
<1>3. CallInv'
  BY DEF TypeOK, CallInv, Renewing, Entry
<1>4. ListInv'
  BY DEF TypeOK, ListInv, Listers
<1>5. DistinctInv'
  BY DEF TypeOK, DistinctInv, PrivateInv
<1>6. PrivateInv'
  BY DEF TypeOK, PrivateInv, CallInv, Renewing, OldInv, ReplaceInv
<1>7. OldInv'
  BY DEF TypeOK, OldInv, PrivateInv, DistinctInv
<1>8. ReplaceInv'
  BY DEF TypeOK, ReplaceInv, PrivateInv, DistinctInv
<1>9. DropInv'
  BY DEF TypeOK, DropInv, PrivateInv
<1>10. PendingInv'
  BY DEF TypeOK, PendingInv, Renews, Renewing, PrivateInv, ReplaceInv
<1>11. JobFires'
  <2>. SUFFICES ASSUME NEW i \in Job \ cut, jobs'[i] # Absent, jobs'[i].cron \notin Invalid
       PROVE Fires(i)'
    BY DEF JobFires
  <2>1. jobs[i] \in Entry /\ jobs[i].task \in TaskId /\ jobs[i].cron \notin Invalid /\ Fires(i)
    BY DEF TypeOK, Entry, JobFires
  <2>2. ASSUME NEW d \in Caller, cjob[d] = i,
               \/ cpc[d] \in Renewing /\ ccron[d] \notin Invalid
               \/ cpc[d] = "forget"
        PROVE  Fires(i)'
    <3>1. cjob'[d] = i /\ ccron'[d] = ccron[d]
      BY <2>2
    <3>2. cpc'[d] = cpc[d] \/ (cpc[d] = "replace" /\ cpc'[d] = "renew")
      BY DEF TypeOK
    <3>. QED  BY <2>2, <3>1, <3>2 DEF Fires, Renewing
  <2>3. CASE jobs[i].task = ctask[c]
    <3>1. PICK d \in Caller : Renews(d, i)
      BY <2>1, <2>3 DEF PendingInv
    <3>. QED  BY <3>1, <2>2 DEF Renews
  <2>4. CASE jobs[i].task # ctask[c] /\ tasks[jobs[i].task] = i
    <3>1. tasks'[jobs[i].task] = i
      BY <2>1, <2>4 DEF TypeOK
    <3>. QED  BY <3>1 DEF Fires
  <2>5. CASE tasks[jobs[i].task] # i
    BY <2>1, <2>5, <2>2 DEF Fires, Renewing
  <2>. QED  BY <2>3, <2>4, <2>5
<1>. QED  BY <1>1, <1>2, <1>3, <1>4, <1>5, <1>6, <1>7, <1>8, <1>9, <1>10, <1>11

LEMMA RenewKeeps ==
  ASSUME IInv, NEW c \in Caller, Renew(c)
  PROVE  IInv'
<1>. USE SchedulerAssumption DEF Renew, NewTask, Return, Fresh, CallTo, Has, entryVars, fileVars, runVars, listVars, countVars, lifeVars, notJobs, IInv
<1>1. TypeOK'
  <2>1. CASE ccron[c] \in Invalid
    BY <2>1 DEF TypeOK, CPC
  <2>2. CASE ccron[c] \notin Invalid
    <3>1. PICK t \in TaskId : /\ tasks' = [tasks EXCEPT ![t] = cjob[c]]
                              /\ ctask' = [ctask EXCEPT ![c] = t]
      BY <2>2
    <3>2. cjob[c] \in Job
      BY DEF CallInv
    <3>3. UNCHANGED <<cjob, ccron>> /\ cpc' = [cpc EXCEPT ![c] = "swap"]
      BY <2>2
    <3>. QED  BY <3>1, <3>2, <3>3 DEF TypeOK, CPC
  <2>. QED  BY <2>1, <2>2
<1>2. RunInv'
  BY DEF RunInv
<1>3. CallInv'
  BY DEF TypeOK, CallInv, Renewing, Entry
<1>4. ListInv'
  BY DEF TypeOK, ListInv, Listers
<1>5. DistinctInv'
  BY DEF TypeOK, DistinctInv, PrivateInv
<1>6. PrivateInv'
  BY DEF TypeOK, PrivateInv, CallInv, Renewing, OldInv, ReplaceInv
<1>7. OldInv'
  BY DEF TypeOK, OldInv, PrivateInv, DistinctInv
<1>8. ReplaceInv'
  BY DEF TypeOK, ReplaceInv, PrivateInv, DistinctInv
<1>9. DropInv'
  BY DEF TypeOK, DropInv, PrivateInv
<1>10. PendingInv'
  BY DEF TypeOK, PendingInv, Renews, Renewing, PrivateInv, ReplaceInv
<1>11. JobFires'
  <2>. SUFFICES ASSUME NEW i \in Job \ cut, jobs'[i] # Absent, jobs'[i].cron \notin Invalid
       PROVE Fires(i)'
    BY DEF JobFires
  <2>1. jobs[i] \in Entry /\ jobs[i].task \in TaskId /\ jobs[i].cron \notin Invalid /\ Fires(i)
    BY DEF TypeOK, Entry, JobFires
  <2>2. CASE tasks[jobs[i].task] = i
    <3>1. tasks'[jobs[i].task] = i
      BY <2>1, <2>2 DEF TypeOK
    <3>. QED  BY <3>1 DEF Fires
  <2>3. CASE tasks[jobs[i].task] # i
    <3>1. PICK d \in Caller : /\ cjob[d] = i
                              /\ \/ cpc[d] \in Renewing /\ ccron[d] \notin Invalid
                                 \/ cpc[d] = "forget"
      BY <2>1, <2>3 DEF Fires, Renewing
    <3>2. CASE ccron[c] \in Invalid
      <4>1. d # c
        BY <3>1, <3>2 DEF Renewing
      <4>2. cjob'[d] = i /\ cpc'[d] = cpc[d] /\ ccron'[d] = ccron[d]
        BY <3>1, <4>1 DEF TypeOK
      <4>. QED  BY <3>1, <4>2 DEF Fires, Renewing
    <3>3. CASE ccron[c] \notin Invalid
      <4>1. cjob'[d] = i /\ ccron'[d] = ccron[d]
        BY <3>1, <3>3
      <4>2. cpc'[d] = cpc[d] \/ (d = c /\ cpc'[d] = "swap")
        BY <3>3 DEF TypeOK
      <4>3. (cpc'[d] \in Renewing /\ ccron'[d] \notin Invalid) \/ cpc'[d] = "forget"
        BY <3>1, <3>3, <4>1, <4>2 DEF Renewing
      <4>. QED  BY <4>1, <4>3 DEF Fires, Renewing
    <3>. QED  BY <3>2, <3>3
  <2>. QED  BY <2>2, <2>3
<1>. QED  BY <1>1, <1>2, <1>3, <1>4, <1>5, <1>6, <1>7, <1>8, <1>9, <1>10, <1>11

LEMMA SwapKeeps ==
  ASSUME IInv, NEW c \in Caller, Swap(c)
  PROVE  IInv'
<1>. USE SchedulerAssumption DEF Swap, CallTo, Has, entryVars, fileVars, runVars, listVars, countVars, lifeVars, notJobs, IInv
<1>0. cjob[c] \in Job /\ ctask[c] \in TaskId
  BY DEF CallInv, PrivateInv
<1>1. TypeOK'
  <2>1. jobs' \in [Job -> Entry \cup {Absent}]
    <3>1. CASE jobs[cjob[c]] # Absent
      <4>1. jobs[cjob[c]] \in Entry
        BY <1>0, <3>1 DEF TypeOK
      <4>2. [jobs[cjob[c]] EXCEPT !.task = ctask[c]] \in Entry
        BY <1>0, <4>1 DEF Entry
      <4>3. jobs' = [jobs EXCEPT ![cjob[c]] = [jobs[cjob[c]] EXCEPT !.task = ctask[c]]]
        BY <3>1
      <4>. QED  BY <1>0, <4>2, <4>3, PutTypes
    <3>2. CASE jobs[cjob[c]] = Absent
      BY <3>2 DEF TypeOK
    <3>. QED  BY <3>1, <3>2
  <2>. QED  BY <2>1 DEF TypeOK, CPC
<1>2. RunInv'
  BY DEF RunInv
<1>3. CallInv'
  BY DEF TypeOK, CallInv, Renewing, Entry
<1>4. ListInv'
  BY DEF TypeOK, ListInv, Listers
<1>5. DistinctInv'
  BY DEF TypeOK, DistinctInv, PrivateInv
<1>6. PrivateInv'
  BY DEF TypeOK, PrivateInv, CallInv, Renewing, OldInv, ReplaceInv
<1>7. OldInv'
  BY DEF TypeOK, OldInv, PrivateInv, DistinctInv
<1>8. ReplaceInv'
  BY DEF TypeOK, ReplaceInv, PrivateInv, DistinctInv
<1>9. DropInv'
  BY DEF TypeOK, DropInv, PrivateInv
<1>10. PendingInv'
  BY DEF TypeOK, PendingInv, Renews, Renewing, PrivateInv, ReplaceInv
<1>11. JobFires'
  <2>. SUFFICES ASSUME NEW i \in Job \ cut, jobs'[i] # Absent, jobs'[i].cron \notin Invalid
       PROVE Fires(i)'
    BY DEF JobFires
  <2>1. CASE i = cjob[c]
    <3>1. jobs'[i].task = ctask[c]
      BY <2>1, <1>0 DEF TypeOK, Entry
    <3>. QED  BY <2>1, <3>1 DEF Fires, PrivateInv
  <2>2. CASE i # cjob[c]
    <3>1. jobs'[i] = jobs[i]
      BY <2>2 DEF TypeOK
    <3>2. Fires(i)
      BY <3>1 DEF JobFires
    <3>3. ASSUME NEW d \in Caller, cjob[d] = i
          PROVE  cjob'[d] = i /\ cpc'[d] = cpc[d] /\ ccron'[d] = ccron[d]
      BY <2>2, <3>3 DEF TypeOK
    <3>. QED  BY <3>1, <3>2, <3>3 DEF Fires, Renewing
  <2>. QED  BY <2>1, <2>2
<1>. QED  BY <1>1, <1>2, <1>3, <1>4, <1>5, <1>6, <1>7, <1>8, <1>9, <1>10, <1>11

LEMMA KillKeeps ==
  ASSUME IInv, NEW c \in Caller, NEW j \in Job, Kill(c, j)
  PROVE  IInv'
<1>. USE SchedulerAssumption DEF Kill, Request, Working, CallTo, Has, entryVars, fileVars, runVars, listVars, countVars, lifeVars, notJobs, IInv
<1>1. TypeOK'
  BY DEF TypeOK, CPC, Entry, Saved, CallInv, Renewing
<1>2. RunInv'
  BY DEF RunInv
<1>3. CallInv'
  BY DEF TypeOK, CallInv, Renewing, Entry
<1>4. ListInv'
  BY DEF TypeOK, ListInv, Listers
<1>5. DistinctInv'
  BY DEF TypeOK, DistinctInv, PrivateInv
<1>6. PrivateInv'
  BY DEF TypeOK, PrivateInv, CallInv, Renewing, OldInv, ReplaceInv
<1>7. OldInv'
  BY DEF TypeOK, OldInv, PrivateInv, DistinctInv
<1>8. ReplaceInv'
  BY DEF TypeOK, ReplaceInv, PrivateInv, DistinctInv
<1>9. DropInv'
  BY DEF TypeOK, DropInv, PrivateInv
<1>10. PendingInv'
  BY DEF TypeOK, PendingInv, Renews, Renewing, PrivateInv, ReplaceInv
<1>11. JobFires'
  BY DEF TypeOK, JobFires, Fires, Renewing
<1>. QED  BY <1>1, <1>2, <1>3, <1>4, <1>5, <1>6, <1>7, <1>8, <1>9, <1>10, <1>11

LEMMA CancelRunKeeps ==
  ASSUME IInv, NEW c \in Caller, CancelRun(c)
  PROVE  IInv'
<1>. USE SchedulerAssumption DEF CancelRun, CallTo, Has, entryVars, fileVars, runVars, listVars, countVars, lifeVars, notJobs, IInv
<1>1. TypeOK'
  BY DEF TypeOK, CPC, Entry, Saved, CallInv, Renewing
<1>2. RunInv'
  BY DEF RunInv
<1>3. CallInv'
  BY DEF TypeOK, CallInv, Renewing, Entry
<1>4. ListInv'
  BY DEF TypeOK, ListInv, Listers
<1>5. DistinctInv'
  BY DEF TypeOK, DistinctInv, PrivateInv
<1>6. PrivateInv'
  BY DEF TypeOK, PrivateInv, CallInv, Renewing, OldInv, ReplaceInv
<1>7. OldInv'
  BY DEF TypeOK, OldInv, PrivateInv, DistinctInv
<1>8. ReplaceInv'
  BY DEF TypeOK, ReplaceInv, PrivateInv, DistinctInv
<1>9. DropInv'
  BY DEF TypeOK, DropInv, PrivateInv
<1>10. PendingInv'
  BY DEF TypeOK, PendingInv, Renews, Renewing, PrivateInv, ReplaceInv
<1>11. JobFires'
  BY DEF TypeOK, JobFires, Fires, Renewing
<1>. QED  BY <1>1, <1>2, <1>3, <1>4, <1>5, <1>6, <1>7, <1>8, <1>9, <1>10, <1>11

LEMMA ClearKeeps ==
  ASSUME IInv, NEW c \in Caller, Clear(c)
  PROVE  IInv'
<1>. USE SchedulerAssumption DEF Clear, Return, CallTo, Has, entryVars, fileVars, runVars, listVars, countVars, lifeVars, notJobs, IInv
<1>0. cjob[c] \in Job
  BY DEF CallInv
<1>01. jobs' \in [Job -> Entry \cup {Absent}] /\ SameJobs
  <2>1. CASE Has(cjob[c])
    BY <1>0, <2>1, FlagTypes
  <2>2. CASE ~Has(cjob[c])
    BY <2>2 DEF SameJobs, TypeOK
  <2>. QED  BY <2>1, <2>2
<1>02. ASSUME NEW d \in Caller, d # c
      PROVE  cpc'[d] = cpc[d] /\ cjob'[d] = cjob[d] /\ ccron'[d] = ccron[d] /\ ctask'[d] = ctask[d]
  BY <1>02 DEF TypeOK
<1>03. cpc'[c] \in {"persist", "idle"} /\ (ctask'[c] = ctask[c] \/ ctask'[c] = Absent)
  BY DEF TypeOK
<1>04. UNCHANGED <<tasks, dropping>>
  OBVIOUS
<1>1. TypeOK'
  BY <1>01 DEF TypeOK, CPC
<1>2. RunInv'
  BY DEF RunInv
<1>3. CallInv'
  BY DEF TypeOK, CallInv, Renewing, Entry
<1>4. ListInv'
  BY DEF TypeOK, ListInv, Listers
<1>5. DistinctInv'
  <2>. HIDE DEF Clear
  <2>. QED  BY <1>01, <1>02, <1>03, <1>04 DEF DistinctInv, SameJobs
<1>6. PrivateInv'
  <2>. HIDE DEF Clear
  <2>. QED  BY <1>01, <1>02, <1>03, <1>04 DEF PrivateInv, TypeOK, SameJobs
<1>7. OldInv'
  <2>. HIDE DEF Clear
  <2>. QED  BY <1>01, <1>02, <1>03, <1>04 DEF OldInv, SameJobs
<1>8. ReplaceInv'
  <2>. HIDE DEF Clear
  <2>. QED  BY <1>01, <1>02, <1>03, <1>04 DEF ReplaceInv, SameJobs
<1>9. DropInv'
  <2>. HIDE DEF Clear
  <2>. QED  BY <1>01, <1>02, <1>03, <1>04 DEF DropInv, SameJobs
<1>10. PendingInv'
  <2>. SUFFICES ASSUME NEW d \in Caller, cpc'[d] = "replace", NEW j \in Job \ cut,
                       jobs'[j] # Absent, jobs'[j].task = ctask'[d], jobs'[j].cron \notin Invalid
       PROVE \E k \in Caller : Renews(k, j)'
    BY DEF PendingInv
  <2>1. d # c
    BY <1>03
  <2>2. PICK k \in Caller : Renews(k, j)
    BY <2>1, <1>01, <1>02 DEF PendingInv, SameJobs
  <2>3. k # c
    BY <2>2 DEF Renews, Renewing
  <2>. QED  BY <2>2, <2>3, <1>02 DEF Renews
<1>11. JobFires'
  <2>. SUFFICES ASSUME NEW i \in Job \ cut, jobs'[i] # Absent, jobs'[i].cron \notin Invalid
       PROVE Fires(i)'
    BY DEF JobFires
  <2>1. jobs[i] # Absent /\ jobs[i].cron \notin Invalid /\ jobs'[i].task = jobs[i].task
    BY <1>01 DEF SameJobs
  <2>2. Fires(i)
    BY <2>1 DEF JobFires
  <2>3. ASSUME NEW d \in Caller, cpc[d] \in Renewing \cup {"forget"}
        PROVE  cjob'[d] = cjob[d] /\ cpc'[d] = cpc[d] /\ ccron'[d] = ccron[d]
    <3>1. d # c
      BY <2>3 DEF Renewing
    <3>. QED  BY <3>1, <1>02
  <2>. QED  BY <2>1, <2>2, <2>3, <1>04 DEF Fires, Renewing
<1>. QED  BY <1>1, <1>2, <1>3, <1>4, <1>5, <1>6, <1>7, <1>8, <1>9, <1>10, <1>11

LEMMA PersistKeeps ==
  ASSUME IInv, NEW c \in Caller, Persist(c)
  PROVE  IInv'
<1>. USE SchedulerAssumption DEF Persist, PersistJobs, Return, CallTo, Has, entryVars, fileVars, runVars, listVars, countVars, lifeVars, notJobs, IInv
<1>1. TypeOK'
  <2>1. file' \in [Job -> Saved \cup {Absent}] /\ written' \in BOOLEAN
    BY PersistTypes
  <2>2. stored' \in [Job -> BOOLEAN]
    BY DEF TypeOK
  <2>. QED  BY <2>1, <2>2 DEF TypeOK, CPC
<1>2. RunInv'
  BY DEF RunInv
<1>3. CallInv'
  BY DEF TypeOK, CallInv, Renewing, Entry
<1>4. ListInv'
  BY DEF TypeOK, ListInv, Listers
<1>5. DistinctInv'
  BY DEF TypeOK, DistinctInv, PrivateInv
<1>6. PrivateInv'
  BY DEF TypeOK, PrivateInv, CallInv, Renewing, OldInv, ReplaceInv
<1>7. OldInv'
  BY DEF TypeOK, OldInv, PrivateInv, DistinctInv
<1>8. ReplaceInv'
  BY DEF TypeOK, ReplaceInv, PrivateInv, DistinctInv
<1>9. DropInv'
  BY DEF TypeOK, DropInv, PrivateInv
<1>10. PendingInv'
  BY DEF TypeOK, PendingInv, Renews, Renewing, PrivateInv, ReplaceInv
<1>11. JobFires'
  BY DEF TypeOK, JobFires, Fires, Renewing
<1>. QED  BY <1>1, <1>2, <1>3, <1>4, <1>5, <1>6, <1>7, <1>8, <1>9, <1>10, <1>11

LEMMA NotPersistedKeeps ==
  ASSUME IInv, NEW c \in Caller, NotPersisted(c)
  PROVE  IInv'
<1>. USE SchedulerAssumption DEF NotPersisted, Return, CallTo, Has, entryVars, fileVars, runVars, listVars, countVars, lifeVars, notJobs, IInv
<1>1. TypeOK'
  <2>1. file' \in [Job -> Saved \cup {Absent}] /\ written' \in BOOLEAN /\ faults' \in Nat
    BY FailTypes
  <2>. QED  BY <2>1 DEF TypeOK, CPC
<1>2. RunInv'
  BY DEF RunInv
<1>3. CallInv'
  BY DEF TypeOK, CallInv, Renewing, Entry
<1>4. ListInv'
  BY DEF TypeOK, ListInv, Listers
<1>5. DistinctInv'
  BY DEF TypeOK, DistinctInv, PrivateInv
<1>6. PrivateInv'
  BY DEF TypeOK, PrivateInv, CallInv, Renewing, OldInv, ReplaceInv
<1>7. OldInv'
  BY DEF TypeOK, OldInv, PrivateInv, DistinctInv
<1>8. ReplaceInv'
  BY DEF TypeOK, ReplaceInv, PrivateInv, DistinctInv
<1>9. DropInv'
  BY DEF TypeOK, DropInv, PrivateInv
<1>10. PendingInv'
  BY DEF TypeOK, PendingInv, Renews, Renewing, PrivateInv, ReplaceInv
<1>11. JobFires'
  BY DEF TypeOK, JobFires, Fires, Renewing
<1>. QED  BY <1>1, <1>2, <1>3, <1>4, <1>5, <1>6, <1>7, <1>8, <1>9, <1>10, <1>11

LEMMA ListKeeps ==
  ASSUME IInv, NEW c \in Caller, List(c)
  PROVE  IInv'
<1>. USE SchedulerAssumption DEF List, Listing, CallTo, Has, entryVars, fileVars, runVars, listVars, countVars, lifeVars, notJobs, IInv
<1>1. TypeOK'
  BY DEF TypeOK, CPC, Entry, Saved, CallInv, Renewing
<1>2. RunInv'
  BY DEF RunInv
<1>3. CallInv'
  BY DEF TypeOK, CallInv, Renewing, Entry
<1>4. ListInv'
  BY DEF TypeOK, ListInv, Listers
<1>5. DistinctInv'
  BY DEF TypeOK, DistinctInv, PrivateInv
<1>6. PrivateInv'
  BY DEF TypeOK, PrivateInv, CallInv, Renewing, OldInv, ReplaceInv
<1>7. OldInv'
  BY DEF TypeOK, OldInv, PrivateInv, DistinctInv
<1>8. ReplaceInv'
  BY DEF TypeOK, ReplaceInv, PrivateInv, DistinctInv
<1>9. DropInv'
  BY DEF TypeOK, DropInv, PrivateInv
<1>10. PendingInv'
  BY DEF TypeOK, PendingInv, Renews, Renewing, PrivateInv, ReplaceInv
<1>11. JobFires'
  BY DEF TypeOK, JobFires, Fires, Renewing
<1>. QED  BY <1>1, <1>2, <1>3, <1>4, <1>5, <1>6, <1>7, <1>8, <1>9, <1>10, <1>11

LEMMA CompareKeeps ==
  ASSUME IInv, NEW c \in Caller, Compare(c)
  PROVE  IInv'
<1>. USE SchedulerAssumption DEF Compare, CallTo, Has, entryVars, fileVars, runVars, listVars, countVars, lifeVars, notJobs, IInv
<1>1. TypeOK'
  BY DEF TypeOK, CPC, Entry, Saved, CallInv, Renewing
<1>2. RunInv'
  BY DEF RunInv
<1>3. CallInv'
  BY DEF TypeOK, CallInv, Renewing, Entry
<1>4. ListInv'
  BY DEF TypeOK, ListInv, Listers
<1>5. DistinctInv'
  BY DEF TypeOK, DistinctInv, PrivateInv
<1>6. PrivateInv'
  BY DEF TypeOK, PrivateInv, CallInv, Renewing, OldInv, ReplaceInv
<1>7. OldInv'
  BY DEF TypeOK, OldInv, PrivateInv, DistinctInv
<1>8. ReplaceInv'
  BY DEF TypeOK, ReplaceInv, PrivateInv, DistinctInv
<1>9. DropInv'
  <2>. SUFFICES ASSUME NEW i \in Job, NEW j \in Job, dropping'[i] # Absent,
                       jobs[j] # Absent, jobs[j].task = dropping'[i]
       PROVE i = j
    BY DEF DropInv
  <2>1. jobs[i] # Absent /\ dropping'[i] = jobs[i].task
    OBVIOUS
  <2>. QED  BY <2>1 DEF DistinctInv
<1>10. PendingInv'
  BY DEF TypeOK, PendingInv, Renews, Renewing, PrivateInv, ReplaceInv
<1>11. JobFires'
  BY DEF TypeOK, JobFires, Fires, Renewing
<1>. QED  BY <1>1, <1>2, <1>3, <1>4, <1>5, <1>6, <1>7, <1>8, <1>9, <1>10, <1>11

LEMMA AdoptKeeps ==
  ASSUME IInv, NEW c \in Caller, NEW j \in Job, Adopt(c, j)
  PROVE  IInv'
<1>. USE SchedulerAssumption DEF Adopt, Fresh, CallTo, Has, entryVars, fileVars, runVars, listVars, countVars, lifeVars, notJobs, IInv
<1>1. TypeOK'
  BY DEF TypeOK, CPC, Entry, Saved, CallInv, Renewing
<1>2. RunInv'
  BY DEF RunInv
<1>3. CallInv'
  BY DEF TypeOK, CallInv, Renewing, Entry
<1>4. ListInv'
  BY DEF TypeOK, ListInv, Listers
<1>5. DistinctInv'
  BY DEF TypeOK, DistinctInv, PrivateInv
<1>6. PrivateInv'
  BY DEF TypeOK, PrivateInv, CallInv, Renewing, OldInv, ReplaceInv
<1>7. OldInv'
  BY DEF TypeOK, OldInv, PrivateInv, DistinctInv
<1>8. ReplaceInv'
  BY DEF TypeOK, ReplaceInv, PrivateInv, DistinctInv
<1>9. DropInv'
  BY DEF TypeOK, DropInv, PrivateInv
<1>10. PendingInv'
  BY DEF TypeOK, PendingInv, Renews, Renewing, PrivateInv, ReplaceInv
<1>11. JobFires'
  <2>. SUFFICES ASSUME NEW i \in Job \ cut, jobs'[i] # Absent, jobs'[i].cron \notin Invalid
       PROVE Fires(i)'
    BY DEF JobFires
  <2>1. jobs[i] \in Entry /\ jobs[i].task \in TaskId /\ jobs[i].cron \notin Invalid /\ Fires(i)
    BY DEF TypeOK, Entry, JobFires
  <2>2. CASE tasks[jobs[i].task] = i
    <3>1. tasks'[jobs[i].task] = i
      BY <2>1, <2>2 DEF TypeOK
    <3>. QED  BY <3>1 DEF Fires
  <2>3. CASE tasks[jobs[i].task] # i
    <3>1. PICK d \in Caller : /\ cjob[d] = i
                              /\ \/ cpc[d] \in Renewing /\ ccron[d] \notin Invalid
                                 \/ cpc[d] = "forget"
      BY <2>1, <2>3 DEF Fires, Renewing
    <3>2. d # c
      BY <3>1 DEF Renewing
    <3>3. cjob'[d] = i /\ cpc'[d] = cpc[d] /\ ccron'[d] = ccron[d]
      BY <3>1, <3>2 DEF TypeOK
    <3>. QED  BY <3>1, <3>3 DEF Fires, Renewing
  <2>. QED  BY <2>2, <2>3
<1>. QED  BY <1>1, <1>2, <1>3, <1>4, <1>5, <1>6, <1>7, <1>8, <1>9, <1>10, <1>11

LEMMA AdoptedKeeps ==
  ASSUME IInv, NEW c \in Caller, Adopted(c)
  PROVE  IInv'
<1>. USE SchedulerAssumption DEF Adopted, CallTo, Has, entryVars, fileVars, runVars, listVars, countVars, lifeVars, notJobs, IInv
<1>. DEFINE e == [cron |-> onDisk[cjob[c]].cron, paused |-> onDisk[cjob[c]].paused,
                  running |-> onDisk[cjob[c]].running, task |-> ctask[c]]
<1>0. cjob[c] \in Job /\ ctask[c] \in TaskId /\ e \in Entry /\ e # Absent
  <2>1. cjob[c] \in Job /\ ctask[c] \in TaskId
    BY DEF CallInv, PrivateInv
  <2>2. onDisk[cjob[c]] \in Saved
    BY <2>1 DEF ListInv, TypeOK
  <2>. QED  BY <2>1, <2>2 DEF Entry, Saved
<1>1. TypeOK'
  <2>1. jobs' = [jobs EXCEPT ![cjob[c]] = e]
    OBVIOUS
  <2>2. jobs' \in [Job -> Entry \cup {Absent}]
    <3>. HIDE DEF e
    <3>. QED  BY <2>1, <1>0, PutTypes
  <2>. QED  BY <2>2 DEF TypeOK, CPC
<1>2. RunInv'
  BY DEF RunInv
<1>3. CallInv'
  BY DEF TypeOK, CallInv, Renewing, Entry
<1>4. ListInv'
  BY DEF TypeOK, ListInv, Listers
<1>5. DistinctInv'
  BY DEF TypeOK, DistinctInv, PrivateInv
<1>6. PrivateInv'
  BY DEF TypeOK, PrivateInv, CallInv, Renewing, OldInv, ReplaceInv
<1>7. OldInv'
  BY DEF TypeOK, OldInv, PrivateInv, DistinctInv
<1>8. ReplaceInv'
  BY DEF TypeOK, ReplaceInv, PrivateInv, DistinctInv
<1>9. DropInv'
  BY DEF TypeOK, DropInv, PrivateInv
<1>10. PendingInv'
  BY DEF TypeOK, PendingInv, Renews, Renewing, PrivateInv, ReplaceInv
<1>11. JobFires'
  <2>. SUFFICES ASSUME NEW i \in Job \ cut, jobs'[i] # Absent, jobs'[i].cron \notin Invalid
       PROVE Fires(i)'
    BY DEF JobFires
  <2>1. CASE i = cjob[c]
    <3>1. jobs'[i].task = ctask[c]
      BY <2>1, <1>0 DEF TypeOK, Entry
    <3>. QED  BY <2>1, <3>1 DEF Fires, PrivateInv
  <2>2. CASE i # cjob[c]
    <3>1. jobs'[i] = jobs[i]
      BY <2>2 DEF TypeOK
    <3>2. Fires(i)
      BY <3>1 DEF JobFires
    <3>3. ASSUME NEW d \in Caller, cjob[d] = i
          PROVE  cjob'[d] = i /\ cpc'[d] = cpc[d] /\ ccron'[d] = ccron[d]
      BY <2>2, <3>3 DEF TypeOK
    <3>. QED  BY <3>1, <3>2, <3>3 DEF Fires, Renewing
  <2>. QED  BY <2>1, <2>2
<1>. QED  BY <1>1, <1>2, <1>3, <1>4, <1>5, <1>6, <1>7, <1>8, <1>9, <1>10, <1>11

LEMMA ForgetKeeps ==
  ASSUME IInv, NEW c \in Caller, NEW j \in Job, Forget(c, j)
  PROVE  IInv'
<1>. USE SchedulerAssumption DEF Forget, CallTo, Has, entryVars, fileVars, runVars, listVars, countVars, lifeVars, notJobs, IInv
<1>1. TypeOK'
  BY DEF TypeOK, CPC, Entry, Saved, CallInv, Renewing
<1>2. RunInv'
  BY DEF RunInv
<1>3. CallInv'
  BY DEF TypeOK, CallInv, Renewing, Entry
<1>4. ListInv'
  BY DEF TypeOK, ListInv, Listers
<1>5. DistinctInv'
  BY DEF TypeOK, DistinctInv, PrivateInv
<1>6. PrivateInv'
  BY DEF TypeOK, PrivateInv, CallInv, Renewing, OldInv, ReplaceInv
<1>7. OldInv'
  BY DEF TypeOK, OldInv, PrivateInv, DistinctInv
<1>8. ReplaceInv'
  BY DEF TypeOK, ReplaceInv, PrivateInv, DistinctInv
<1>9. DropInv'
  BY DEF TypeOK, DropInv, PrivateInv
<1>10. PendingInv'
  BY DEF TypeOK, PendingInv, Renews, Renewing, PrivateInv, ReplaceInv
<1>11. JobFires'
  <2>. SUFFICES ASSUME NEW i \in Job \ cut, jobs'[i] # Absent, jobs'[i].cron \notin Invalid
       PROVE Fires(i)'
    BY DEF JobFires
  <2>1. jobs[i] \in Entry /\ jobs[i].task \in TaskId /\ jobs[i].cron \notin Invalid /\ Fires(i)
    BY DEF TypeOK, Entry, JobFires
  <2>2. CASE tasks[jobs[i].task] = i
    <3>1. CASE jobs[i].task = dropping[j]
      <4>1. i = j
        BY <3>1 DEF DropInv
      <4>2. cpc'[c] = "forget" /\ cjob'[c] = i
        BY <4>1 DEF TypeOK
      <4>. QED  BY <4>2 DEF Fires
    <3>2. CASE jobs[i].task # dropping[j]
      <4>1. tasks'[jobs[i].task] = i
        BY <2>1, <2>2, <3>2 DEF TypeOK
      <4>. QED  BY <4>1 DEF Fires
    <3>. QED  BY <3>1, <3>2
  <2>3. CASE tasks[jobs[i].task] # i
    <3>1. PICK d \in Caller : /\ cjob[d] = i
                              /\ \/ cpc[d] \in Renewing /\ ccron[d] \notin Invalid
                                 \/ cpc[d] = "forget"
      BY <2>1, <2>3 DEF Fires, Renewing
    <3>2. d # c
      BY <3>1 DEF Renewing
    <3>3. cjob'[d] = i /\ cpc'[d] = cpc[d] /\ ccron'[d] = ccron[d]
      BY <3>1, <3>2 DEF TypeOK
    <3>. QED  BY <3>1, <3>3 DEF Fires, Renewing
  <2>. QED  BY <2>2, <2>3
<1>. QED  BY <1>1, <1>2, <1>3, <1>4, <1>5, <1>6, <1>7, <1>8, <1>9, <1>10, <1>11

LEMMA ForgottenKeeps ==
  ASSUME IInv, NEW c \in Caller, Forgotten(c)
  PROVE  IInv'
<1>. USE SchedulerAssumption DEF Forgotten, CallTo, Has, entryVars, fileVars, runVars, listVars, countVars, lifeVars, notJobs, IInv
<1>1. TypeOK'
  BY DEF TypeOK, CPC, Entry, Saved, CallInv, Renewing
<1>2. RunInv'
  BY DEF RunInv
<1>3. CallInv'
  BY DEF TypeOK, CallInv, Renewing, Entry
<1>4. ListInv'
  BY DEF TypeOK, ListInv, Listers
<1>5. DistinctInv'
  BY DEF TypeOK, DistinctInv, PrivateInv
<1>6. PrivateInv'
  BY DEF TypeOK, PrivateInv, CallInv, Renewing, OldInv, ReplaceInv
<1>7. OldInv'
  BY DEF TypeOK, OldInv, PrivateInv, DistinctInv
<1>8. ReplaceInv'
  BY DEF TypeOK, ReplaceInv, PrivateInv, DistinctInv
<1>9. DropInv'
  BY DEF TypeOK, DropInv, PrivateInv
<1>10. PendingInv'
  BY DEF TypeOK, PendingInv, Renews, Renewing, PrivateInv, ReplaceInv
<1>11. JobFires'
  BY DEF TypeOK, JobFires, Fires, Renewing
<1>. QED  BY <1>1, <1>2, <1>3, <1>4, <1>5, <1>6, <1>7, <1>8, <1>9, <1>10, <1>11

LEMMA ListedKeeps ==
  ASSUME IInv, NEW c \in Caller, Listed(c)
  PROVE  IInv'
<1>. USE SchedulerAssumption DEF Listed, Return, CallTo, Has, entryVars, fileVars, runVars, listVars, countVars, lifeVars, notJobs, IInv
<1>1. TypeOK'
  BY DEF TypeOK, CPC, Entry, Saved, CallInv, Renewing
<1>2. RunInv'
  BY DEF RunInv
<1>3. CallInv'
  BY DEF TypeOK, CallInv, Renewing, Entry
<1>4. ListInv'
  BY DEF TypeOK, ListInv, Listers
<1>5. DistinctInv'
  BY DEF TypeOK, DistinctInv, PrivateInv
<1>6. PrivateInv'
  BY DEF TypeOK, PrivateInv, CallInv, Renewing, OldInv, ReplaceInv
<1>7. OldInv'
  BY DEF TypeOK, OldInv, PrivateInv, DistinctInv
<1>8. ReplaceInv'
  BY DEF TypeOK, ReplaceInv, PrivateInv, DistinctInv
<1>9. DropInv'
  BY DEF TypeOK, DropInv, PrivateInv
<1>10. PendingInv'
  BY DEF TypeOK, PendingInv, Renews, Renewing, PrivateInv, ReplaceInv
<1>11. JobFires'
  BY DEF TypeOK, JobFires, Fires, Renewing
<1>. QED  BY <1>1, <1>2, <1>3, <1>4, <1>5, <1>6, <1>7, <1>8, <1>9, <1>10, <1>11

\* A request that is dropped takes what it was about to do to its job with it.
LEMMA RequestDroppedKeeps ==
  ASSUME IInv, NEW c \in Caller, RequestDropped(c)
  PROVE  IInv'
<1>. USE SchedulerAssumption DEF RequestDropped, Return, CallTo, Has, entryVars, fileVars, runVars, IInv
<1>01. ASSUME NEW d \in Caller, d # c
       PROVE  cpc'[d] = cpc[d] /\ cjob'[d] = cjob[d] /\ ccron'[d] = ccron[d] /\ ctask'[d] = ctask[d]
  BY <1>01 DEF TypeOK
<1>02. cpc'[c] = "idle" /\ ctask'[c] = Absent
  BY DEF TypeOK
<1>03. /\ onDisk' \in [Job -> Saved \cup {Absent}] /\ adding' \subseteq Job
       /\ dropping' \in [Job -> TaskId \cup {Absent}]
       /\ \A j \in Job : dropping'[j] \in {dropping[j], Absent}
  <2>1. CASE cpc[c] \in Listers
    BY <2>1 DEF Nothing, Listers, TypeOK
  <2>2. CASE cpc[c] \notin Listers
    BY <2>2 DEF listVars, Listers, TypeOK
  <2>. QED  BY <2>1, <2>2
<1>1. TypeOK'
  BY <1>03 DEF TypeOK, CPC
<1>2. RunInv'
  BY DEF RunInv
<1>3. CallInv'
  <2>. HIDE DEF RequestDropped
  <2>. QED  BY <1>01, <1>02 DEF CallInv, Renewing
<1>4. ListInv'
  <2>1. CASE cpc[c] \in Listers
    <3>1. \A d \in Caller : cpc'[d] \notin Listers
      BY <2>1, <1>01, <1>02 DEF ListInv, Listers
    <3>2. adding' = {}
      BY <2>1 DEF Listers
    <3>. QED  BY <3>1, <3>2 DEF ListInv, Listers
  <2>2. CASE cpc[c] \notin Listers
    <3>1. UNCHANGED listVars
      BY <2>2 DEF Listers
    <3>2. \A d \in Caller : cpc'[d] \in Listers <=> cpc[d] \in Listers
      BY <2>2, <1>01, <1>02 DEF Listers
    <3>. HIDE DEF RequestDropped
    <3>. QED  BY <3>1, <3>2, <1>01, <1>02 DEF ListInv, listVars, Listers
  <2>. QED  BY <2>1, <2>2
<1>5. DistinctInv'
  BY DEF DistinctInv
<1>6. PrivateInv'
  <2>. SUFFICES ASSUME NEW d \in Caller, cpc'[d] \in {"insert", "swap", "adopt"}
       PROVE  /\ ctask'[d] \in TaskId /\ tasks'[ctask'[d]] = cjob'[d]
              /\ \A k \in Caller : ctask'[k] = ctask'[d] => k = d
              /\ \A j \in Job : Has(j)' => jobs'[j].task # ctask'[d]
              /\ \A j \in Job : dropping'[j] # ctask'[d]
    BY DEF PrivateInv
  <2>1. d # c /\ ctask[d] \in TaskId /\ Absent \notin TaskId
    BY <1>01, <1>02 DEF PrivateInv
  <2>2. /\ cpc[d] \in {"insert", "swap", "adopt"} /\ ctask'[d] = ctask[d]
        /\ cjob'[d] = cjob[d] /\ UNCHANGED <<jobs, tasks>>
    BY <2>1, <1>01
  <2>. HIDE DEF RequestDropped
  <2>. QED  BY <2>1, <2>2, <1>01, <1>02, <1>03 DEF PrivateInv
<1>7. OldInv' /\ ReplaceInv'
  BY <1>01, <1>02 DEF OldInv, ReplaceInv
<1>8. DropInv'
  BY <1>03 DEF DropInv
<1>9. ASSUME NEW i \in Job \ cut', NEW d \in Caller, cjob[d] = i
      PROVE  d # c
  BY <1>9
<1>10. PendingInv'
  <2>. SUFFICES ASSUME NEW d \in Caller, cpc'[d] = "replace", NEW i \in Job \ cut',
                       jobs[i] # Absent, jobs[i].task = ctask'[d], jobs[i].cron \notin Invalid
       PROVE \E k \in Caller : Renews(k, i)'
    BY DEF PendingInv
  <2>1. d # c /\ i \in Job \ cut
    BY <1>02
  <2>2. PICK k \in Caller : Renews(k, i)
    BY <2>1, <1>01 DEF PendingInv
  <2>. QED  BY <2>2, <1>9, <1>01 DEF Renews
<1>11. JobFires'
  <2>. SUFFICES ASSUME NEW i \in Job \ cut', jobs[i] # Absent, jobs[i].cron \notin Invalid
       PROVE Fires(i)'
    BY DEF JobFires
  <2>1. Fires(i)
    BY DEF JobFires
  <2>2. ASSUME NEW d \in Caller, cjob[d] = i
        PROVE  cjob'[d] = i /\ cpc'[d] = cpc[d] /\ ccron'[d] = ccron[d]
    BY <2>2, <1>9, <1>01
  <2>. QED  BY <2>1, <2>2 DEF Fires
<1>. QED  BY <1>1, <1>2, <1>3, <1>4, <1>5, <1>6, <1>7, <1>8, <1>10, <1>11

-----------------------------------------------------------------------------
(* A new process. *)

LEMMA LoadedTypes ==
  ASSUME NEW f \in [Job -> Saved \cup {Absent}], NEW task \in Uuids
  PROVE  /\ Loaded(f, task) \in [Job -> Entry \cup {Absent}]
         /\ \A j \in Job : Loaded(f, task)[j] # Absent => Loaded(f, task)[j].task = task[j]
<1>. SUFFICES ASSUME NEW j \in Job
     PROVE  /\ Loaded(f, task)[j] \in Entry \cup {Absent}
            /\ Loaded(f, task)[j] # Absent => Loaded(f, task)[j].task = task[j]
  BY DEF Loaded
<1>1. CASE f[j] = Absent \/ f[j].cron \in Invalid
  BY <1>1 DEF Loaded
<1>2. CASE f[j] # Absent /\ f[j].cron \notin Invalid
  <2>1. f[j] \in Saved /\ task[j] \in TaskId
    BY <1>2 DEF Uuids
  <2>2. Loaded(f, task)[j] = [cron |-> f[j].cron, paused |-> f[j].paused,
                              running |-> FALSE, task |-> task[j]]
    BY <1>2 DEF Loaded
  <2>. QED  BY <2>1, <2>2 DEF Saved, Entry
<1>. QED  BY <1>1, <1>2

LEMMA TasksTypes ==
  ASSUME NEW map
  PROVE  TasksOf(map) \in [TaskId -> Job \cup {Absent}]
<1>. SUFFICES ASSUME NEW t \in TaskId PROVE TasksOf(map)[t] \in Job \cup {Absent}
  BY DEF TasksOf
<1>. DEFINE owner == {j \in Job : map[j] # Absent /\ map[j].task = t}
<1>1. TasksOf(map)[t] = IF owner = {} THEN Absent ELSE CHOOSE j \in owner : TRUE
  BY DEF TasksOf
<1>2. owner # {} => (CHOOSE j \in owner : TRUE) \in owner
  OBVIOUS
<1>. QED  BY <1>1, <1>2

\* Every entry that was loaded has its task.
LEMMA LoadedFires ==
  ASSUME NEW task \in Uuids, NEW map,
         \A j \in Job : map[j] # Absent => map[j].task = task[j],
         NEW i \in Job, map[i] # Absent
  PROVE  TasksOf(map)[map[i].task] = i
<1>. DEFINE owner == {j \in Job : map[j] # Absent /\ map[j].task = task[i]}
<1>1. task[i] \in TaskId /\ map[i].task = task[i]
  BY DEF Uuids
<1>2. i \in owner /\ \A j \in owner : j = i
  BY <1>1 DEF Uuids
<1>3. TasksOf(map)[task[i]] = IF owner = {} THEN Absent ELSE CHOOSE j \in owner : TRUE
  BY <1>1 DEF TasksOf
<1>4. (CHOOSE j \in owner : TRUE) \in owner
  BY <1>2
<1>. QED  BY <1>1, <1>2, <1>3, <1>4

LEMMA StartTypes ==
  ASSUME TypeOK, NEW f \in [Job -> Saved \cup {Absent}], NEW whole \in BOOLEAN,
         StartWith(f, whole)
  PROVE  /\ file' \in [Job -> Saved \cup {Absent}] /\ written' \in BOOLEAN
         /\ stored' \in [Job -> BOOLEAN] /\ faults' \in Nat
<1>1. ASSUME NEW e \in Saved \cup {Absent} PROVE Cleared(e) \in Saved \cup {Absent}
  BY <1>1 DEF Cleared, Saved
<1>2. stored' \in [Job -> BOOLEAN] /\ faults' \in Nat
  BY DEF StartWith, TypeOK
<1>3. CASE file' = [j \in Job |-> Cleared(f[j])] /\ written' = whole
  BY <1>1, <1>2, <1>3
<1>4. CASE file' = f /\ written' = whole
  BY <1>2, <1>4
<1>5. CASE LoseFile
  BY <1>2, <1>5 DEF LoseFile, Nothing
<1>. QED  BY <1>3, <1>4, <1>5 DEF StartWith

\* Whatever file the new process finds.
LEMMA Started ==
  ASSUME TypeOK, Restart
  PROVE  \E f \in [Job -> Saved \cup {Absent}], whole \in BOOLEAN : StartWith(f, whole)
<1>1. CASE StartWith(file, written)
  BY <1>1 DEF TypeOK
<1>2. CASE StartWith(Nothing, FALSE)
  BY <1>2 DEF Nothing
<1>. QED  BY <1>1, <1>2 DEF Restart

LEMMA RestartKeeps ==
  ASSUME IInv, Restart
  PROVE  IInv'
<1>. USE SchedulerAssumption DEF IInv
<1>0. PICK f \in [Job -> Saved \cup {Absent}], whole \in BOOLEAN : StartWith(f, whole)
  BY Started
<1>1. PICK task \in Uuids : jobs' = Loaded(f, task) /\ tasks' = TasksOf(jobs')
  BY <1>0 DEF StartWith
<1>2. /\ jobs' \in [Job -> Entry \cup {Absent}]
      /\ \A j \in Job : jobs'[j] # Absent => jobs'[j].task = task[j]
  BY <1>1, LoadedTypes
<1>3. tasks' \in [TaskId -> Job \cup {Absent}]
  BY <1>1, TasksTypes
<1>4. /\ file' \in [Job -> Saved \cup {Absent}] /\ written' \in BOOLEAN
      /\ stored' \in [Job -> BOOLEAN] /\ faults' \in Nat
  BY <1>0, StartTypes
<1>. USE DEF Restart
<1>5. TypeOK'
  BY <1>2, <1>3, <1>4 DEF TypeOK, RPC, CPC
<1>6. RunInv' /\ CallInv' /\ ListInv' /\ PrivateInv' /\ OldInv' /\ ReplaceInv' /\ DropInv'
      /\ PendingInv'
  BY DEF RunInv, CallInv, ListInv, PrivateInv, OldInv, ReplaceInv, DropInv, PendingInv,
         Renewing, Listers
<1>7. DistinctInv'
  BY <1>2 DEF DistinctInv, Has, Uuids
<1>8. JobFires'
  BY <1>1, <1>2, LoadedFires DEF JobFires, Fires, Has
<1>. QED  BY <1>5, <1>6, <1>7, <1>8

LEMMA InitInv == Init => IInv
<1>. SUFFICES ASSUME Init PROVE IInv
  OBVIOUS
<1>. USE SchedulerAssumption DEF Init
<1>1. PICK task \in Uuids : jobs = Loaded(file, task) /\ tasks = TasksOf(jobs)
  OBVIOUS
<1>2. file \in [Job -> Saved \cup {Absent}]
  BY DEF Saved
<1>3. /\ jobs \in [Job -> Entry \cup {Absent}]
      /\ \A j \in Job : jobs[j] # Absent => jobs[j].task = task[j]
  BY <1>1, <1>2, LoadedTypes
<1>4. tasks \in [TaskId -> Job \cup {Absent}]
  BY <1>1, TasksTypes
<1>5. TypeOK
  BY <1>2, <1>3, <1>4 DEF TypeOK, RPC, CPC
<1>6. RunInv /\ CallInv /\ ListInv /\ PrivateInv /\ OldInv /\ ReplaceInv /\ DropInv
      /\ PendingInv
  BY DEF RunInv, CallInv, ListInv, PrivateInv, OldInv, ReplaceInv, DropInv, PendingInv,
         Renewing, Listers
<1>7. DistinctInv
  BY <1>3 DEF DistinctInv, Has, Uuids
<1>8. JobFires
  BY <1>1, <1>3, LoadedFires DEF JobFires, Fires, Has
<1>. QED  BY <1>5, <1>6, <1>7, <1>8 DEF IInv

LEMMA StepInv == IInv /\ [Next]_vars => IInv'
<1>. SUFFICES ASSUME IInv, [Next]_vars PROVE IInv'
  OBVIOUS
<1>1. CASE UNCHANGED vars
  <2>. USE <1>1 DEF vars, entryVars, fileVars, runVars, callVars, listVars, countVars, lifeVars
  <2>1. TypeOK' /\ RunInv'
    BY DEF IInv, TypeOK, RunInv
  <2>2. SameJobs
    BY DEF SameJobs, Has
  <2>. QED  BY <2>1, <2>2, RunFrame
<1>2. ASSUME NEW r \in Run, Execution(r) \/ MarkNotPersisted(r)
      PROVE  IInv'
  BY <1>2, MarkKeeps, PersistMarkKeeps, InsertTokenKeeps, ExecutedKeeps, UnmarkKeeps,
     PersistEndKeeps, MarkNotPersistedKeeps, RunDroppedKeeps DEF Execution
<1>3. ASSUME NEW r \in Run, NEW t \in TaskId, Fire(r, t)
      PROVE  IInv'
  BY <1>3, FireKeeps
<1>4. ASSUME NEW r \in Run, NEW j \in Job, RunNow(r, j)
      PROVE  IInv'
  BY <1>4, RunNowKeeps
<1>5. ASSUME NEW c \in Caller, Serve(c) \/ List(c)
      PROVE  IInv'
  BY <1>5, RegisterKeeps, InsertKeeps, UnregisterKeeps, ReplaceKeeps, RenewKeeps,
     SwapKeeps, CancelRunKeeps, ClearKeeps, PersistKeeps, NotPersistedKeeps,
     RequestDroppedKeeps, CompareKeeps, AdoptKeeps, AdoptedKeeps, ForgetKeeps, ForgottenKeeps,
     ListedKeeps, ListKeeps DEF Serve
<1>6. ASSUME NEW c \in Caller, NEW j \in Job, Ask(c, j)
      PROVE  IInv'
  BY <1>6, RemoveKeeps, KillKeeps, SetPausedKeeps, AddKeeps, UpdateKeeps DEF Ask
<1>7. CASE Restart
  BY <1>7, RestartKeeps
<1>. QED  BY <1>1, <1>2, <1>3, <1>4, <1>5, <1>6, <1>7 DEF Next

LEMMA Inductive == Spec => []IInv
BY InitInv, StepInv, PTL DEF Spec

-----------------------------------------------------------------------------
\* Type correctness of every state scheduler.rs reaches.
THEOREM TypeCorrect == Spec => []TypeOK
<1>1. IInv => TypeOK
  BY DEF IInv
<1>. QED  BY <1>1, Inductive, PTL

\* However requests, listings, runs and restarts interleave, a job in the map
\* keeps a cron task that starts it, unless an update or a listing of it was
\* dropped half-way (scheduler.rs, every insert, remove and update_schedule).
THEOREM JobsFire == Spec => []JobFires
<1>1. IInv => JobFires
  BY DEF IInv
<1>. QED  BY <1>1, Inductive, PTL

-----------------------------------------------------------------------------
(* Where jobs are listed alone, what was stored stays: the listing finds it in *)
(* the file that it reads, so it never drops it.                               *)

StoredInv == \A j \in Job : stored[j] =>
    /\ Has(j) /\ jobs[j].cron \notin Invalid
    /\ written => file[j] # Absent /\ file[j].cron \notin Invalid

AloneInv == \A c, d \in Caller : cpc[c] \in Listers /\ d # c => cpc[d] = "idle"

FoundInv == \A j \in Job : stored[j] =>
    /\ dropping[j] = Absent
    /\ \A c \in Caller : /\ cpc[c] = "compare" => onDisk[j] # Absent
                         /\ cpc[c] = "forget" => cjob[c] # j

DroppingInv == (\E j \in Job : dropping[j] # Absent) => \E c \in Caller : cpc[c] \in Listers

KInv == StoredInv /\ AloneInv /\ FoundInv /\ DroppingInv

KeptInv == ListAlone => KInv

LEMMA SavedRecord ==
  ASSUME NEW e \in Entry
  PROVE  ToSave(e) # Absent /\ ToSave(e).cron = e.cron
<1>1. e # Absent
  BY SchedulerAssumption DEF Entry
<1>2. ToSave(e) = [cron |-> e.cron, paused |-> e.paused, running |-> e.running]
  BY <1>1 DEF ToSave
<1>3. ToSave(e) \in Saved
  BY <1>2 DEF Entry, Saved
<1>. QED  BY <1>2, <1>3, SchedulerAssumption DEF Saved

LEMMA KeptFrame ==
  ASSUME TypeOK, KInv, SameJobs, UNCHANGED <<stored, callVars>>,
         \/ UNCHANGED fileVars
         \/ PersistJobs /\ UNCHANGED jobs
         \/ LoseFile
  PROVE  KInv'
<1>. USE DEF callVars, listVars, fileVars
<1>1. AloneInv' /\ FoundInv' /\ DroppingInv'
  BY DEF KInv, AloneInv, FoundInv, DroppingInv, Listers
<1>2. StoredInv'
  <2>1. CASE UNCHANGED fileVars
    BY <2>1 DEF KInv, StoredInv, SameJobs, Has
  <2>2. CASE PersistJobs /\ UNCHANGED jobs
    <3>1. ASSUME NEW j \in Job, stored[j]
          PROVE  file'[j] # Absent /\ file'[j].cron \notin Invalid
      BY <2>2, <3>1, SavedRecord DEF KInv, StoredInv, PersistJobs, TypeOK, Has
    <3>. QED  BY <2>2, <3>1 DEF KInv, StoredInv, Has
  <2>3. CASE LoseFile
    BY <2>3 DEF KInv, StoredInv, SameJobs, Has, LoseFile
  <2>. QED  BY <2>1, <2>2, <2>3
<1>. QED  BY <1>1, <1>2 DEF KInv

LEMMA RunKept ==
  ASSUME IInv, KInv, NEW r \in Run,
         \/ Execution(r) \/ MarkNotPersisted(r)
         \/ \E t \in TaskId : Fire(r, t)
         \/ \E j \in Job : RunNow(r, j)
  PROVE  KInv'
<1>. USE DEF entryVars, fileVars, IInv
<1>1. CASE Mark(r)
  <2>1. SameJobs
    <3>1. CASE Has(rjob[r])
      BY <1>1, <3>1, FlagTypes DEF Mark, RunInv
    <3>2. CASE ~Has(rjob[r])
      BY <1>1, <3>2 DEF Mark, SameJobs, Has
    <3>. QED  BY <3>1, <3>2
  <2>. QED  BY <1>1, <2>1, KeptFrame DEF Mark
<1>2. CASE Unmark(r)
  <2>1. SameJobs
    <3>1. CASE Has(rjob[r])
      BY <1>2, <3>1, FlagTypes DEF Unmark, RunInv
    <3>2. CASE ~Has(rjob[r])
      BY <1>2, <3>2 DEF Unmark, SameJobs, Has
    <3>. QED  BY <3>1, <3>2
  <2>. QED  BY <1>2, <2>1, KeptFrame DEF Unmark
<1>3. CASE \E j \in Job : RunNow(r, j)
  <2>1. PICK j \in Job : RunNow(r, j)
    BY <1>3
  <2>2. SameJobs
    BY <2>1, FlagTypes DEF RunNow
  <2>. QED  BY <2>1, <2>2, KeptFrame DEF RunNow
<1>4. ASSUME UNCHANGED jobs PROVE SameJobs
  BY <1>4 DEF SameJobs, Has
<1>5. CASE PersistMark(r) \/ PersistEnd(r) \/ MarkNotPersisted(r)
  BY <1>4, <1>5, KeptFrame DEF PersistMark, PersistEnd, MarkNotPersisted, FailWrite
<1>6. CASE InsertToken(r) \/ Executed(r) \/ RunDropped(r) \/ \E t \in TaskId : Fire(r, t)
  BY <1>4, <1>6, KeptFrame DEF InsertToken, Executed, RunDropped, Fire
<1>. QED  BY <1>1, <1>2, <1>3, <1>5, <1>6 DEF Execution

LEMMA AddKept ==
  ASSUME ListAlone, IInv, KInv, NEW c \in Caller, NEW j \in Job, NEW cron \in Cron, Add(c, j, cron)
  PROVE  KInv'
<1>. USE SchedulerAssumption DEF Add, Request, CallTo, Has, Listing, entryVars, fileVars, runVars, listVars, countVars, lifeVars, notJobs, IInv, KInv
<1>1. StoredInv'
  BY DEF StoredInv, TypeOK, Entry, CallInv, ListInv, FoundInv, PrivateInv
<1>2. AloneInv'
  BY DEF AloneInv, Listers, TypeOK
<1>3. FoundInv'
  BY DEF FoundInv, AloneInv, StoredInv, Listers, TypeOK
<1>4. DroppingInv'
  BY DEF DroppingInv, Listers, TypeOK
<1>. QED  BY <1>1, <1>2, <1>3, <1>4

LEMMA RegisterKept ==
  ASSUME ListAlone, IInv, KInv, NEW c \in Caller, Register(c)
  PROVE  KInv'
<1>. USE SchedulerAssumption DEF Register, NewTask, Return, Fresh, CallTo, Has, Listing, entryVars, fileVars, runVars, listVars, countVars, lifeVars, notJobs, IInv, KInv
<1>1. StoredInv'
  BY DEF StoredInv, TypeOK, Entry, CallInv, ListInv, FoundInv, PrivateInv
<1>2. AloneInv'
  BY DEF AloneInv, Listers, TypeOK
<1>3. FoundInv'
  BY DEF FoundInv, AloneInv, StoredInv, Listers, TypeOK
<1>4. DroppingInv'
  BY DEF DroppingInv, Listers, TypeOK
<1>. QED  BY <1>1, <1>2, <1>3, <1>4

LEMMA InsertKept ==
  ASSUME ListAlone, IInv, KInv, NEW c \in Caller, Insert(c)
  PROVE  KInv'
<1>. USE SchedulerAssumption DEF Insert, CallTo, Has, Listing, entryVars, fileVars, runVars, listVars, countVars, lifeVars, notJobs, IInv, KInv
<1>1. StoredInv'
  <2>. DEFINE e == [cron |-> ccron[c], paused |-> FALSE, running |-> FALSE, task |-> ctask[c]]
  <2>1. cjob[c] \in Job /\ e \in Entry /\ e.cron \notin Invalid
    <3>1. cjob[c] \in Job /\ ctask[c] \in TaskId
      BY DEF CallInv, PrivateInv
    <3>2. ccron[c] \in Cron /\ ccron[c] \notin Invalid
      BY DEF CallInv, Renewing
    <3>. QED  BY <3>1, <3>2 DEF Entry, Saved
  <2>2. jobs' = [jobs EXCEPT ![cjob[c]] = e]
    OBVIOUS
  <2>. HIDE DEF e
  <2>3. e # Absent
    BY <2>1 DEF Entry
  <2>4. ASSUME NEW j \in Job, stored[j]
        PROVE  jobs'[j] # Absent /\ jobs'[j].cron \notin Invalid
    <3>1. CASE j = cjob[c]
      <4>1. jobs'[j] = e
        BY <2>1, <2>2, <3>1 DEF TypeOK
      <4>. QED  BY <4>1, <2>1, <2>3
    <3>2. CASE j # cjob[c]
      <4>1. jobs'[j] = jobs[j]
        BY <2>2, <3>2 DEF TypeOK
      <4>. QED  BY <4>1, <2>4 DEF StoredInv
    <3>. QED  BY <3>1, <3>2
  <2>. QED  BY <2>4 DEF StoredInv
<1>2. AloneInv'
  BY DEF AloneInv, Listers, TypeOK
<1>3. FoundInv'
  BY DEF FoundInv, AloneInv, StoredInv, Listers, TypeOK
<1>4. DroppingInv'
  BY DEF DroppingInv, Listers, TypeOK
<1>. QED  BY <1>1, <1>2, <1>3, <1>4

LEMMA RemoveKept ==
  ASSUME ListAlone, IInv, KInv, NEW c \in Caller, NEW j \in Job, Remove(c, j)
  PROVE  KInv'
<1>. USE SchedulerAssumption DEF Remove, Request, CallTo, Has, Listing, entryVars, fileVars, runVars, listVars, countVars, lifeVars, notJobs, IInv, KInv
<1>1. StoredInv'
  BY DEF StoredInv, TypeOK, Entry, CallInv, ListInv, FoundInv, PrivateInv
<1>2. AloneInv'
  BY DEF AloneInv, Listers, TypeOK
<1>3. FoundInv'
  BY DEF FoundInv, AloneInv, StoredInv, Listers, TypeOK
<1>4. DroppingInv'
  BY DEF DroppingInv, Listers, TypeOK
<1>. QED  BY <1>1, <1>2, <1>3, <1>4

LEMMA UnregisterKept ==
  ASSUME ListAlone, IInv, KInv, NEW c \in Caller, Unregister(c)
  PROVE  KInv'
<1>. USE SchedulerAssumption DEF Unregister, DropTask, CallTo, Has, Listing, entryVars, fileVars, runVars, listVars, countVars, lifeVars, notJobs, IInv, KInv
<1>1. StoredInv'
  BY DEF StoredInv, TypeOK, Entry, CallInv, ListInv, FoundInv, PrivateInv
<1>2. AloneInv'
  BY DEF AloneInv, Listers, TypeOK
<1>3. FoundInv'
  BY DEF FoundInv, AloneInv, StoredInv, Listers, TypeOK
<1>4. DroppingInv'
  BY DEF DroppingInv, Listers, TypeOK
<1>. QED  BY <1>1, <1>2, <1>3, <1>4

LEMMA SetPausedKept ==
  ASSUME ListAlone, IInv, KInv, NEW c \in Caller, NEW j \in Job, NEW p \in BOOLEAN, SetPaused(c, j, p)
  PROVE  KInv'
<1>. USE SchedulerAssumption DEF SetPaused, Request, CallTo, Has, Listing, entryVars, fileVars, runVars, listVars, countVars, lifeVars, notJobs, IInv, KInv
<1>1. StoredInv'
  BY DEF StoredInv, TypeOK, Entry, CallInv, ListInv, FoundInv, PrivateInv
<1>2. AloneInv'
  BY DEF AloneInv, Listers, TypeOK
<1>3. FoundInv'
  BY DEF FoundInv, AloneInv, StoredInv, Listers, TypeOK
<1>4. DroppingInv'
  BY DEF DroppingInv, Listers, TypeOK
<1>. QED  BY <1>1, <1>2, <1>3, <1>4

LEMMA UpdateKept ==
  ASSUME ListAlone, IInv, KInv, NEW c \in Caller, NEW j \in Job, NEW cron \in Cron, Update(c, j, cron)
  PROVE  KInv'
<1>. USE SchedulerAssumption DEF Update, Request, CallTo, Has, Listing, entryVars, fileVars, runVars, listVars, countVars, lifeVars, notJobs, IInv, KInv
<1>1. StoredInv'
  BY DEF StoredInv, TypeOK, Entry, CallInv, ListInv, FoundInv, PrivateInv
<1>2. AloneInv'
  BY DEF AloneInv, Listers, TypeOK
<1>3. FoundInv'
  BY DEF FoundInv, AloneInv, StoredInv, Listers, TypeOK
<1>4. DroppingInv'
  BY DEF DroppingInv, Listers, TypeOK
<1>. QED  BY <1>1, <1>2, <1>3, <1>4

LEMMA ReplaceKept ==
  ASSUME ListAlone, IInv, KInv, NEW c \in Caller, Replace(c)
  PROVE  KInv'
<1>. USE SchedulerAssumption DEF Replace, DropTask, CallTo, Has, Listing, entryVars, fileVars, runVars, listVars, countVars, lifeVars, notJobs, IInv, KInv
<1>1. StoredInv'
  BY DEF StoredInv, TypeOK, Entry, CallInv, ListInv, FoundInv, PrivateInv
<1>2. AloneInv'
  BY DEF AloneInv, Listers, TypeOK
<1>3. FoundInv'
  BY DEF FoundInv, AloneInv, StoredInv, Listers, TypeOK
<1>4. DroppingInv'
  BY DEF DroppingInv, Listers, TypeOK
<1>. QED  BY <1>1, <1>2, <1>3, <1>4

LEMMA RenewKept ==
  ASSUME ListAlone, IInv, KInv, NEW c \in Caller, Renew(c)
  PROVE  KInv'
<1>. USE SchedulerAssumption DEF Renew, NewTask, Return, Fresh, CallTo, Has, Listing, entryVars, fileVars, runVars, listVars, countVars, lifeVars, notJobs, IInv, KInv
<1>1. StoredInv'
  BY DEF StoredInv, TypeOK, Entry, CallInv, ListInv, FoundInv, PrivateInv
<1>2. AloneInv'
  BY DEF AloneInv, Listers, TypeOK
<1>3. FoundInv'
  BY DEF FoundInv, AloneInv, StoredInv, Listers, TypeOK
<1>4. DroppingInv'
  BY DEF DroppingInv, Listers, TypeOK
<1>. QED  BY <1>1, <1>2, <1>3, <1>4

LEMMA SwapKept ==
  ASSUME ListAlone, IInv, KInv, NEW c \in Caller, Swap(c)
  PROVE  KInv'
<1>. USE SchedulerAssumption DEF Swap, CallTo, Has, Listing, entryVars, fileVars, runVars, listVars, countVars, lifeVars, notJobs, IInv, KInv
<1>1. StoredInv'
  <2>. SUFFICES ASSUME NEW j \in Job, stored[j]
       PROVE  jobs'[j] # Absent /\ jobs'[j].cron \notin Invalid
    BY DEF StoredInv
  <2>1. jobs[j] \in Entry /\ jobs[j].cron \notin Invalid
    BY DEF StoredInv, TypeOK
  <2>2. ctask[c] \in TaskId
    BY DEF PrivateInv
  <2>3. jobs'[j] = jobs[j] \/ jobs'[j] = [jobs[j] EXCEPT !.task = ctask[c]]
    BY DEF TypeOK
  <2>. QED  BY <2>1, <2>2, <2>3 DEF Entry
<1>2. AloneInv'
  BY DEF AloneInv, Listers, TypeOK
<1>3. FoundInv'
  BY DEF FoundInv, AloneInv, StoredInv, Listers, TypeOK
<1>4. DroppingInv'
  BY DEF DroppingInv, Listers, TypeOK
<1>. QED  BY <1>1, <1>2, <1>3, <1>4

LEMMA KillKept ==
  ASSUME ListAlone, IInv, KInv, NEW c \in Caller, NEW j \in Job, Kill(c, j)
  PROVE  KInv'
<1>. USE SchedulerAssumption DEF Kill, Request, Working, CallTo, Has, Listing, entryVars, fileVars, runVars, listVars, countVars, lifeVars, notJobs, IInv, KInv
<1>1. StoredInv'
  BY DEF StoredInv, TypeOK, Entry, CallInv, ListInv, FoundInv, PrivateInv
<1>2. AloneInv'
  BY DEF AloneInv, Listers, TypeOK
<1>3. FoundInv'
  BY DEF FoundInv, AloneInv, StoredInv, Listers, TypeOK
<1>4. DroppingInv'
  BY DEF DroppingInv, Listers, TypeOK
<1>. QED  BY <1>1, <1>2, <1>3, <1>4

LEMMA CancelRunKept ==
  ASSUME ListAlone, IInv, KInv, NEW c \in Caller, CancelRun(c)
  PROVE  KInv'
<1>. USE SchedulerAssumption DEF CancelRun, CallTo, Has, Listing, entryVars, fileVars, runVars, listVars, countVars, lifeVars, notJobs, IInv, KInv
<1>1. StoredInv'
  BY DEF StoredInv, TypeOK, Entry, CallInv, ListInv, FoundInv, PrivateInv
<1>2. AloneInv'
  BY DEF AloneInv, Listers, TypeOK
<1>3. FoundInv'
  BY DEF FoundInv, AloneInv, StoredInv, Listers, TypeOK
<1>4. DroppingInv'
  BY DEF DroppingInv, Listers, TypeOK
<1>. QED  BY <1>1, <1>2, <1>3, <1>4

LEMMA ClearKept ==
  ASSUME ListAlone, IInv, KInv, NEW c \in Caller, Clear(c)
  PROVE  KInv'
<1>. USE SchedulerAssumption DEF Clear, Return, CallTo, Has, Listing, entryVars, fileVars, runVars, listVars, countVars, lifeVars, notJobs, IInv, KInv
<1>1. StoredInv'
  <2>1. CASE jobs[cjob[c]] # Absent
    <3>1. SameJobs
      BY <2>1, FlagTypes DEF CallInv
    <3>. QED  BY <3>1 DEF StoredInv, SameJobs
  <2>2. CASE jobs[cjob[c]] = Absent
    BY <2>2 DEF StoredInv
  <2>. QED  BY <2>1, <2>2
<1>2. AloneInv'
  BY DEF AloneInv, Listers, TypeOK
<1>3. FoundInv'
  BY DEF FoundInv, AloneInv, StoredInv, Listers, TypeOK
<1>4. DroppingInv'
  BY DEF DroppingInv, Listers, TypeOK
<1>. QED  BY <1>1, <1>2, <1>3, <1>4

LEMMA PersistKept ==
  ASSUME ListAlone, IInv, KInv, NEW c \in Caller, Persist(c)
  PROVE  KInv'
<1>. USE SchedulerAssumption DEF Persist, PersistJobs, Return, CallTo, Has, Listing, entryVars, fileVars, runVars, listVars, countVars, lifeVars, notJobs, IInv, KInv
<1>1. StoredInv'
  <2>. SUFFICES ASSUME NEW j \in Job, stored'[j]
       PROVE  /\ jobs[j] # Absent /\ jobs[j].cron \notin Invalid
              /\ file'[j] # Absent /\ file'[j].cron \notin Invalid
    BY DEF StoredInv
  <2>1. jobs[j] # Absent /\ jobs[j].cron \notin Invalid
    BY DEF StoredInv
  <2>2. jobs[j] \in Entry /\ file'[j] = ToSave(jobs[j])
    BY <2>1 DEF TypeOK
  <2>. QED  BY <2>1, <2>2, SavedRecord
<1>2. AloneInv'
  BY DEF AloneInv, Listers, TypeOK
<1>3. FoundInv'
  <2>1. CASE cpc[c] = "persist"
    BY <2>1 DEF FoundInv, TypeOK
  <2>2. CASE cpc[c] = "stored"
    <3>1. \A d \in Caller : cpc[d] \notin Listers
      BY <2>2 DEF AloneInv, Listers
    <3>2. \A j \in Job : dropping[j] = Absent
      BY <3>1 DEF DroppingInv
    <3>. QED  BY <3>1, <3>2 DEF FoundInv, Listers, TypeOK
  <2>. QED  BY <2>1, <2>2
<1>4. DroppingInv'
  BY DEF DroppingInv, Listers, TypeOK
<1>. QED  BY <1>1, <1>2, <1>3, <1>4

LEMMA NotPersistedKept ==
  ASSUME ListAlone, IInv, KInv, NEW c \in Caller, NotPersisted(c)
  PROVE  KInv'
<1>. USE SchedulerAssumption DEF NotPersisted, Return, CallTo, Has, Listing, entryVars, fileVars, runVars, listVars, countVars, lifeVars, notJobs, IInv, KInv
<1>1. StoredInv'
  BY DEF StoredInv, FailWrite, LoseFile
<1>2. AloneInv'
  BY DEF AloneInv, Listers, TypeOK
<1>3. FoundInv'
  BY DEF FoundInv, AloneInv, StoredInv, Listers, TypeOK
<1>4. DroppingInv'
  BY DEF DroppingInv, Listers, TypeOK
<1>. QED  BY <1>1, <1>2, <1>3, <1>4

LEMMA RequestDroppedKept ==
  ASSUME ListAlone, IInv, KInv, NEW c \in Caller, RequestDropped(c)
  PROVE  KInv'
<1>. USE SchedulerAssumption DEF RequestDropped, Return, CallTo, Has, entryVars, fileVars, runVars, IInv, KInv
<1>01. \A d \in Caller : IF d = c THEN cpc'[d] = "idle"
                          ELSE cpc'[d] = cpc[d] /\ cjob'[d] = cjob[d]
  BY DEF TypeOK
<1>1. StoredInv'
  BY DEF StoredInv
<1>2. AloneInv'
  BY <1>01 DEF AloneInv, Listers
<1>3. CASE cpc[c] \in Listers
  <2>1. \A d \in Caller : cpc'[d] = "idle"
    BY <1>3, <1>01 DEF AloneInv
  <2>2. \A j \in Job : dropping'[j] = Absent
    BY <1>3 DEF Listers, Nothing
  <2>3. FoundInv' /\ DroppingInv'
    BY <2>1, <2>2 DEF FoundInv, DroppingInv
  <2>. QED  BY <1>1, <1>2, <2>3
<1>4. CASE cpc[c] \notin Listers
  <2>1. UNCHANGED listVars
    BY <1>4 DEF Listers
  <2>2. FoundInv'
    BY <2>1, <1>01 DEF FoundInv, listVars
  <2>3. DroppingInv'
    BY <2>1, <1>01, <1>4 DEF DroppingInv, listVars
  <2>. QED  BY <1>1, <1>2, <2>2, <2>3
<1>. QED  BY <1>3, <1>4

LEMMA ListKept ==
  ASSUME ListAlone, IInv, KInv, NEW c \in Caller, List(c)
  PROVE  KInv'
<1>. USE SchedulerAssumption DEF List, Listing, CallTo, Has, Listing, entryVars, fileVars, runVars, listVars, countVars, lifeVars, notJobs, IInv, KInv
<1>1. StoredInv'
  BY DEF StoredInv, TypeOK, Entry, CallInv, ListInv, FoundInv, PrivateInv
<1>2. AloneInv'
  BY DEF AloneInv, Listers, TypeOK
<1>3. FoundInv'
  BY DEF FoundInv, AloneInv, StoredInv, Listers, TypeOK
<1>4. DroppingInv'
  BY DEF DroppingInv, Listers, TypeOK
<1>. QED  BY <1>1, <1>2, <1>3, <1>4

LEMMA CompareKept ==
  ASSUME ListAlone, IInv, KInv, NEW c \in Caller, Compare(c)
  PROVE  KInv'
<1>. USE SchedulerAssumption DEF Compare, CallTo, Has, Listing, entryVars, fileVars, runVars, listVars, countVars, lifeVars, notJobs, IInv, KInv
<1>1. StoredInv'
  BY DEF StoredInv, TypeOK, Entry, CallInv, ListInv, FoundInv, PrivateInv
<1>2. AloneInv'
  BY DEF AloneInv, Listers, TypeOK
<1>3. FoundInv'
  BY DEF FoundInv, AloneInv, StoredInv, Listers, TypeOK
<1>4. DroppingInv'
  BY DEF DroppingInv, Listers, TypeOK
<1>. QED  BY <1>1, <1>2, <1>3, <1>4

LEMMA AdoptKept ==
  ASSUME ListAlone, IInv, KInv, NEW c \in Caller, NEW j \in Job, Adopt(c, j)
  PROVE  KInv'
<1>. USE SchedulerAssumption DEF Adopt, Fresh, CallTo, Has, Listing, entryVars, fileVars, runVars, listVars, countVars, lifeVars, notJobs, IInv, KInv
<1>1. StoredInv'
  BY DEF StoredInv, TypeOK, Entry, CallInv, ListInv, FoundInv, PrivateInv
<1>2. AloneInv'
  BY DEF AloneInv, Listers, TypeOK
<1>3. FoundInv'
  BY DEF FoundInv, AloneInv, StoredInv, Listers, TypeOK
<1>4. DroppingInv'
  BY DEF DroppingInv, Listers, TypeOK
<1>. QED  BY <1>1, <1>2, <1>3, <1>4

LEMMA AdoptedKept ==
  ASSUME ListAlone, IInv, KInv, NEW c \in Caller, Adopted(c)
  PROVE  KInv'
<1>. USE SchedulerAssumption DEF Adopted, CallTo, Has, Listing, entryVars, fileVars, runVars, listVars, countVars, lifeVars, notJobs, IInv, KInv
<1>1. StoredInv'
  <2>. DEFINE e == [cron |-> onDisk[cjob[c]].cron, paused |-> onDisk[cjob[c]].paused,
                   running |-> onDisk[cjob[c]].running, task |-> ctask[c]]
  <2>1. cjob[c] \in Job /\ e \in Entry /\ e.cron \notin Invalid
    <3>1. cjob[c] \in Job /\ ctask[c] \in TaskId
      BY DEF CallInv, PrivateInv
    <3>2. onDisk[cjob[c]] \in Saved /\ onDisk[cjob[c]].cron \notin Invalid
      BY <3>1 DEF ListInv, TypeOK
    <3>. QED  BY <3>1, <3>2 DEF Entry, Saved
  <2>2. jobs' = [jobs EXCEPT ![cjob[c]] = e]
    OBVIOUS
  <2>. HIDE DEF e
  <2>3. e # Absent
    BY <2>1 DEF Entry
  <2>4. ASSUME NEW j \in Job, stored[j]
        PROVE  jobs'[j] # Absent /\ jobs'[j].cron \notin Invalid
    <3>1. CASE j = cjob[c]
      <4>1. jobs'[j] = e
        BY <2>1, <2>2, <3>1 DEF TypeOK
      <4>. QED  BY <4>1, <2>1, <2>3
    <3>2. CASE j # cjob[c]
      <4>1. jobs'[j] = jobs[j]
        BY <2>2, <3>2 DEF TypeOK
      <4>. QED  BY <4>1, <2>4 DEF StoredInv
    <3>. QED  BY <3>1, <3>2
  <2>. QED  BY <2>4 DEF StoredInv
<1>2. AloneInv'
  BY DEF AloneInv, Listers, TypeOK
<1>3. FoundInv'
  BY DEF FoundInv, AloneInv, StoredInv, Listers, TypeOK
<1>4. DroppingInv'
  BY DEF DroppingInv, Listers, TypeOK
<1>. QED  BY <1>1, <1>2, <1>3, <1>4

LEMMA ForgetKept ==
  ASSUME ListAlone, IInv, KInv, NEW c \in Caller, NEW j \in Job, Forget(c, j)
  PROVE  KInv'
<1>. USE SchedulerAssumption DEF Forget, CallTo, Has, Listing, entryVars, fileVars, runVars, listVars, countVars, lifeVars, notJobs, IInv, KInv
<1>1. StoredInv'
  BY DEF StoredInv, TypeOK, Entry, CallInv, ListInv, FoundInv, PrivateInv
<1>2. AloneInv'
  BY DEF AloneInv, Listers, TypeOK
<1>3. FoundInv'
  BY DEF FoundInv, AloneInv, StoredInv, Listers, TypeOK
<1>4. DroppingInv'
  BY DEF DroppingInv, Listers, TypeOK
<1>. QED  BY <1>1, <1>2, <1>3, <1>4

LEMMA ForgottenKept ==
  ASSUME ListAlone, IInv, KInv, NEW c \in Caller, Forgotten(c)
  PROVE  KInv'
<1>. USE SchedulerAssumption DEF Forgotten, CallTo, Has, Listing, entryVars, fileVars, runVars, listVars, countVars, lifeVars, notJobs, IInv, KInv
<1>1. StoredInv'
  BY DEF StoredInv, TypeOK, Entry, CallInv, ListInv, FoundInv, PrivateInv
<1>2. AloneInv'
  BY DEF AloneInv, Listers, TypeOK
<1>3. FoundInv'
  BY DEF FoundInv, AloneInv, StoredInv, Listers, TypeOK
<1>4. DroppingInv'
  BY DEF DroppingInv, Listers, TypeOK
<1>. QED  BY <1>1, <1>2, <1>3, <1>4

LEMMA ListedKept ==
  ASSUME ListAlone, IInv, KInv, NEW c \in Caller, Listed(c)
  PROVE  KInv'
<1>. USE SchedulerAssumption DEF Listed, Return, CallTo, Has, Listing, entryVars, fileVars, runVars, listVars, countVars, lifeVars, notJobs, IInv, KInv
<1>1. StoredInv'
  BY DEF StoredInv, TypeOK, Entry, CallInv, ListInv, FoundInv, PrivateInv
<1>2. AloneInv'
  BY DEF AloneInv, Listers, TypeOK
<1>3. FoundInv'
  BY DEF FoundInv, AloneInv, StoredInv, Listers, TypeOK
<1>4. DroppingInv'
  BY DEF DroppingInv, Listers, TypeOK
<1>. QED  BY <1>1, <1>2, <1>3, <1>4

\* Only a file that can be read keeps a job stored over a restart.
LEMMA RestartKept ==
  ASSUME IInv, KInv, Restart
  PROVE  KInv'
<1>. USE SchedulerAssumption DEF IInv, KInv
<1>1. AloneInv' /\ FoundInv' /\ DroppingInv'
  BY DEF Restart, AloneInv, FoundInv, DroppingInv, Listers
<1>2. StoredInv'
  <2>. SUFFICES ASSUME NEW j \in Job, stored'[j]
       PROVE  /\ jobs'[j] # Absent /\ jobs'[j].cron \notin Invalid
              /\ written' => file'[j] # Absent /\ file'[j].cron \notin Invalid
    BY DEF StoredInv, Has
  <2>1. StartWith(file, written) /\ written /\ stored[j]
    BY DEF Restart, StartWith, TypeOK
  <2>2. PICK task \in Uuids : jobs' = Loaded(file, task)
    BY <2>1 DEF StartWith
  <2>3. file[j] \in Saved /\ file[j].cron \notin Invalid /\ file[j] # Absent
    BY <2>1 DEF StoredInv, TypeOK
  <2>4. task[j] \in TaskId
    BY DEF Uuids
  <2>5. jobs'[j] = [cron |-> file[j].cron, paused |-> file[j].paused,
                    running |-> FALSE, task |-> task[j]]
    BY <2>2, <2>3 DEF Loaded
  <2>6. jobs'[j] \in Entry /\ jobs'[j].cron \notin Invalid
    BY <2>3, <2>4, <2>5 DEF Saved, Entry
  <2>7. [file[j] EXCEPT !.running = FALSE] \in Saved
        /\ [file[j] EXCEPT !.running = FALSE].cron \notin Invalid
    BY <2>3 DEF Saved
  <2>8. written' => file'[j] \in {file[j], [file[j] EXCEPT !.running = FALSE]}
    BY <2>1, <2>3 DEF StartWith, LoseFile, Cleared
  <2>. QED  BY <2>3, <2>6, <2>7, <2>8 DEF Entry, Saved
<1>. QED  BY <1>1, <1>2

LEMMA InitKept == Init => KInv
<1>. SUFFICES ASSUME Init PROVE KInv
  OBVIOUS
<1>. USE SchedulerAssumption DEF Init
<1>1. AloneInv /\ FoundInv /\ DroppingInv
  BY DEF AloneInv, FoundInv, DroppingInv, Listers
<1>2. StoredInv
  <2>. SUFFICES ASSUME NEW j \in Job, stored[j]
       PROVE  /\ jobs[j] # Absent /\ jobs[j].cron \notin Invalid
              /\ file[j] # Absent /\ file[j].cron \notin Invalid
    BY DEF StoredInv, Has
  <2>1. PICK task \in Uuids : jobs = Loaded(file, task)
    OBVIOUS
  <2>2. file[j] \in Saved /\ file[j].cron \notin Invalid /\ file[j] # Absent
    BY DEF Saved
  <2>3. task[j] \in TaskId
    BY DEF Uuids
  <2>4. jobs[j] = [cron |-> file[j].cron, paused |-> file[j].paused,
                   running |-> FALSE, task |-> task[j]]
    BY <2>1, <2>2 DEF Loaded
  <2>5. jobs[j] \in Entry /\ jobs[j].cron \notin Invalid
    BY <2>2, <2>3, <2>4 DEF Saved, Entry
  <2>. QED  BY <2>2, <2>5 DEF Entry
<1>. QED  BY <1>1, <1>2 DEF KInv

LEMMA StepKept == IInv /\ KeptInv /\ [Next]_vars => KeptInv'
<1>. SUFFICES ASSUME ListAlone, IInv, KInv, [Next]_vars PROVE KInv'
  BY DEF KeptInv
<1>1. CASE UNCHANGED vars
  <2>1. SameJobs
    BY <1>1 DEF vars, entryVars, SameJobs, Has
  <2>. QED  BY <1>1, <2>1, KeptFrame DEF vars, entryVars, IInv
<1>2. ASSUME NEW r \in Run,
             \/ Execution(r) \/ MarkNotPersisted(r)
             \/ \E t \in TaskId : Fire(r, t)
             \/ \E j \in Job : RunNow(r, j)
      PROVE  KInv'
  BY <1>2, RunKept
<1>3. ASSUME NEW c \in Caller, Serve(c) \/ List(c)
      PROVE  KInv'
  BY <1>3, RegisterKept, InsertKept, UnregisterKept, ReplaceKept, RenewKept,
     SwapKept, CancelRunKept, ClearKept, PersistKept, NotPersistedKept,
     RequestDroppedKept, CompareKept, AdoptKept, AdoptedKept, ForgetKept, ForgottenKept,
     ListedKept, ListKept DEF Serve
<1>4. ASSUME NEW c \in Caller, NEW j \in Job, Ask(c, j)
      PROVE  KInv'
  BY <1>4, RemoveKept, KillKept, SetPausedKept, AddKept, UpdateKept DEF Ask
<1>5. CASE Restart
  BY <1>5, RestartKept
<1>. QED  BY <1>1, <1>2, <1>3, <1>4, <1>5 DEF Next

LEMMA Kept == Spec => []KeptInv
<1>1. Init => KeptInv
  BY InitKept DEF KeptInv
<1>. QED  BY <1>1, InitInv, StepInv, StepKept, PTL DEF Spec

\* Where jobs are listed alone, a job that was added and not removed survives
\* failed and torn writes, dropped requests, listings and restarts: it is in the
\* map, and in the file whenever that can be read, and only a process that finds
\* the file torn starts without it (scheduler.rs persist_jobs and
\* load_jobs_from_storage).
THEOREM NothingIsLost ==
  ASSUME ListAlone
  PROVE  Spec => []NothingLost
<1>1. KeptInv => NothingLost
  BY DEF KeptInv, KInv, StoredInv, NothingLost
<1>. QED  BY <1>1, Kept, PTL

-----------------------------------------------------------------------------
(* Whoever changes an entry writes the file later, and holds until then a     *)
(* place in the code from which nothing but a fault leads past the write.     *)

\* The map and the file know the same jobs, but those a load has skipped.
SameKeys(j) == IF Has(j) THEN file[j] # Absent
                         ELSE file[j] = Absent \/ file[j].cron \in Invalid

KeyWriter(c, j) == cjob[c] = j /\ cpc[c] \in {"stored", "unregister", "persist"}

KeyInv == \A j \in Job : SameKeys(j) \/ \E c \in Caller : KeyWriter(c, j)

\* So a listing, which finds nobody at work, has nothing to add or to drop.
OnDiskInv == \A c \in Caller : cpc[c] = "compare" =>
    \A j \in Job : IF Has(j) THEN onDisk[j] # Absent
                             ELSE onDisk[j] = Absent \/ onDisk[j].cron \in Invalid

NothingToSync ==
    /\ \A c \in Caller : cpc[c] \notin {"adopt", "forget"}
    /\ \A j \in adding : onDisk[j].cron \in Invalid
    /\ \A j \in Job : dropping[j] = Absent

Agrees(j) == \/ file[j] = ToSave(jobs[j])
             \/ Has(j) /\ jobs[j].cron \in Invalid
             \/ ~Has(j) /\ file[j].cron \in Invalid

RunWriter(r, j) == rjob[r] = j /\ rpc[r] \in {"marked", "persist"}

CallWriter(c, j) ==
    /\ cjob[c] = j
    /\ \/ cpc[c] \in {"stored", "unregister", "persist", "swap"}
       \/ cpc[c] \in {"replace", "renew"} /\ ccron[c] \notin Invalid

\* A run_now that was dropped has left its job for the next write.
OnItsWay(j) == \/ \E r \in Run : RunWriter(r, j)
               \/ \E c \in Caller : CallWriter(c, j)
               \/ j \in left

FileInv == \A j \in Job : Agrees(j) \/ OnItsWay(j)

Flagging == {"marked", "token", "exec", "unmark"}

FlagInv == \A j \in Job \ left : Working(j) =>
    \E r \in Run : rjob[r] = j /\ rpc[r] \in Flagging

SyncInv == OnDiskInv /\ NothingToSync
WInv == KeyInv /\ SyncInv /\ FileInv /\ FlagInv

WrittenInv == ListAlone /\ faults = 0 => WInv

-----------------------------------------------------------------------------
(* Frames: what a step has to show of the entries it touches. *)

LEMMA FileFrame ==
  ASSUME FileInv, NEW S, UNCHANGED <<fileVars, left>>,
         \A j \in Job : j \notin S => jobs'[j] = jobs[j],
         \A j \in Job : j \in S => Agrees(j)' \/ OnItsWay(j)',
         \A j \in Job, r \in Run : j \notin S /\ RunWriter(r, j) => RunWriter(r, j)',
         \A j \in Job, c \in Caller : j \notin S /\ CallWriter(c, j) => CallWriter(c, j)'
  PROVE  FileInv'
<1>. SUFFICES ASSUME NEW j \in Job, j \notin S PROVE Agrees(j)' \/ OnItsWay(j)'
  BY DEF FileInv
<1>1. CASE Agrees(j)
  BY <1>1 DEF Agrees, fileVars, Has, ToSave
<1>2. CASE OnItsWay(j)
  BY <1>2 DEF OnItsWay
<1>. QED  BY <1>1, <1>2 DEF FileInv

LEMMA KeyFrame ==
  ASSUME KeyInv, NEW S, UNCHANGED fileVars,
         \A j \in Job : j \notin S => (Has(j)' <=> Has(j)),
         \A j \in Job : j \in S => \E c \in Caller : KeyWriter(c, j)',
         \A j \in Job, c \in Caller : j \notin S /\ KeyWriter(c, j) => KeyWriter(c, j)'
  PROVE  KeyInv'
BY DEF KeyInv, SameKeys, fileVars

LEMMA FlagFrame ==
  ASSUME FlagInv, UNCHANGED <<rpc, rjob, left>>, \A j \in Job : Working(j)' => Working(j)
  PROVE  FlagInv'
BY DEF FlagInv

LEMMA SyncFrame ==
  ASSUME SyncInv, UNCHANGED listVars,
         \/ \A d \in Caller : cpc'[d] \notin Listers
         \/ UNCHANGED cpc /\ \A j \in Job : Has(j)' <=> Has(j)
  PROVE  SyncInv'
BY DEF SyncInv, OnDiskInv, NothingToSync, listVars, Listers

\* After the file is written nothing differs.
LEMMA WriteFrame ==
  ASSUME TypeOK, PersistJobs, UNCHANGED jobs
  PROVE  KeyInv' /\ FileInv'
<1>1. \A j \in Job : file'[j] = ToSave(jobs[j])
  BY DEF PersistJobs
<1>2. \A j \in Job : Has(j) => ToSave(jobs[j]) # Absent
  BY SavedRecord DEF TypeOK, Has
<1>3. \A j \in Job : ~Has(j) => ToSave(jobs[j]) = Absent
  BY DEF Has, ToSave
<1>. QED  BY <1>1, <1>2, <1>3 DEF KeyInv, SameKeys, FileInv, Agrees, Has

\* The map, the file and the flags stay, and so does whoever is to write.
LEMMA StillFrame ==
  ASSUME WInv, UNCHANGED <<jobs, fileVars, left>>, SyncInv',
         \A j \in Job, r \in Run : RunWriter(r, j) => RunWriter(r, j)',
         \A j \in Job, c \in Caller : CallWriter(c, j) => CallWriter(c, j)',
         \A j \in Job, c \in Caller : KeyWriter(c, j) => KeyWriter(c, j)',
         \A j \in Job, r \in Run : rjob[r] = j /\ rpc[r] \in Flagging
                                   => rjob'[r] = j /\ rpc'[r] \in Flagging
  PROVE  WInv'
<1>1. KeyInv'
  <2>. SUFFICES ASSUME NEW j \in Job PROVE SameKeys(j)' \/ \E c \in Caller : KeyWriter(c, j)'
    BY DEF KeyInv
  <2>. QED  BY DEF WInv, KeyInv, SameKeys, Has, fileVars
<1>2. FileInv'
  <2>. SUFFICES ASSUME NEW j \in Job PROVE Agrees(j)' \/ OnItsWay(j)'
    BY DEF FileInv
  <2>1. CASE Agrees(j)
    BY <2>1 DEF Agrees, Has, ToSave, fileVars
  <2>2. CASE OnItsWay(j)
    BY <2>2 DEF OnItsWay
  <2>. QED  BY <2>1, <2>2 DEF WInv, FileInv
<1>3. FlagInv'
  BY DEF WInv, FlagInv, Working, Has
<1>. QED  BY <1>1, <1>2, <1>3 DEF WInv

-----------------------------------------------------------------------------
(* The runs. *)

LEMMA MarkWritten ==
  ASSUME IInv, WInv, NEW r \in Run, Mark(r)
  PROVE  WInv'
<1>. USE DEF Mark, RunTo, IInv, WInv, callVars, listVars, fileVars, countVars, lifeVars, TypeOK
<1>1. rjob[r] \in Job /\ rpc'[r] = "marked"
  BY DEF RunInv
<1>2. \A j \in Job : (Has(j)' <=> Has(j)) /\ (j # rjob[r] => jobs'[j] = jobs[j])
  <2>1. CASE Has(rjob[r])
    <3>1. SameJobs
      BY <1>1, <2>1, FlagTypes
    <3>. QED  BY <3>1 DEF SameJobs, Has
  <2>2. CASE ~Has(rjob[r])
    BY <2>2 DEF Has
  <2>. QED  BY <2>1, <2>2
<1>3. KeyInv'
  BY <1>2 DEF KeyInv, SameKeys, KeyWriter
<1>4. SyncInv'
  BY <1>2, SyncFrame
<1>5. FileInv'
  <2>. DEFINE S == {rjob[r]}
  <2>1. \A j \in Job : j \in S => Agrees(j)' \/ OnItsWay(j)'
    BY <1>1 DEF OnItsWay, RunWriter
  <2>2. \A j \in Job, q \in Run : j \notin S /\ RunWriter(q, j) => RunWriter(q, j)'
    BY DEF RunWriter
  <2>3. \A j \in Job, c \in Caller : j \notin S /\ CallWriter(c, j) => CallWriter(c, j)'
    BY DEF CallWriter
  <2>4. \A j \in Job : j \notin S => jobs'[j] = jobs[j]
    BY <1>2
  <2>. HIDE DEF S
  <2>. QED  BY <2>1, <2>2, <2>3, <2>4, FileFrame
<1>6. FlagInv'
  <2>. SUFFICES ASSUME NEW j \in Job \ left, Working(j)'
       PROVE  \E q \in Run : rjob'[q] = j /\ rpc'[q] \in Flagging
    BY DEF FlagInv
  <2>1. CASE j = rjob[r]
    BY <1>1, <2>1 DEF Flagging
  <2>2. CASE j # rjob[r]
    <3>1. Working(j)
      BY <1>2, <2>2 DEF Working, Has
    <3>2. PICK q \in Run : rjob[q] = j /\ rpc[q] \in Flagging
      BY <3>1 DEF FlagInv
    <3>. QED  BY <2>2, <3>2
  <2>. QED  BY <2>1, <2>2
<1>. QED  BY <1>3, <1>4, <1>5, <1>6

LEMMA RunNowWritten ==
  ASSUME IInv, WInv, NEW r \in Run, NEW i \in Job, RunNow(r, i)
  PROVE  WInv'
<1>. USE DEF RunNow, RunTo, IInv, WInv, callVars, listVars, fileVars, countVars, lifeVars, TypeOK
<1>1. rjob'[r] = i /\ rpc'[r] = "marked"
  OBVIOUS
<1>2. \A j \in Job : (Has(j)' <=> Has(j)) /\ (j # i => jobs'[j] = jobs[j])
  <2>1. SameJobs
    BY FlagTypes
  <2>. QED  BY <2>1 DEF SameJobs, Has
<1>3. KeyInv'
  BY <1>2 DEF KeyInv, SameKeys, KeyWriter
<1>4. SyncInv'
  BY <1>2, SyncFrame
<1>5. FileInv'
  <2>. DEFINE S == {i}
  <2>1. \A j \in Job : j \in S => Agrees(j)' \/ OnItsWay(j)'
    BY <1>1 DEF OnItsWay, RunWriter
  <2>2. \A j \in Job, q \in Run : j \notin S /\ RunWriter(q, j) => RunWriter(q, j)'
    BY DEF RunWriter
  <2>3. \A j \in Job, c \in Caller : j \notin S /\ CallWriter(c, j) => CallWriter(c, j)'
    BY DEF CallWriter
  <2>4. \A j \in Job : j \notin S => jobs'[j] = jobs[j]
    BY <1>2
  <2>. HIDE DEF S
  <2>. QED  BY <2>1, <2>2, <2>3, <2>4, FileFrame
<1>6. FlagInv'
  <2>. SUFFICES ASSUME NEW j \in Job \ left, Working(j)'
       PROVE  \E q \in Run : rjob'[q] = j /\ rpc'[q] \in Flagging
    BY DEF FlagInv
  <2>1. CASE j = i
    BY <1>1, <2>1 DEF Flagging
  <2>2. CASE j # i
    <3>1. Working(j)
      BY <1>2, <2>2 DEF Working, Has
    <3>2. PICK q \in Run : rjob[q] = j /\ rpc[q] \in Flagging
      BY <3>1 DEF FlagInv
    <3>. QED  BY <3>2 DEF Flagging
  <2>. QED  BY <2>1, <2>2
<1>. QED  BY <1>3, <1>4, <1>5, <1>6

LEMMA UnmarkWritten ==
  ASSUME IInv, WInv, NEW r \in Run, Unmark(r)
  PROVE  WInv'
<1>. USE DEF Unmark, RunTo, IInv, WInv, callVars, listVars, fileVars, countVars, lifeVars, TypeOK
<1>1. rjob[r] \in Job /\ rpc'[r] = "persist"
  BY DEF RunInv
<1>2. \A j \in Job : (Has(j)' <=> Has(j)) /\ (j # rjob[r] => jobs'[j] = jobs[j])
  <2>1. CASE Has(rjob[r])
    <3>1. SameJobs
      BY <1>1, <2>1, FlagTypes
    <3>. QED  BY <3>1 DEF SameJobs, Has
  <2>2. CASE ~Has(rjob[r])
    BY <2>2 DEF Has
  <2>. QED  BY <2>1, <2>2
<1>3. KeyInv'
  BY <1>2 DEF KeyInv, SameKeys, KeyWriter
<1>4. SyncInv'
  BY <1>2, SyncFrame
<1>5. FileInv'
  <2>. DEFINE S == {rjob[r]}
  <2>1. \A j \in Job : j \in S => Agrees(j)' \/ OnItsWay(j)'
    BY <1>1 DEF OnItsWay, RunWriter
  <2>2. \A j \in Job, q \in Run : j \notin S /\ RunWriter(q, j) => RunWriter(q, j)'
    BY DEF RunWriter
  <2>3. \A j \in Job, c \in Caller : j \notin S /\ CallWriter(c, j) => CallWriter(c, j)'
    BY DEF CallWriter
  <2>4. \A j \in Job : j \notin S => jobs'[j] = jobs[j]
    BY <1>2
  <2>. HIDE DEF S
  <2>. QED  BY <2>1, <2>2, <2>3, <2>4, FileFrame
<1>6. FlagInv'
  <2>. SUFFICES ASSUME NEW j \in Job \ left, Working(j)'
       PROVE  \E q \in Run : rjob'[q] = j /\ rpc'[q] \in Flagging
    BY DEF FlagInv
  <2>1. j # rjob[r]
    BY DEF Working, Has, Entry
  <2>2. Working(j)
    BY <1>2, <2>1 DEF Working, Has
  <2>3. PICK q \in Run : rjob[q] = j /\ rpc[q] \in Flagging
    BY <2>2 DEF FlagInv
  <2>. QED  BY <2>1, <2>3
<1>. QED  BY <1>3, <1>4, <1>5, <1>6

\* A dropped run takes its job out of what is promised of the others.
LEMMA RunDroppedWritten ==
  ASSUME IInv, WInv, NEW r \in Run, RunDropped(r)
  PROVE  WInv'
<1>. USE DEF RunDropped, RunTo, Over, IInv, WInv, entryVars, callVars, listVars, fileVars, TypeOK
<1>1. /\ left' = left \cup {rjob[r]} /\ UNCHANGED <<jobs, file, cpc, cjob, ccron>>
      /\ \A q \in Run : q # r => rjob'[q] = rjob[q] /\ rpc'[q] = rpc[q]
  OBVIOUS
<1>2. SyncInv'
  BY SyncFrame DEF Has
<1>3. KeyInv'
  BY DEF KeyInv, SameKeys, KeyWriter, Has
<1>4. FileInv'
  <2>. SUFFICES ASSUME NEW j \in Job, ~Agrees(j)' PROVE OnItsWay(j)'
    BY DEF FileInv
  <2>1. OnItsWay(j)
    BY DEF FileInv, Agrees, Has, ToSave
  <2>2. ASSUME NEW q \in Run, RunWriter(q, j)
        PROVE  RunWriter(q, j)' \/ j \in left'
    BY <1>1, <2>2 DEF RunWriter
  <2>3. ASSUME NEW c \in Caller, CallWriter(c, j)
        PROVE  CallWriter(c, j)'
    BY <1>1, <2>3 DEF CallWriter
  <2>. QED  BY <1>1, <2>1, <2>2, <2>3 DEF OnItsWay
<1>5. FlagInv'
  <2>. SUFFICES ASSUME NEW j \in Job \ left', Working(j)'
       PROVE  \E q \in Run : rjob'[q] = j /\ rpc'[q] \in Flagging
    BY DEF FlagInv
  <2>1. PICK q \in Run : rjob[q] = j /\ rpc[q] \in Flagging
    BY DEF FlagInv, Working, Has
  <2>. QED  BY <1>1, <2>1
<1>. QED  BY <1>2, <1>3, <1>4, <1>5

LEMMA RunWritten ==
  ASSUME IInv, WInv, NEW r \in Run, faults' = 0,
         \/ Execution(r) \/ MarkNotPersisted(r)
         \/ \E t \in TaskId : Fire(r, t)
         \/ \E j \in Job : RunNow(r, j)
  PROVE  WInv'
<1>. USE DEF entryVars, callVars, countVars, lifeVars, IInv
<1>1. CASE PersistMark(r) \/ PersistEnd(r)
  <2>1. PersistJobs /\ UNCHANGED <<jobs, callVars>>
    BY <1>1 DEF PersistMark, PersistEnd, FailWrite, TypeOK
  <2>2. SyncInv'
    BY <2>1, SyncFrame DEF WInv, Has
  <2>3. FlagInv'
    BY <1>1, <2>1 DEF WInv, FlagInv, Flagging, Working, Has, PersistMark,
                      PersistEnd, RunTo, Over, TypeOK
  <2>. QED  BY <2>1, <2>2, <2>3, WriteFrame DEF WInv
<1>2. CASE InsertToken(r) \/ Executed(r) \/ \E t \in TaskId : Fire(r, t)
  <2>1. UNCHANGED <<jobs, fileVars, callVars, left>>
    BY <1>2 DEF InsertToken, Executed, Fire
  <2>2. SyncInv'
    BY <2>1, SyncFrame DEF WInv, Has
  <2>3. \A j \in Job, q \in Run : RunWriter(q, j) => RunWriter(q, j)'
    BY <1>2 DEF RunWriter, InsertToken, Executed, Fire, RunTo, TypeOK
  <2>4. \A j \in Job, q \in Run : rjob[q] = j /\ rpc[q] \in Flagging
                                  => rjob'[q] = j /\ rpc'[q] \in Flagging
    BY <1>2 DEF Flagging, InsertToken, Executed, Fire, RunTo, TypeOK
  <2>5. \A j \in Job, c \in Caller : CallWriter(c, j) => CallWriter(c, j)'
    BY <2>1 DEF CallWriter
  <2>6. \A j \in Job, c \in Caller : KeyWriter(c, j) => KeyWriter(c, j)'
    BY <2>1 DEF KeyWriter
  <2>. QED  BY <2>1, <2>2, <2>3, <2>4, <2>5, <2>6, StillFrame
<1>3. CASE MarkNotPersisted(r)
  BY <1>3 DEF MarkNotPersisted, FailWrite, TypeOK
<1>. QED  BY <1>1, <1>2, <1>3, MarkWritten, UnmarkWritten, RunNowWritten, RunDroppedWritten
          DEF Execution

-----------------------------------------------------------------------------
(* The requests.  While one that is not a listing is served nobody lists. *)

LEMMA NobodyLists ==
  ASSUME TypeOK, AloneInv, NEW c \in Caller, cpc[c] \notin Listers \cup {"idle"},
         NEW l \in CPC \ Listers, cpc' = [cpc EXCEPT ![c] = l]
  PROVE  \A d \in Caller : cpc'[d] \notin Listers
BY DEF TypeOK, AloneInv, Listers

LEMMA NobodyAsked ==
  ASSUME TypeOK, ~Listing, NEW c \in Caller,
         NEW l \in CPC \ Listers, cpc' = [cpc EXCEPT ![c] = l]
  PROVE  \A d \in Caller : cpc'[d] \notin Listers
BY DEF TypeOK, Listing, Listers

\* The other callers stay where they are.
Others(c) == \A d \in Caller : d # c =>
    cjob'[d] = cjob[d] /\ cpc'[d] = cpc[d] /\ ccron'[d] = ccron[d]

ToWrite == {"stored", "unregister", "persist"}

\* A step that changes the entry of job k only, with a write to come, or that
\* leaves an expression that does not parse.
LEMMA CallFrame ==
  ASSUME TypeOK, WInv, NEW c \in Caller, NEW k \in Job,
         UNCHANGED <<fileVars, rpc, rjob, listVars, left>>, Others(c),
         \A d \in Caller : cpc'[d] \notin Listers,
         \A j \in Job : j # k => jobs'[j] = jobs[j],
         Working(k)' => Working(k),
         cjob'[c] = k,
         \/ cpc'[c] \in ToWrite
         \/ Has(k)' /\ Has(k) /\ (Agrees(k)' \/ CallWriter(c, k)') /\ cpc[c] \notin ToWrite,
         cpc[c] \in ToWrite \cup Renewing => cjob[c] = k
  PROVE  WInv'
<1>. DEFINE S == {k}
<1>1. \A j \in Job : j \notin S => jobs'[j] = jobs[j]
  OBVIOUS
<1>2. FileInv'
  <2>1. \A j \in Job : j \in S => Agrees(j)' \/ OnItsWay(j)'
    BY DEF OnItsWay, CallWriter, ToWrite
  <2>2. \A j \in Job, q \in Run : j \notin S /\ RunWriter(q, j) => RunWriter(q, j)'
    BY DEF RunWriter
  <2>3. \A j \in Job, d \in Caller : j \notin S /\ CallWriter(d, j) => CallWriter(d, j)'
    BY DEF CallWriter, ToWrite, Others, Renewing
  <2>. HIDE DEF S
  <2>. QED  BY <1>1, <2>1, <2>2, <2>3, FileFrame DEF WInv
<1>3. KeyInv'
  <2>1. CASE cpc'[c] \in ToWrite
    <3>1. \A j \in Job : j \in S => \E d \in Caller : KeyWriter(d, j)'
      BY <2>1 DEF KeyWriter, ToWrite
    <3>2. \A j \in Job, d \in Caller : j \notin S /\ KeyWriter(d, j) => KeyWriter(d, j)'
      BY DEF KeyWriter, ToWrite, Others
    <3>3. \A j \in Job : j \notin S => (Has(j)' <=> Has(j))
      BY DEF Has
    <3>. HIDE DEF S
    <3>. QED  BY <3>1, <3>2, <3>3, KeyFrame DEF WInv
  <2>2. CASE cpc'[c] \notin ToWrite
    <3>1. \A j \in Job, d \in Caller : KeyWriter(d, j) => KeyWriter(d, j)'
      BY <2>2 DEF KeyWriter, ToWrite, Others
    <3>2. \A j \in Job : Has(j)' <=> Has(j)
      BY <2>2 DEF Has
    <3>. QED  BY <3>1, <3>2 DEF WInv, KeyInv, SameKeys, fileVars
  <2>. QED  BY <2>1, <2>2
<1>4. FlagInv'
  <2>1. \A j \in Job : Working(j)' => Working(j)
    BY DEF Working, Has
  <2>. QED  BY <2>1, FlagFrame DEF WInv
<1>. QED  BY <1>2, <1>3, <1>4, SyncFrame DEF WInv

\* A step that changes no entry.
LEMMA LookFrame ==
  ASSUME TypeOK, WInv, NEW c \in Caller, Others(c),
         UNCHANGED <<jobs, fileVars, rpc, rjob, listVars, left>>,
         \A d \in Caller : cpc'[d] \notin Listers,
         \A j \in Job : CallWriter(c, j) => CallWriter(c, j)',
         \A j \in Job : KeyWriter(c, j) => KeyWriter(c, j)'
  PROVE  WInv'
<1>1. SyncInv'
  BY SyncFrame DEF WInv
<1>2. \A j \in Job, d \in Caller : CallWriter(d, j) => CallWriter(d, j)'
  BY DEF CallWriter, Others
<1>3. \A j \in Job, d \in Caller : KeyWriter(d, j) => KeyWriter(d, j)'
  BY DEF KeyWriter, Others
<1>4. \A j \in Job, r \in Run : RunWriter(r, j) => RunWriter(r, j)'
  BY DEF RunWriter
<1>. QED  BY <1>1, <1>2, <1>3, <1>4, StillFrame

LEMMA AddWritten ==
  ASSUME ListAlone, IInv, AloneInv, WInv, NEW c \in Caller, NEW i \in Job, NEW cron \in Cron, Add(c, i, cron)
  PROVE  WInv'
<1>. USE DEF Add, Request, CallTo, entryVars, fileVars, runVars,
         listVars, countVars, lifeVars, notJobs, callVars, IInv
<1>1. \A d \in Caller : cpc'[d] \notin Listers
  BY NobodyAsked DEF Listing, Listers, CPC, CallInv, TypeOK
<1>2. Others(c)
  BY DEF Others, TypeOK
<1>3. \A j \in Job : CallWriter(c, j) => CallWriter(c, j)'
  BY DEF CallWriter, TypeOK
<1>4. \A j \in Job : KeyWriter(c, j) => KeyWriter(c, j)'
  BY DEF KeyWriter, TypeOK
<1>. QED  BY <1>1, <1>2, <1>3, <1>4, LookFrame

LEMMA RegisterWritten ==
  ASSUME ListAlone, IInv, AloneInv, WInv, NEW c \in Caller, Register(c)
  PROVE  WInv'
<1>. USE DEF Register, NewTask, Return, CallTo, entryVars, fileVars, runVars,
         listVars, countVars, lifeVars, notJobs, callVars, IInv
<1>1. \A d \in Caller : cpc'[d] \notin Listers
  BY NobodyLists DEF Listing, Listers, CPC, CallInv, TypeOK
<1>2. Others(c)
  BY DEF Others, TypeOK
<1>3. \A j \in Job : CallWriter(c, j) => CallWriter(c, j)'
  BY DEF CallWriter, TypeOK
<1>4. \A j \in Job : KeyWriter(c, j) => KeyWriter(c, j)'
  BY DEF KeyWriter, TypeOK
<1>. QED  BY <1>1, <1>2, <1>3, <1>4, LookFrame

LEMMA InsertWritten ==
  ASSUME ListAlone, IInv, AloneInv, WInv, NEW c \in Caller, Insert(c)
  PROVE  WInv'
<1>. USE DEF Insert, CallTo, entryVars, fileVars, runVars,
         listVars, countVars, lifeVars, notJobs, callVars, IInv
<1>0. PICK k \in Job : k = cjob[c]
  BY DEF CallInv
<1>. USE <1>0
<1>1. \A d \in Caller : cpc'[d] \notin Listers
  BY NobodyLists DEF Listing, Listers, CPC, CallInv, TypeOK
<1>2. Others(c)
  BY DEF Others, TypeOK
<1>3. TypeOK /\ k \in Job /\ cjob'[c] = k /\ UNCHANGED <<fileVars, rpc, rjob, listVars, left>>
  BY DEF CallInv, TypeOK
<1>4. \A j \in Job : j # k => jobs'[j] = jobs[j]
  BY DEF TypeOK
<1>5. cpc[c] \in ToWrite \cup Renewing => cjob[c] = k
  BY DEF ToWrite, Renewing
<1>6. cpc'[c] \in ToWrite
  BY DEF TypeOK, ToWrite
<1>7. Working(k)' => Working(k)
  <2>. DEFINE e == [cron |-> ccron[c], paused |-> FALSE, running |-> FALSE, task |-> ctask[c]]
  <2>1. jobs'[k] = e /\ e.running = FALSE
    BY <1>3 DEF TypeOK
  <2>. QED  BY <2>1 DEF Working
<1>. HIDE DEF Insert, CallTo, entryVars, fileVars, runVars, listVars,
              countVars, lifeVars, notJobs, callVars, IInv
<1>. QED  BY <1>1, <1>2, <1>3, <1>4, <1>5, <1>6, <1>7, CallFrame

LEMMA RemoveWritten ==
  ASSUME ListAlone, IInv, AloneInv, WInv, NEW c \in Caller, NEW i \in Job, Remove(c, i)
  PROVE  WInv'
<1>. USE DEF Remove, Request, CallTo, entryVars, fileVars, runVars,
         listVars, countVars, lifeVars, notJobs, callVars, IInv
<1>. DEFINE k == i
<1>1. \A d \in Caller : cpc'[d] \notin Listers
  BY NobodyAsked DEF Listing, Listers, CPC, CallInv, TypeOK
<1>2. Others(c)
  BY DEF Others, TypeOK
<1>3. TypeOK /\ k \in Job /\ cjob'[c] = k /\ UNCHANGED <<fileVars, rpc, rjob, listVars, left>>
  BY DEF CallInv, TypeOK
<1>4. \A j \in Job : j # k => jobs'[j] = jobs[j]
  BY DEF TypeOK
<1>5. cpc[c] \in ToWrite \cup Renewing => cjob[c] = k
  BY DEF ToWrite, Renewing
<1>6. cpc'[c] \in ToWrite
  BY DEF TypeOK, ToWrite
<1>7. Working(k)' => Working(k)
  BY DEF Working, Has, TypeOK
<1>. HIDE DEF k, Remove, Request, CallTo, entryVars, fileVars, runVars, listVars,
              countVars, lifeVars, notJobs, callVars, IInv
<1>. QED  BY <1>1, <1>2, <1>3, <1>4, <1>5, <1>6, <1>7, CallFrame

LEMMA UnregisterWritten ==
  ASSUME ListAlone, IInv, AloneInv, WInv, NEW c \in Caller, Unregister(c)
  PROVE  WInv'
<1>. USE DEF Unregister, DropTask, CallTo, entryVars, fileVars, runVars,
         listVars, countVars, lifeVars, notJobs, callVars, IInv
<1>1. \A d \in Caller : cpc'[d] \notin Listers
  BY NobodyLists DEF Listing, Listers, CPC, CallInv, TypeOK
<1>2. Others(c)
  BY DEF Others, TypeOK
<1>3. \A j \in Job : CallWriter(c, j) => CallWriter(c, j)'
  BY DEF CallWriter, TypeOK
<1>4. \A j \in Job : KeyWriter(c, j) => KeyWriter(c, j)'
  BY DEF KeyWriter, TypeOK
<1>. QED  BY <1>1, <1>2, <1>3, <1>4, LookFrame

LEMMA SetPausedWritten ==
  ASSUME ListAlone, IInv, AloneInv, WInv, NEW c \in Caller, NEW i \in Job, NEW p \in BOOLEAN, SetPaused(c, i, p)
  PROVE  WInv'
<1>. USE DEF SetPaused, Request, CallTo, entryVars, fileVars, runVars,
         listVars, countVars, lifeVars, notJobs, callVars, IInv
<1>. DEFINE k == i
<1>1. \A d \in Caller : cpc'[d] \notin Listers
  BY NobodyAsked DEF Listing, Listers, CPC, CallInv, TypeOK
<1>2. Others(c)
  BY DEF Others, TypeOK
<1>3. TypeOK /\ k \in Job /\ cjob'[c] = k /\ UNCHANGED <<fileVars, rpc, rjob, listVars, left>>
  BY DEF CallInv, TypeOK
<1>4. \A j \in Job : j # k => jobs'[j] = jobs[j]
  BY DEF TypeOK
<1>5. cpc[c] \in ToWrite \cup Renewing => cjob[c] = k
  BY DEF ToWrite, Renewing
<1>6. cpc'[c] \in ToWrite
  BY DEF TypeOK, ToWrite
<1>7. Working(k)' => Working(k)
  BY DEF Working, Has, TypeOK, Entry
<1>. HIDE DEF k, SetPaused, Request, CallTo, entryVars, fileVars, runVars, listVars,
              countVars, lifeVars, notJobs, callVars, IInv
<1>. QED  BY <1>1, <1>2, <1>3, <1>4, <1>5, <1>6, <1>7, CallFrame

LEMMA UpdateWritten ==
  ASSUME ListAlone, IInv, AloneInv, WInv, NEW c \in Caller, NEW i \in Job, NEW cron \in Cron, Update(c, i, cron)
  PROVE  WInv'
<1>. USE DEF Update, Request, CallTo, entryVars, fileVars, runVars,
         listVars, countVars, lifeVars, notJobs, callVars, IInv
<1>. DEFINE k == i
<1>1. \A d \in Caller : cpc'[d] \notin Listers
  BY NobodyAsked DEF Listing, Listers, CPC, CallInv, TypeOK
<1>2. Others(c)
  BY DEF Others, TypeOK
<1>3. TypeOK /\ k \in Job /\ cjob'[c] = k /\ UNCHANGED <<fileVars, rpc, rjob, listVars, left>>
  BY DEF CallInv, TypeOK
<1>4. \A j \in Job : j # k => jobs'[j] = jobs[j]
  BY DEF TypeOK
<1>5. cpc[c] \in ToWrite \cup Renewing => cjob[c] = k
  BY DEF ToWrite, Renewing
<1>8. jobs'[k] = [jobs[k] EXCEPT !.cron = cron] /\ jobs[k] \in Entry
  BY DEF TypeOK, Has
<1>9. jobs'[k] \in Entry /\ jobs'[k].cron = cron /\ jobs'[k].running = jobs[k].running
  BY <1>8 DEF Entry
<1>10. jobs'[k] # Absent
  BY <1>9, SchedulerAssumption DEF Entry
<1>6. Has(k)' /\ Has(k) /\ (Agrees(k)' \/ CallWriter(c, k)') /\ cpc[c] \notin ToWrite
  <2>1. cpc'[c] = "replace" /\ ccron'[c] = cron
    BY DEF TypeOK
  <2>. QED  BY <1>3, <1>9, <1>10, <2>1 DEF Has, Agrees, CallWriter, ToWrite
<1>7. Working(k)' => Working(k)
  BY <1>6, <1>9 DEF Working
<1>. HIDE DEF k, Update, Request, CallTo, entryVars, fileVars, runVars, listVars,
              countVars, lifeVars, notJobs, callVars, IInv
<1>. QED  BY <1>1, <1>2, <1>3, <1>4, <1>5, <1>6, <1>7, CallFrame

LEMMA ReplaceWritten ==
  ASSUME ListAlone, IInv, AloneInv, WInv, NEW c \in Caller, Replace(c)
  PROVE  WInv'
<1>. USE DEF Replace, DropTask, CallTo, entryVars, fileVars, runVars,
         listVars, countVars, lifeVars, notJobs, callVars, IInv
<1>1. \A d \in Caller : cpc'[d] \notin Listers
  BY NobodyLists DEF Listing, Listers, CPC, CallInv, TypeOK
<1>2. Others(c)
  BY DEF Others, TypeOK
<1>3. \A j \in Job : CallWriter(c, j) => CallWriter(c, j)'
  BY DEF CallWriter, TypeOK
<1>4. \A j \in Job : KeyWriter(c, j) => KeyWriter(c, j)'
  BY DEF KeyWriter, TypeOK
<1>. QED  BY <1>1, <1>2, <1>3, <1>4, LookFrame

LEMMA RenewWritten ==
  ASSUME ListAlone, IInv, AloneInv, WInv, NEW c \in Caller, Renew(c)
  PROVE  WInv'
<1>. USE DEF Renew, NewTask, Return, CallTo, entryVars, fileVars, runVars,
         listVars, countVars, lifeVars, notJobs, callVars, IInv
<1>1. \A d \in Caller : cpc'[d] \notin Listers
  BY NobodyLists DEF Listing, Listers, CPC, CallInv, TypeOK
<1>2. Others(c)
  BY DEF Others, TypeOK
<1>3. \A j \in Job : CallWriter(c, j) => CallWriter(c, j)'
  BY DEF CallWriter, TypeOK
<1>4. \A j \in Job : KeyWriter(c, j) => KeyWriter(c, j)'
  BY DEF KeyWriter, TypeOK
<1>. QED  BY <1>1, <1>2, <1>3, <1>4, LookFrame

LEMMA SwapInWritten ==
  ASSUME ListAlone, IInv, AloneInv, WInv, NEW c \in Caller, Swap(c), Has(cjob[c])
  PROVE  WInv'
<1>. USE DEF Swap, CallTo, entryVars, fileVars, runVars,
         listVars, countVars, lifeVars, notJobs, callVars, IInv
<1>0. PICK k \in Job : k = cjob[c]
  BY DEF CallInv
<1>. USE <1>0
<1>1. \A d \in Caller : cpc'[d] \notin Listers
  BY NobodyLists DEF Listing, Listers, CPC, CallInv, TypeOK
<1>2. Others(c)
  BY DEF Others, TypeOK
<1>3. TypeOK /\ k \in Job /\ cjob'[c] = k /\ UNCHANGED <<fileVars, rpc, rjob, listVars, left>>
  BY DEF CallInv, TypeOK
<1>4. \A j \in Job : j # k => jobs'[j] = jobs[j]
  BY DEF TypeOK
<1>5. cpc[c] \in ToWrite \cup Renewing => cjob[c] = k
  BY DEF ToWrite, Renewing
<1>6. cpc'[c] \in ToWrite
  BY DEF TypeOK, ToWrite
<1>7. Working(k)' => Working(k)
  BY DEF Working, Has, TypeOK, Entry
<1>. HIDE DEF Swap, CallTo, entryVars, fileVars, runVars, listVars,
              countVars, lifeVars, notJobs, callVars, IInv
<1>. QED  BY <1>1, <1>2, <1>3, <1>4, <1>5, <1>6, <1>7, CallFrame

LEMMA SwapOutWritten ==
  ASSUME ListAlone, IInv, AloneInv, WInv, NEW c \in Caller, Swap(c), ~Has(cjob[c])
  PROVE  WInv'
<1>. USE DEF Swap, CallTo, entryVars, fileVars, runVars,
         listVars, countVars, lifeVars, notJobs, callVars, IInv
<1>1. \A d \in Caller : cpc'[d] \notin Listers
  BY NobodyLists DEF Listing, Listers, CPC, CallInv, TypeOK
<1>2. Others(c)
  BY DEF Others, TypeOK
<1>3. \A j \in Job : CallWriter(c, j) => CallWriter(c, j)'
  BY DEF CallWriter, TypeOK
<1>4. \A j \in Job : KeyWriter(c, j) => KeyWriter(c, j)'
  BY DEF KeyWriter, TypeOK
<1>. QED  BY <1>1, <1>2, <1>3, <1>4, LookFrame

LEMMA KillWritten ==
  ASSUME ListAlone, IInv, AloneInv, WInv, NEW c \in Caller, NEW i \in Job, Kill(c, i)
  PROVE  WInv'
<1>. USE DEF Kill, Request, CallTo, entryVars, fileVars, runVars,
         listVars, countVars, lifeVars, notJobs, callVars, IInv
<1>1. \A d \in Caller : cpc'[d] \notin Listers
  BY NobodyAsked DEF Listing, Listers, CPC, CallInv, TypeOK
<1>2. Others(c)
  BY DEF Others, TypeOK
<1>3. \A j \in Job : CallWriter(c, j) => CallWriter(c, j)'
  BY DEF CallWriter, TypeOK
<1>4. \A j \in Job : KeyWriter(c, j) => KeyWriter(c, j)'
  BY DEF KeyWriter, TypeOK
<1>. QED  BY <1>1, <1>2, <1>3, <1>4, LookFrame

LEMMA CancelRunWritten ==
  ASSUME ListAlone, IInv, AloneInv, WInv, NEW c \in Caller, CancelRun(c)
  PROVE  WInv'
<1>. USE DEF CancelRun, CallTo, entryVars, fileVars, runVars,
         listVars, countVars, lifeVars, notJobs, callVars, IInv
<1>1. \A d \in Caller : cpc'[d] \notin Listers
  BY NobodyLists DEF Listing, Listers, CPC, CallInv, TypeOK
<1>2. Others(c)
  BY DEF Others, TypeOK
<1>3. \A j \in Job : CallWriter(c, j) => CallWriter(c, j)'
  BY DEF CallWriter, TypeOK
<1>4. \A j \in Job : KeyWriter(c, j) => KeyWriter(c, j)'
  BY DEF KeyWriter, TypeOK
<1>. QED  BY <1>1, <1>2, <1>3, <1>4, LookFrame

LEMMA ClearInWritten ==
  ASSUME ListAlone, IInv, AloneInv, WInv, NEW c \in Caller, Clear(c), Has(cjob[c])
  PROVE  WInv'
<1>. USE DEF Clear, CallTo, entryVars, fileVars, runVars,
         listVars, countVars, lifeVars, notJobs, callVars, IInv
<1>0. PICK k \in Job : k = cjob[c]
  BY DEF CallInv
<1>. USE <1>0
<1>1. \A d \in Caller : cpc'[d] \notin Listers
  BY NobodyLists DEF Listing, Listers, CPC, CallInv, TypeOK
<1>2. Others(c)
  BY DEF Others, TypeOK
<1>3. TypeOK /\ k \in Job /\ cjob'[c] = k /\ UNCHANGED <<fileVars, rpc, rjob, listVars, left>>
  BY DEF CallInv, TypeOK
<1>4. \A j \in Job : j # k => jobs'[j] = jobs[j]
  BY DEF TypeOK
<1>5. cpc[c] \in ToWrite \cup Renewing => cjob[c] = k
  BY DEF ToWrite, Renewing
<1>6. cpc'[c] \in ToWrite
  BY DEF TypeOK, ToWrite
<1>7. Working(k)' => Working(k)
  BY DEF Working, Has, TypeOK, Entry
<1>. HIDE DEF Clear, CallTo, entryVars, fileVars, runVars, listVars,
              countVars, lifeVars, notJobs, callVars, IInv
<1>. QED  BY <1>1, <1>2, <1>3, <1>4, <1>5, <1>6, <1>7, CallFrame

LEMMA ClearOutWritten ==
  ASSUME ListAlone, IInv, AloneInv, WInv, NEW c \in Caller, Clear(c), ~Has(cjob[c])
  PROVE  WInv'
<1>. USE DEF Clear, Return, CallTo, entryVars, fileVars, runVars,
         listVars, countVars, lifeVars, notJobs, callVars, IInv
<1>1. \A d \in Caller : cpc'[d] \notin Listers
  BY NobodyLists DEF Listing, Listers, CPC, CallInv, TypeOK
<1>2. Others(c)
  BY DEF Others, TypeOK
<1>3. \A j \in Job : CallWriter(c, j) => CallWriter(c, j)'
  BY DEF CallWriter, TypeOK
<1>4. \A j \in Job : KeyWriter(c, j) => KeyWriter(c, j)'
  BY DEF KeyWriter, TypeOK
<1>. QED  BY <1>1, <1>2, <1>3, <1>4, LookFrame

LEMMA PersistWritten ==
  ASSUME ListAlone, IInv, AloneInv, WInv, NEW c \in Caller, Persist(c)
  PROVE  WInv'
<1>. USE DEF Persist, Return, CallTo, entryVars, fileVars, runVars,
         listVars, countVars, lifeVars, notJobs, callVars, IInv
<1>1. \A d \in Caller : cpc'[d] \notin Listers
  BY NobodyLists DEF Listers, CPC
<1>2. SyncInv'
  BY <1>1, SyncFrame DEF WInv
<1>3. FlagInv'
  BY FlagFrame DEF WInv, Working, Has
<1>. QED  BY <1>2, <1>3, WriteFrame DEF WInv

-----------------------------------------------------------------------------
(* The listings. *)

LEMMA ListWritten ==
  ASSUME ListAlone, IInv, AloneInv, WInv, NEW c \in Caller, List(c)
  PROVE  WInv'
<1>. USE DEF List, CallTo, entryVars, runVars, countVars, lifeVars, IInv
<1>1. \A d \in Caller : cpc[d] = "idle"
  OBVIOUS
<1>2. \A d \in Caller : cpc'[d] \in {"idle", "compare"}
  BY <1>1 DEF TypeOK
<1>3. adding = {}
  BY <1>1 DEF ListInv, Listers
<1>4. \A j \in Job : SameKeys(j)
  BY <1>1 DEF WInv, KeyInv, KeyWriter
<1>5. SyncInv'
  <2>1. OnDiskInv'
    BY <1>4 DEF OnDiskInv, SameKeys, Has
  <2>2. NothingToSync'
    BY <1>2, <1>3 DEF WInv, SyncInv, NothingToSync
  <2>. QED  BY <2>1, <2>2 DEF SyncInv
<1>6. \A j \in Job, d \in Caller : ~CallWriter(d, j) /\ ~KeyWriter(d, j)
  BY <1>1 DEF CallWriter, KeyWriter
<1>7. \A j \in Job, r \in Run : RunWriter(r, j) => RunWriter(r, j)'
  BY DEF RunWriter
<1>. QED  BY <1>5, <1>6, <1>7, StillFrame

LEMMA CompareWritten ==
  ASSUME IInv, WInv, NEW c \in Caller, Compare(c)
  PROVE  WInv'
<1>. USE DEF Compare, CallTo, entryVars, runVars, countVars, lifeVars, IInv
<1>1. \A d \in Caller : cpc'[d] \notin {"compare", "adopt", "forget"}
  BY DEF ListInv, Listers, TypeOK
<1>2. SyncInv'
  <2>1. \A j \in Job : IF Has(j) THEN onDisk[j] # Absent
                                 ELSE onDisk[j] = Absent \/ onDisk[j].cron \in Invalid
    BY DEF WInv, SyncInv, OnDiskInv
  <2>2. \A j \in adding' : onDisk'[j].cron \in Invalid
    BY <2>1
  <2>3. \A j \in Job : dropping'[j] = Absent
    BY <2>1
  <2>. QED  BY <1>1, <2>2, <2>3 DEF SyncInv, OnDiskInv, NothingToSync
<1>3. \A j \in Job, d \in Caller : /\ CallWriter(d, j) => CallWriter(d, j)'
                                   /\ KeyWriter(d, j) => KeyWriter(d, j)'
  BY DEF CallWriter, KeyWriter, TypeOK
<1>4. \A j \in Job, r \in Run : RunWriter(r, j) => RunWriter(r, j)'
  BY DEF RunWriter
<1>. QED  BY <1>2, <1>3, <1>4, StillFrame

\* What is to be added is skipped: its expression does not parse.
LEMMA AdoptWritten ==
  ASSUME IInv, WInv, NEW c \in Caller, NEW i \in Job, Adopt(c, i)
  PROVE  WInv'
<1>. USE DEF Adopt, entryVars, runVars, countVars, lifeVars, IInv
<1>1. onDisk[i].cron \in Invalid
  BY DEF WInv, SyncInv, NothingToSync
<1>2. UNCHANGED <<jobs, fileVars, cpc, ccron, onDisk, dropping, rpc, rjob, left>>
  BY <1>1
<1>3. SyncInv'
  BY <1>2 DEF WInv, SyncInv, OnDiskInv, NothingToSync, Has
<1>4. \A j \in Job, d \in Caller : /\ CallWriter(d, j) => CallWriter(d, j)'
                                   /\ KeyWriter(d, j) => KeyWriter(d, j)'
  BY <1>2 DEF CallWriter, KeyWriter, TypeOK
<1>5. \A j \in Job, r \in Run : RunWriter(r, j) => RunWriter(r, j)'
  BY <1>2 DEF RunWriter
<1>. QED  BY <1>2, <1>3, <1>4, <1>5, StillFrame

LEMMA ListedWritten ==
  ASSUME IInv, WInv, NEW c \in Caller, Listed(c)
  PROVE  WInv'
<1>. USE DEF Listed, Return, CallTo, entryVars, runVars, countVars, lifeVars, IInv
<1>1. \A d \in Caller : cpc'[d] \notin Listers
  BY DEF ListInv, Listers, TypeOK
<1>2. SyncInv'
  BY <1>1 DEF WInv, SyncInv, OnDiskInv, NothingToSync, Listers
<1>3. \A j \in Job, d \in Caller : /\ CallWriter(d, j) => CallWriter(d, j)'
                                   /\ KeyWriter(d, j) => KeyWriter(d, j)'
  BY DEF CallWriter, KeyWriter, TypeOK
<1>4. \A j \in Job, r \in Run : RunWriter(r, j) => RunWriter(r, j)'
  BY DEF RunWriter
<1>. QED  BY <1>2, <1>3, <1>4, StillFrame

\* There is nothing to put in and nothing to drop.
LEMMA NoSync ==
  ASSUME WInv, NEW c \in Caller, NEW j \in Job
  PROVE  ~Adopted(c) /\ ~Forget(c, j) /\ ~Forgotten(c)
BY DEF WInv, SyncInv, NothingToSync, Adopted, Forget, Forgotten

-----------------------------------------------------------------------------
(* The load of the file, at the start and after a crash. *)

LEMMA LoadedKeys ==
  ASSUME NEW f \in [Job -> Saved \cup {Absent}], NEW task \in [Job -> TaskId], NEW j \in Job
  PROVE  /\ f[j] = Absent \/ f[j].cron \in Invalid => Loaded(f, task)[j] = Absent
         /\ f[j] # Absent /\ f[j].cron \notin Invalid =>
               /\ Loaded(f, task)[j] \in Entry /\ Loaded(f, task)[j] # Absent
               /\ Loaded(f, task)[j].running = FALSE
               /\ ToSave(Loaded(f, task)[j]) = Cleared(f[j])
<1>1. CASE f[j] = Absent \/ f[j].cron \in Invalid
  BY <1>1 DEF Loaded
<1>2. CASE f[j] # Absent /\ f[j].cron \notin Invalid
  <2>1. f[j] \in Saved
    BY <1>2
  <2>2. Loaded(f, task)[j] = [cron |-> f[j].cron, paused |-> f[j].paused,
                              running |-> FALSE, task |-> task[j]]
    BY <1>2 DEF Loaded
  <2>3. Loaded(f, task)[j] \in Entry
    BY <2>1, <2>2 DEF Saved, Entry
  <2>4. Loaded(f, task)[j] # Absent
    BY <2>3, SchedulerAssumption DEF Entry
  <2>5. Cleared(f[j]) = [cron |-> f[j].cron, paused |-> f[j].paused, running |-> FALSE]
    BY <1>2, <2>1 DEF Cleared, Saved
  <2>6. ToSave(Loaded(f, task)[j]) = Cleared(f[j])
    BY <2>2, <2>4, <2>5 DEF ToSave
  <2>. QED  BY <1>2, <2>2, <2>3, <2>4, <2>6
<1>. QED  BY <1>1, <1>2

LEMMA ClearedKeys ==
  ASSUME NEW e \in Saved \cup {Absent}
  PROVE  /\ e = Absent => Cleared(e) = Absent
         /\ e # Absent => Cleared(e) # Absent /\ Cleared(e).cron = e.cron
<1>1. CASE e \in Saved
  <2>1. [e EXCEPT !.running = FALSE] \in Saved /\ [e EXCEPT !.running = FALSE].cron = e.cron
    BY <1>1 DEF Saved
  <2>. QED  BY <1>1, <2>1, SchedulerAssumption DEF Cleared, Saved
<1>2. CASE e = Absent
  BY <1>2 DEF Cleared
<1>. QED  BY <1>1, <1>2

LEMMA RestartWritten ==
  ASSUME IInv, WInv, Restart, faults = 0, faults' = 0
  PROVE  WInv'
<1>0. PICK f \in [Job -> Saved \cup {Absent}], whole \in BOOLEAN : StartWith(f, whole)
  BY Started DEF IInv
<1>1. PICK task \in Uuids : jobs' = Loaded(f, task)
  BY <1>0 DEF StartWith
<1>2. task \in [Job -> TaskId]
  BY DEF Uuids
<1>3. \A j \in Job : file'[j] = Cleared(f[j])
  BY <1>0 DEF StartWith
<1>4. SyncInv'
  BY DEF Restart, SyncInv, OnDiskInv, NothingToSync
<1>5. ASSUME NEW j \in Job
      PROVE  SameKeys(j)' /\ Agrees(j)' /\ ~Working(j)'
  <2>1. CASE f[j] = Absent \/ f[j].cron \in Invalid
    <3>1. jobs'[j] = Absent
      BY <1>1, <1>2, <2>1, LoadedKeys
    <3>2. file'[j] = Absent \/ file'[j].cron \in Invalid
      BY <1>2, <1>3, <2>1, ClearedKeys
    <3>. QED  BY <3>1, <3>2 DEF SameKeys, Agrees, Working, Has, ToSave
  <2>2. CASE f[j] # Absent /\ f[j].cron \notin Invalid
    <3>1. jobs'[j] # Absent /\ jobs'[j].running = FALSE /\ ToSave(jobs'[j]) = file'[j]
      BY <1>1, <1>2, <1>3, <2>2, LoadedKeys
    <3>2. file'[j] # Absent
      BY <1>2, <1>3, <2>2, ClearedKeys
    <3>. QED  BY <3>1, <3>2 DEF SameKeys, Agrees, Working, Has
  <2>. QED  BY <2>1, <2>2
<1>. QED  BY <1>4, <1>5 DEF WInv, KeyInv, FileInv, FlagInv

LEMMA InitWritten == Init => WInv
<1>. SUFFICES ASSUME Init PROVE WInv
  OBVIOUS
<1>. USE DEF Init
<1>1. PICK task \in Uuids : jobs = Loaded(file, task)
  OBVIOUS
<1>2. task \in [Job -> TaskId] /\ file \in [Job -> Saved \cup {Absent}]
  BY DEF Uuids, Saved
<1>3. \A j \in Job : file[j] # Absent => Cleared(file[j]) = file[j]
  BY DEF Cleared
<1>4. SyncInv
  BY DEF SyncInv, OnDiskInv, NothingToSync
<1>5. ASSUME NEW j \in Job
      PROVE  SameKeys(j) /\ Agrees(j) /\ ~Working(j)
  <2>1. CASE file[j] = Absent \/ file[j].cron \in Invalid
    <3>1. jobs[j] = Absent
      BY <1>1, <1>2, <2>1, LoadedKeys
    <3>. QED  BY <2>1, <3>1 DEF SameKeys, Agrees, Working, Has, ToSave
  <2>2. CASE file[j] # Absent /\ file[j].cron \notin Invalid
    <3>1. jobs[j] # Absent /\ jobs[j].running = FALSE /\ ToSave(jobs[j]) = file[j]
      BY <1>1, <1>2, <1>3, <2>2, LoadedKeys
    <3>. QED  BY <2>2, <3>1 DEF SameKeys, Agrees, Working, Has
  <2>. QED  BY <2>1, <2>2
<1>. QED  BY <1>4, <1>5 DEF WInv, KeyInv, FileInv, FlagInv

-----------------------------------------------------------------------------
LEMMA StepWritten == IInv /\ KeptInv /\ WrittenInv /\ [Next]_vars => WrittenInv'
<1>. SUFFICES ASSUME IInv, KeptInv, WrittenInv, [Next]_vars, ListAlone, faults' = 0
              PROVE  WInv'
  BY DEF WrittenInv
<1>1. faults \in Nat /\ AloneInv
  BY DEF IInv, TypeOK, KeptInv, KInv
<1>2. CASE UNCHANGED vars
  BY <1>2 DEF WrittenInv, WInv, vars, entryVars, fileVars, runVars, callVars, listVars,
              countVars, lifeVars, KeyInv, SameKeys, KeyWriter, SyncInv, OnDiskInv, NothingToSync,
              FileInv, Agrees, OnItsWay, RunWriter, CallWriter, FlagInv, Working, Has, ToSave
<1>3. ASSUME Next PROVE faults = 0
  <2>1. ASSUME NEW r \in Run,
               \/ Execution(r) \/ MarkNotPersisted(r)
               \/ \E t \in TaskId : Fire(r, t)
               \/ \E j \in Job : RunNow(r, j)
        PROVE  UNCHANGED faults \/ faults' = faults + 1
    BY <2>1 DEF Execution, Mark, PersistMark, InsertToken, Executed, Unmark, PersistEnd,
                MarkNotPersisted, RunDropped, FailWrite, Fire, RunNow, countVars, lifeVars
  <2>2. ASSUME NEW c \in Caller, Serve(c) \/ List(c)
        PROVE  UNCHANGED faults \/ faults' = faults + 1
    BY <2>2 DEF Serve, Register, Insert, Unregister, DropTask, Replace, Renew, Swap,
                CancelRun, Clear, Persist, NotPersisted, FailWrite, RequestDropped, Compare,
                Adopt, Adopted, Forget, Forgotten, Listed, List, countVars, lifeVars, notJobs
  <2>3. ASSUME NEW c \in Caller, NEW j \in Job, Ask(c, j)
        PROVE  UNCHANGED faults
    BY <2>3 DEF Ask, Add, Remove, SetPaused, Update, Kill, notJobs
  <2>4. Restart => UNCHANGED faults \/ faults' = faults + 1
    BY DEF Restart, StartWith
  <2>. QED  BY <1>1, <1>3, <2>1, <2>2, <2>3, <2>4 DEF Next
<1>4. CASE Next
  <2>. USE <1>1, <1>3, <1>4 DEF WrittenInv
  <2>1. ASSUME NEW r \in Run,
               \/ Execution(r) \/ MarkNotPersisted(r)
               \/ \E t \in TaskId : Fire(r, t)
               \/ \E j \in Job : RunNow(r, j)
        PROVE  WInv'
    BY <2>1, RunWritten
  <2>2. ASSUME NEW c \in Caller, Serve(c) \/ List(c)
        PROVE  WInv'
    <3>1. CASE Swap(c) \/ Clear(c)
      BY <3>1, SwapInWritten, SwapOutWritten, ClearInWritten, ClearOutWritten
    <3>2. CASE NotPersisted(c) \/ RequestDropped(c)
      BY <3>2 DEF NotPersisted, FailWrite, RequestDropped
    <3>3. ASSUME NEW j \in Job
          PROVE  ~Adopted(c) /\ ~Forget(c, j) /\ ~Forgotten(c)
      BY NoSync
    <3>4. ~Adopted(c) /\ ~Forgotten(c)
      BY DEF WInv, SyncInv, NothingToSync, Adopted, Forgotten
    <3>. QED  BY <2>2, <3>1, <3>2, <3>3, <3>4, RegisterWritten, InsertWritten,
                 UnregisterWritten, ReplaceWritten, RenewWritten, CancelRunWritten,
                 PersistWritten, CompareWritten, AdoptWritten, ListedWritten,
                 ListWritten DEF Serve
  <2>3. ASSUME NEW c \in Caller, NEW j \in Job, Ask(c, j)
        PROVE  WInv'
    BY <2>3, RemoveWritten, KillWritten, SetPausedWritten, AddWritten, UpdateWritten DEF Ask
  <2>4. CASE Restart
    BY <2>4, RestartWritten
  <2>. QED  BY <2>1, <2>2, <2>3, <2>4 DEF Next
<1>. QED  BY <1>2, <1>4

LEMMA AlwaysWritten == Spec => []WrittenInv
<1>1. Init => WrittenInv
  BY InitWritten DEF WrittenInv
<1>. QED  BY <1>1, Inductive, Kept, StepWritten, PTL DEF Spec

\* Where jobs are listed alone, and until a write fails or a request is dropped,
\* a job that is marked as running has a run that will take the mark away, or it
\* is the mark that a dropped run_now has left (scheduler.rs, run_now and the cron
\* task).
THEOREM FlagsHaveRuns ==
  ASSUME ListAlone
  PROVE  Spec => []FlagHasRun
<1>1. WrittenInv => FlagHasRun
  BY DEF WrittenInv, WInv, FlagInv, Flagging, FlagHasRun
<1>. QED  BY <1>1, AlwaysWritten, PTL

\* There, once nothing is under way, the file holds what the map holds, but for
\* jobs whose expression does not parse and jobs whose run_now was dropped
\* (persist_jobs after every change).
THEOREM FileCatchesUp ==
  ASSUME ListAlone
  PROVE  Spec => []MapReachesFile
<1>1. WrittenInv => MapReachesFile
  <2>. SUFFICES ASSUME WrittenInv, faults = 0,
                       \A r \in Run : rpc[r] \notin {"marked", "persist"},
                       \A c \in Caller : cpc[c] \in {"idle", "register", "compare"},
                       NEW j \in Job \ left
                PROVE  Agrees(j)
    BY DEF MapReachesFile, Agrees
  <2>. QED  BY DEF WrittenInv, WInv, FileInv, OnItsWay, RunWriter, CallWriter
<1>. QED  BY <1>1, AlwaysWritten, PTL
=============================================================================
