------------------------ MODULE ScanLifecycle_proofs ------------------------
(* Type correctness, the safety invariants and the refinement of            *)
(* ScanLifecycle, for any number of assessments, scans, clients, processes, *)
(* engine stages and crashes.                                               *)
EXTENDS ScanLifecycle, TLAPS

-----------------------------------------------------------------------------
(* The inductive invariant.  The type of passed and status rests on what a  *)
(* worker knows at three places: a stage is left to run when it runs one,   *)
(* and it has a verdict when it stops and when it records it.               *)

WorkerInv ==
    \A r \in Run :
        /\ pc[r] = "work" => passed[r] < Gates
        /\ pc[r] = "stopping" => outcome[r] # "none"
        /\ pc[r] = "recording" => outcome[r] \in Terminal \ {"completed"}

IInv == TypeOK /\ WorkerInv /\ ControlIsLiveTask /\ LiveRowHasWorker

\* The actions of Next, one disjunct each.
Step ==
    \/ \E r \in Run :
          \/ StartNew(r) \/ ResumeRead(r) \/ ResumeCheck(r)
          \/ ResumeReopen(r) \/ AbandonStart(r) \/ Register(r)
          \/ DropWaiter(r) \/ GateBudget(r) \/ GateCancelled(r)
          \/ GatePass(r) \/ GateWake(r) \/ GateUnpause(r) \/ EngineDone(r)
          \/ EngineStopped(r) \/ EngineFailed(r) \/ FinishCompleted(r)
          \/ Unregister(r) \/ RecordStop(r)
    \/ \E c \in Caller :
          \/ CancelRead(c) \/ RequestCancelFlag(c) \/ CancelStore(c)
          \/ PauseRead(c) \/ SetPauseFlag(c) \/ PauseStore(c)
    \/ \E p \in Proc : Crash(p)

LEMMA NextIsStep == Next => Step
  BY DEF Next, Step, Start, Work, Serve
-----------------------------------------------------------------------------
LEMMA InitInv == Init => IInv
  BY LifecycleAssumption
  DEF Init, IInv, TypeOK, WorkerInv, ControlIsLiveTask, LiveRowHasWorker,
      Status, Live, Terminal, PC, Outcome, Request, Idle

\* A request in flight names an assessment, and moving it to its second
\* phase leaves a request.
LEMMA RequestInFlight ==
  ASSUME TypeOK, NEW c \in Caller, call[c].op \in {"cancel", "pause"}
  PROVE  /\ call[c].asmt \in Assessment
         /\ call[c].op = "pause" => call[c].on \in BOOLEAN
         /\ [call EXCEPT ![c].at = "store"] \in [Caller -> Request]
<1>1. CASE call[c].op = "cancel"
  <2>1. call[c] \in [op : {"cancel"}, at : {"flag", "store"},
                     asmt : Assessment]
    BY <1>1 DEF TypeOK, Request, Idle
  <2>2. [call[c] EXCEPT !.at = "store"] \in Request
    BY <2>1 DEF Request
  <2>. QED  BY <1>1, <2>1, <2>2 DEF TypeOK
<1>2. CASE call[c].op = "pause"
  <2>1. call[c] \in [op : {"pause"}, at : {"flag", "store"},
                     asmt : Assessment, on : BOOLEAN]
    BY <1>2 DEF TypeOK, Request, Idle
  <2>2. [call[c] EXCEPT !.at = "store"] \in Request
    BY <2>1 DEF Request
  <2>. QED  BY <2>1, <2>2 DEF TypeOK
<1>. QED  BY <1>1, <1>2

\* A worker that passes a gate before the last has a stage left to run.
LEMMA StageLeft ==
  ASSUME TypeOK, NEW r \in Run, passed[r] # Gates
  PROVE  passed[r] < Gates
<1>1. passed[r] \in 0..Gates
  BY DEF TypeOK
<1>. QED  BY <1>1, LifecycleAssumption

\* TypeOK is preserved.
LEMMA TypeStep ==
  ASSUME TypeOK, WorkerInv, Step
  PROVE  TypeOK'
<1>. USE LifecycleAssumption DEF TypeOK, WorkerInv, Status, Live, Terminal, PC, Starting, Task, Ended,
             Outcome, Goto, store, flags, job
<1>1. ASSUME NEW r \in Run, StartNew(r) PROVE TypeOK'
  BY <1>1 DEF StartNew
<1>2. ASSUME NEW r \in Run, ResumeRead(r) PROVE TypeOK'
  BY <1>2 DEF ResumeRead
<1>3. ASSUME NEW r \in Run, ResumeCheck(r) PROVE TypeOK'
  BY <1>3 DEF ResumeCheck
<1>4. ASSUME NEW r \in Run, ResumeReopen(r) PROVE TypeOK'
  BY <1>4 DEF ResumeReopen, ReopenAssessment, Resumable
<1>5. ASSUME NEW r \in Run, AbandonStart(r) PROVE TypeOK'
  BY <1>5 DEF AbandonStart
<1>6. ASSUME NEW r \in Run, Register(r) PROVE TypeOK'
  BY <1>6 DEF Register
<1>7. ASSUME NEW r \in Run, DropWaiter(r) PROVE TypeOK'
  BY <1>7 DEF DropWaiter
<1>8. ASSUME NEW r \in Run, GateBudget(r) PROVE TypeOK'
  BY <1>8 DEF GateBudget, Stop
<1>9. ASSUME NEW r \in Run, GateCancelled(r) PROVE TypeOK'
  BY <1>9 DEF GateCancelled, Stop
<1>10. ASSUME NEW r \in Run, GatePass(r) PROVE TypeOK'
  BY <1>10 DEF GatePass, AfterGate
<1>11. ASSUME NEW r \in Run, GateWake(r) PROVE TypeOK'
  BY <1>11 DEF GateWake
<1>12. ASSUME NEW r \in Run, GateUnpause(r) PROVE TypeOK'
  BY <1>12 DEF GateUnpause, Written, SetLiveStatus, AfterGate
<1>13. ASSUME NEW r \in Run, EngineDone(r) PROVE TypeOK'
  BY <1>13 DEF EngineDone
<1>14. ASSUME NEW r \in Run, EngineStopped(r) PROVE TypeOK'
  BY <1>14 DEF EngineStopped, Stop
<1>15. ASSUME NEW r \in Run, EngineFailed(r) PROVE TypeOK'
  BY <1>15 DEF EngineFailed, Stop
<1>16. ASSUME NEW r \in Run, FinishCompleted(r) PROVE TypeOK'
  BY <1>16 DEF FinishCompleted, FinishAssessment
<1>17. ASSUME NEW r \in Run, Unregister(r) PROVE TypeOK'
  BY <1>17 DEF Unregister
<1>18. ASSUME NEW r \in Run, RecordStop(r) PROVE TypeOK'
  <2>1. pc' \in [Run -> PC] /\ UNCHANGED <<flags, job, call, crashes>>
    BY <1>18 DEF RecordStop
  <2>2. FinishAssessment(target[r], outcome[r]) \in [Assessment -> Status]
    BY <1>18 DEF RecordStop, FinishAssessment
  <2>3. status' \in [Assessment -> Status]
    BY <1>18, <2>2 DEF RecordStop
  <2>. QED  BY <2>1, <2>3
<1>19. ASSUME NEW c \in Caller, CancelRead(c) PROVE TypeOK'
  BY <1>19 DEF CancelRead, Ask, Request
<1>20. ASSUME NEW c \in Caller, RequestCancelFlag(c) PROVE TypeOK'
  <2>1. /\ call[c].asmt \in Assessment
        /\ call' \in [Caller -> Request]
    BY <1>20, RequestInFlight DEF RequestCancelFlag
  <2>2. Reached(c) \in Run \cup {Nobody}
    BY <2>1 DEF Reached
  <2>. QED  BY <1>20, <2>1, <2>2 DEF RequestCancelFlag
<1>21. ASSUME NEW c \in Caller, CancelStore(c) PROVE TypeOK'
  BY <1>21 DEF CancelStore, Written, Request, FinishAssessment
<1>22. ASSUME NEW c \in Caller, PauseRead(c) PROVE TypeOK'
  BY <1>22 DEF PauseRead, Ask, Request
<1>23. ASSUME NEW c \in Caller, SetPauseFlag(c) PROVE TypeOK'
  <2>1. /\ call[c].asmt \in Assessment
        /\ call[c].on \in BOOLEAN
        /\ [call EXCEPT ![c].at = "store"] \in [Caller -> Request]
    BY <1>23, RequestInFlight DEF SetPauseFlag
  <2>2. Reached(c) \in Run \cup {Nobody}
    BY <2>1 DEF Reached
  <2>3. Idle \in Request
    BY DEF Request
  <2>4. call' \in [Caller -> Request]
    BY <1>23, <2>1, <2>3 DEF SetPauseFlag
  <2>. QED  BY <1>23, <2>1, <2>2, <2>4 DEF SetPauseFlag
<1>24. ASSUME NEW c \in Caller, PauseStore(c) PROVE TypeOK'
  BY <1>24 DEF PauseStore, Written, Request, SetLiveStatus
<1>25. ASSUME NEW p \in Proc, Crash(p) PROVE TypeOK'
  BY <1>25 DEF Crash, Request
<1>. QED
  BY <1>1, <1>2, <1>3, <1>4, <1>5, <1>6, <1>7, <1>8, <1>9, <1>10, <1>11,
     <1>12, <1>13, <1>14, <1>15, <1>16, <1>17, <1>18, <1>19, <1>20, <1>21,
     <1>22, <1>23, <1>24, <1>25
  DEF Step

\* WorkerInv is preserved.
LEMMA WorkerStep ==
  ASSUME TypeOK, WorkerInv, Step
  PROVE  WorkerInv'
<1>. USE LifecycleAssumption DEF TypeOK, WorkerInv, Terminal, PC, Starting, Task, Ended, Outcome, Goto,
             store, flags, job
<1>1. ASSUME NEW r \in Run, StartNew(r) PROVE WorkerInv'
  BY <1>1 DEF StartNew
<1>2. ASSUME NEW r \in Run, ResumeRead(r) PROVE WorkerInv'
  BY <1>2 DEF ResumeRead
<1>3. ASSUME NEW r \in Run, ResumeCheck(r) PROVE WorkerInv'
  BY <1>3 DEF ResumeCheck
<1>4. ASSUME NEW r \in Run, ResumeReopen(r) PROVE WorkerInv'
  BY <1>4 DEF ResumeReopen, ReopenAssessment, Resumable
<1>5. ASSUME NEW r \in Run, AbandonStart(r) PROVE WorkerInv'
  BY <1>5 DEF AbandonStart
<1>6. ASSUME NEW r \in Run, Register(r) PROVE WorkerInv'
  BY <1>6 DEF Register
<1>7. ASSUME NEW r \in Run, DropWaiter(r) PROVE WorkerInv'
  BY <1>7 DEF DropWaiter
<1>8. ASSUME NEW r \in Run, GateBudget(r) PROVE WorkerInv'
  BY <1>8 DEF GateBudget, Stop
<1>9. ASSUME NEW r \in Run, GateCancelled(r) PROVE WorkerInv'
  BY <1>9 DEF GateCancelled, Stop
<1>10. ASSUME NEW r \in Run, GatePass(r) PROVE WorkerInv'
  <2>1. passed[r] # Gates => passed[r] < Gates
    BY StageLeft
  <2>. QED  BY <1>10, <2>1 DEF GatePass, AfterGate
<1>11. ASSUME NEW r \in Run, GateWake(r) PROVE WorkerInv'
  BY <1>11 DEF GateWake
<1>12. ASSUME NEW r \in Run, GateUnpause(r) PROVE WorkerInv'
  <2>1. passed[r] # Gates => passed[r] < Gates
    BY StageLeft
  <2>. QED  BY <1>12, <2>1 DEF GateUnpause, Written, SetLiveStatus, AfterGate
<1>13. ASSUME NEW r \in Run, EngineDone(r) PROVE WorkerInv'
  BY <1>13 DEF EngineDone
<1>14. ASSUME NEW r \in Run, EngineStopped(r) PROVE WorkerInv'
  BY <1>14 DEF EngineStopped, Stop
<1>15. ASSUME NEW r \in Run, EngineFailed(r) PROVE WorkerInv'
  BY <1>15 DEF EngineFailed, Stop
<1>16. ASSUME NEW r \in Run, FinishCompleted(r) PROVE WorkerInv'
  BY <1>16 DEF FinishCompleted, FinishAssessment
<1>17. ASSUME NEW r \in Run, Unregister(r) PROVE WorkerInv'
  BY <1>17 DEF Unregister
<1>18. ASSUME NEW r \in Run, RecordStop(r) PROVE WorkerInv'
  BY <1>18 DEF RecordStop, FinishAssessment
<1>19. ASSUME NEW c \in Caller, CancelRead(c) PROVE WorkerInv'
  BY <1>19 DEF CancelRead, Ask
<1>20. ASSUME NEW c \in Caller, RequestCancelFlag(c) PROVE WorkerInv'
  BY <1>20 DEF RequestCancelFlag, Reached
<1>21. ASSUME NEW c \in Caller, CancelStore(c) PROVE WorkerInv'
  BY <1>21 DEF CancelStore, Written, FinishAssessment
<1>22. ASSUME NEW c \in Caller, PauseRead(c) PROVE WorkerInv'
  BY <1>22 DEF PauseRead, Ask
<1>23. ASSUME NEW c \in Caller, SetPauseFlag(c) PROVE WorkerInv'
  BY <1>23 DEF SetPauseFlag, Reached
<1>24. ASSUME NEW c \in Caller, PauseStore(c) PROVE WorkerInv'
  BY <1>24 DEF PauseStore, Written, SetLiveStatus
<1>25. ASSUME NEW p \in Proc, Crash(p) PROVE WorkerInv'
  BY <1>25 DEF Crash
<1>. QED
  BY <1>1, <1>2, <1>3, <1>4, <1>5, <1>6, <1>7, <1>8, <1>9, <1>10, <1>11,
     <1>12, <1>13, <1>14, <1>15, <1>16, <1>17, <1>18, <1>19, <1>20, <1>21,
     <1>22, <1>23, <1>24, <1>25
  DEF Step

\* ControlIsLiveTask is preserved.
LEMMA ControlStep ==
  ASSUME TypeOK, ControlIsLiveTask, Step
  PROVE  ControlIsLiveTask'
<1>. USE LifecycleAssumption DEF TypeOK, ControlIsLiveTask, PC, Starting, Task, Ended, Goto,
             store, flags, job
<1>1. ASSUME NEW r \in Run, StartNew(r) PROVE ControlIsLiveTask'
  BY <1>1 DEF StartNew
<1>2. ASSUME NEW r \in Run, ResumeRead(r) PROVE ControlIsLiveTask'
  BY <1>2 DEF ResumeRead
<1>3. ASSUME NEW r \in Run, ResumeCheck(r) PROVE ControlIsLiveTask'
  BY <1>3 DEF ResumeCheck
<1>4. ASSUME NEW r \in Run, ResumeReopen(r) PROVE ControlIsLiveTask'
  BY <1>4 DEF ResumeReopen, ReopenAssessment, Resumable
<1>5. ASSUME NEW r \in Run, AbandonStart(r) PROVE ControlIsLiveTask'
  BY <1>5 DEF AbandonStart
<1>6. ASSUME NEW r \in Run, Register(r) PROVE ControlIsLiveTask'
  BY <1>6 DEF Register
<1>7. ASSUME NEW r \in Run, DropWaiter(r) PROVE ControlIsLiveTask'
  BY <1>7 DEF DropWaiter
<1>8. ASSUME NEW r \in Run, GateBudget(r) PROVE ControlIsLiveTask'
  BY <1>8 DEF GateBudget, Stop
<1>9. ASSUME NEW r \in Run, GateCancelled(r) PROVE ControlIsLiveTask'
  BY <1>9 DEF GateCancelled, Stop
<1>10. ASSUME NEW r \in Run, GatePass(r) PROVE ControlIsLiveTask'
  BY <1>10 DEF GatePass, AfterGate
<1>11. ASSUME NEW r \in Run, GateWake(r) PROVE ControlIsLiveTask'
  BY <1>11 DEF GateWake
<1>12. ASSUME NEW r \in Run, GateUnpause(r) PROVE ControlIsLiveTask'
  BY <1>12 DEF GateUnpause, Written, SetLiveStatus, AfterGate
<1>13. ASSUME NEW r \in Run, EngineDone(r) PROVE ControlIsLiveTask'
  BY <1>13 DEF EngineDone
<1>14. ASSUME NEW r \in Run, EngineStopped(r) PROVE ControlIsLiveTask'
  BY <1>14 DEF EngineStopped, Stop
<1>15. ASSUME NEW r \in Run, EngineFailed(r) PROVE ControlIsLiveTask'
  BY <1>15 DEF EngineFailed, Stop
<1>16. ASSUME NEW r \in Run, FinishCompleted(r) PROVE ControlIsLiveTask'
  BY <1>16 DEF FinishCompleted, FinishAssessment
<1>17. ASSUME NEW r \in Run, Unregister(r) PROVE ControlIsLiveTask'
  BY <1>17 DEF Unregister
<1>18. ASSUME NEW r \in Run, RecordStop(r) PROVE ControlIsLiveTask'
  BY <1>18 DEF RecordStop, FinishAssessment
<1>19. ASSUME NEW c \in Caller, CancelRead(c) PROVE ControlIsLiveTask'
  BY <1>19 DEF CancelRead, Ask
<1>20. ASSUME NEW c \in Caller, RequestCancelFlag(c) PROVE ControlIsLiveTask'
  BY <1>20 DEF RequestCancelFlag, Reached
<1>21. ASSUME NEW c \in Caller, CancelStore(c) PROVE ControlIsLiveTask'
  BY <1>21 DEF CancelStore, Written, FinishAssessment
<1>22. ASSUME NEW c \in Caller, PauseRead(c) PROVE ControlIsLiveTask'
  BY <1>22 DEF PauseRead, Ask
<1>23. ASSUME NEW c \in Caller, SetPauseFlag(c) PROVE ControlIsLiveTask'
  BY <1>23 DEF SetPauseFlag, Reached
<1>24. ASSUME NEW c \in Caller, PauseStore(c) PROVE ControlIsLiveTask'
  BY <1>24 DEF PauseStore, Written, SetLiveStatus
<1>25. ASSUME NEW p \in Proc, Crash(p) PROVE ControlIsLiveTask'
  BY <1>25 DEF Crash
<1>. QED
  BY <1>1, <1>2, <1>3, <1>4, <1>5, <1>6, <1>7, <1>8, <1>9, <1>10, <1>11,
     <1>12, <1>13, <1>14, <1>15, <1>16, <1>17, <1>18, <1>19, <1>20, <1>21,
     <1>22, <1>23, <1>24, <1>25
  DEF Step

\* A step that brings no row to life and loses no holder of an open row
\* preserves LiveRowHasWorker.
Holds(r) == Closing(r) \/ Lost(r)

LEMMA HoldersKept ==
  ASSUME LiveRowHasWorker, target' = target,
         \A a \in Assessment : status'[a] \in Live => status[a] \in Live,
         \A r \in Run : Holds(r) => Holds(r)'
  PROVE  LiveRowHasWorker'
  BY DEF LiveRowHasWorker, Holds

\* LiveRowHasWorker is preserved.
LEMMA LiveStep ==
  ASSUME TypeOK, WorkerInv, LiveRowHasWorker, Step
  PROVE  LiveRowHasWorker'
<1>. USE LifecycleAssumption DEF TypeOK, WorkerInv, LiveRowHasWorker, Closing, Lost, Status, Live,
             Terminal, PC, Starting, Task, Ended, Goto, store, flags, job
<1>1. ASSUME NEW r \in Run, StartNew(r) PROVE LiveRowHasWorker'
  BY <1>1 DEF StartNew
<1>2. ASSUME NEW r \in Run, ResumeRead(r) PROVE LiveRowHasWorker'
  <2>1. \A q \in Run : Holds(q) => Holds(q)'
    BY <1>2 DEF ResumeRead, Holds
  <2>. QED  BY <1>2, <2>1, HoldersKept DEF ResumeRead
<1>3. ASSUME NEW r \in Run, ResumeCheck(r) PROVE LiveRowHasWorker'
  <2>1. \A q \in Run : Holds(q) => Holds(q)'
    BY <1>3 DEF ResumeCheck, Holds
  <2>. QED  BY <1>3, <2>1, HoldersKept DEF ResumeCheck
<1>4. ASSUME NEW r \in Run, ResumeReopen(r) PROVE LiveRowHasWorker'
  <2>1. CASE status[target[r]] \in Resumable
    <3>1. target'[r] = target[r] /\ Closing(r)'
      BY <1>4, <2>1 DEF ResumeReopen
    <3>2. \A q \in Run : Holds(q) => Holds(q)'
      BY <1>4, <2>1 DEF ResumeReopen, Holds
    <3>3. \A a \in Assessment : a # target[r] => status'[a] = status[a]
      BY <1>4 DEF ResumeReopen, ReopenAssessment
    <3>. QED  BY <1>4, <3>1, <3>2, <3>3 DEF ResumeReopen, Holds
  <2>2. CASE status[target[r]] \notin Resumable
    <3>1. status' = status
      BY <1>4, <2>2 DEF ResumeReopen, ReopenAssessment
    <3>2. \A q \in Run : Holds(q) => Holds(q)'
      BY <1>4 DEF ResumeReopen, Holds
    <3>. QED  BY <1>4, <3>1, <3>2, HoldersKept DEF ResumeReopen
  <2>. QED  BY <2>1, <2>2
<1>5. ASSUME NEW r \in Run, AbandonStart(r) PROVE LiveRowHasWorker'
  <2>1. \A q \in Run : Holds(q) => Holds(q)'
    BY <1>5 DEF AbandonStart, Holds
  <2>. QED  BY <1>5, <2>1, HoldersKept DEF AbandonStart
<1>6. ASSUME NEW r \in Run, Register(r) PROVE LiveRowHasWorker'
  <2>1. \A q \in Run : Holds(q) => Holds(q)'
    BY <1>6 DEF Register, Holds
  <2>. QED  BY <1>6, <2>1, HoldersKept DEF Register
<1>7. ASSUME NEW r \in Run, DropWaiter(r) PROVE LiveRowHasWorker'
  BY <1>7 DEF DropWaiter
<1>8. ASSUME NEW r \in Run, GateBudget(r) PROVE LiveRowHasWorker'
  BY <1>8 DEF GateBudget, Stop
<1>9. ASSUME NEW r \in Run, GateCancelled(r) PROVE LiveRowHasWorker'
  BY <1>9 DEF GateCancelled, Stop
<1>10. ASSUME NEW r \in Run, GatePass(r) PROVE LiveRowHasWorker'
  <2>1. \A q \in Run : Holds(q) => Holds(q)'
    BY <1>10 DEF GatePass, AfterGate, Holds
  <2>. QED  BY <1>10, <2>1, HoldersKept DEF GatePass
<1>11. ASSUME NEW r \in Run, GateWake(r) PROVE LiveRowHasWorker'
  BY <1>11 DEF GateWake
<1>12. ASSUME NEW r \in Run, GateUnpause(r) PROVE LiveRowHasWorker'
  BY <1>12 DEF GateUnpause, Written, SetLiveStatus, AfterGate
<1>13. ASSUME NEW r \in Run, EngineDone(r) PROVE LiveRowHasWorker'
  BY <1>13 DEF EngineDone
<1>14. ASSUME NEW r \in Run, EngineStopped(r) PROVE LiveRowHasWorker'
  BY <1>14 DEF EngineStopped, Stop
<1>15. ASSUME NEW r \in Run, EngineFailed(r) PROVE LiveRowHasWorker'
  BY <1>15 DEF EngineFailed, Stop
<1>16. ASSUME NEW r \in Run, FinishCompleted(r) PROVE LiveRowHasWorker'
  BY <1>16 DEF FinishCompleted, FinishAssessment
<1>17. ASSUME NEW r \in Run, Unregister(r) PROVE LiveRowHasWorker'
  <2>1. \A q \in Run : Holds(q) => Holds(q)'
    BY <1>17 DEF Unregister, Holds
  <2>. QED  BY <1>17, <2>1, HoldersKept DEF Unregister
<1>18. ASSUME NEW r \in Run, RecordStop(r) PROVE LiveRowHasWorker'
  <2>1. CASE pc'[r] = "done"
    <3>. /\ status' = FinishAssessment(target[r], outcome[r])
         /\ outcome[r] \in Terminal /\ target[r] \in Assessment
      BY <1>18, <2>1 DEF RecordStop
    <3>1. status'[target[r]] \notin Live
      BY DEF FinishAssessment
    <3>2. \A a \in Assessment : a # target[r] => status'[a] = status[a]
      BY <1>18 DEF RecordStop, FinishAssessment
    <3>3. \A q \in Run : q # r /\ Holds(q) => Holds(q)'
      BY <1>18 DEF RecordStop, Holds
    <3>4. target' = target
      BY <1>18 DEF RecordStop
    <3>. HIDE DEF Closing, Lost
    <3>. QED  BY <3>1, <3>2, <3>3, <3>4 DEF Holds
  <2>2. CASE pc'[r] = "unrecorded"
    <3>1. \A q \in Run : Holds(q) => Holds(q)'
      BY <1>18, <2>2 DEF RecordStop, Holds
    <3>2. status' = status
      BY <1>18, <2>2 DEF RecordStop
    <3>. QED  BY <1>18, <3>1, <3>2, HoldersKept DEF RecordStop
  <2>. QED  BY <1>18, <2>1, <2>2 DEF RecordStop
<1>19. ASSUME NEW c \in Caller, CancelRead(c) PROVE LiveRowHasWorker'
  BY <1>19 DEF CancelRead, Ask
<1>20. ASSUME NEW c \in Caller, RequestCancelFlag(c) PROVE LiveRowHasWorker'
  BY <1>20 DEF RequestCancelFlag, Reached
<1>21. ASSUME NEW c \in Caller, CancelStore(c) PROVE LiveRowHasWorker'
  BY <1>21 DEF CancelStore, Written, FinishAssessment
<1>22. ASSUME NEW c \in Caller, PauseRead(c) PROVE LiveRowHasWorker'
  BY <1>22 DEF PauseRead, Ask
<1>23. ASSUME NEW c \in Caller, SetPauseFlag(c) PROVE LiveRowHasWorker'
  BY <1>23 DEF SetPauseFlag, Reached
<1>24. ASSUME NEW c \in Caller, PauseStore(c) PROVE LiveRowHasWorker'
  BY <1>24 DEF PauseStore, Written, SetLiveStatus
<1>25. ASSUME NEW p \in Proc, Crash(p) PROVE LiveRowHasWorker'
  <2>1. \A q \in Run : Holds(q) => Holds(q)'
    BY <1>25 DEF Crash, Holds
  <2>. QED  BY <1>25, <2>1, HoldersKept DEF Crash
<1>. QED
  BY <1>1, <1>2, <1>3, <1>4, <1>5, <1>6, <1>7, <1>8, <1>9, <1>10, <1>11,
     <1>12, <1>13, <1>14, <1>15, <1>16, <1>17, <1>18, <1>19, <1>20, <1>21,
     <1>22, <1>23, <1>24, <1>25
  DEF Step
-----------------------------------------------------------------------------
LEMMA InvStep == IInv /\ [Next]_vars => IInv'
<1>. SUFFICES ASSUME IInv, [Next]_vars
              PROVE  IInv'
  OBVIOUS
<1>1. CASE Next
  <2>1. Step
    BY <1>1, NextIsStep
  <2>. QED  BY <2>1, TypeStep, WorkerStep, ControlStep, LiveStep DEF IInv
<1>2. CASE UNCHANGED vars
  BY <1>2 DEF vars, IInv, TypeOK, WorkerInv, ControlIsLiveTask,
              LiveRowHasWorker, Closing, Lost
<1>. QED  BY <1>1, <1>2

LEMMA Invariance == Spec => []IInv
  BY InitInv, InvStep, PTL DEF Spec

\* Every variable keeps its type whatever the number of runs and clients.
THEOREM TypeCorrect == Spec => []TypeOK
<1>1. IInv => TypeOK
  BY DEF IInv
<1>. QED  BY <1>1, Invariance, PTL

\* No row is left running or paused unless a worker of it was lost: given up
\* at the start, crashed, or unable to write its verdict (store.rs:510-574,
\* scan.rs:443-473).
THEOREM NoOrphanRow == Spec => []LiveRowHasWorker
<1>1. IInv => LiveRowHasWorker
  BY DEF IInv
<1>. QED  BY <1>1, Invariance, PTL

\* The control map lists nothing but live workers (scan.rs:49-64).
THEOREM ControlsAreLive == Spec => []ControlIsLiveTask
<1>1. IInv => ControlIsLiveTask
  BY DEF IInv
<1>. QED  BY <1>1, Invariance, PTL
-----------------------------------------------------------------------------
(* Refinement: every write of the status column is a step of AssessmentRow. *)

LEMMA RowInit == Init => Row!Init
  BY DEF Init, Row!Init

LEMMA FinishDecides ==
  ASSUME TypeOK, NEW a \in Assessment, NEW verdict \in Terminal,
         status' = FinishAssessment(a, verdict)
  PROVE  [Row!Next]_status
<1>1. CASE status[a] \in Live
  <2>1. Row!Decide(a)
    BY <1>1 DEF TypeOK, FinishAssessment, Live, Terminal, Row!Decide,
                Row!Set, Row!Open, Row!Verdict
  <2>. QED  BY <2>1 DEF Row!Next
<1>2. CASE status[a] \notin Live
  BY <1>2 DEF TypeOK, FinishAssessment
<1>. QED  BY <1>1, <1>2

LEMMA SetLiveSteers ==
  ASSUME TypeOK, NEW a \in Assessment, NEW live \in {"running", "paused"},
         status' = SetLiveStatus(a, live)
  PROVE  [Row!Next]_status
<1>1. CASE status[a] \in Live
  <2>1. Row!Steer(a)
    BY <1>1 DEF TypeOK, SetLiveStatus, Live, Row!Steer, Row!Set, Row!Open
  <2>. QED  BY <2>1 DEF Row!Next
<1>2. CASE status[a] \notin Live
  BY <1>2 DEF TypeOK, SetLiveStatus
<1>. QED  BY <1>1, <1>2

LEMMA ReopenReopens ==
  ASSUME TypeOK, NEW a \in Assessment, status' = ReopenAssessment(a)
  PROVE  [Row!Next]_status
<1>1. CASE status[a] \in {"running", "paused"}
  <2>1. Row!Steer(a)
    BY <1>1 DEF TypeOK, ReopenAssessment, Resumable, Row!Steer, Row!Set,
                Row!Open
  <2>. QED  BY <2>1 DEF Row!Next
<1>2. CASE status[a] \in {"cancelled", "partial", "failed"}
  <2>1. Row!Reopen(a)
    BY <1>2 DEF TypeOK, ReopenAssessment, Resumable, Row!Reopen, Row!Set,
                Row!Verdict
  <2>. QED  BY <2>1 DEF Row!Next
<1>3. CASE status[a] \notin Resumable
  BY <1>3 DEF TypeOK, ReopenAssessment
<1>. QED  BY <1>1, <1>2, <1>3 DEF Resumable

\* Every step of the scan is a step of the row's promise or leaves it alone.
LEMMA RowStep == IInv /\ [Next]_vars => [Row!Next]_status
<1>. SUFFICES ASSUME IInv, [Next]_vars
              PROVE  [Row!Next]_status
  OBVIOUS
<1>. TypeOK /\ WorkerInv
  BY DEF IInv
<1>. \A q \in Run : target[q] \in Assessment
  BY DEF TypeOK
<1>1. ASSUME NEW r \in Run, StartNew(r) PROVE [Row!Next]_status
  BY <1>1 DEF StartNew, Row!Next, Row!Create, Row!Set
<1>2. ASSUME NEW r \in Run, ResumeReopen(r) PROVE [Row!Next]_status
  BY <1>2, ReopenReopens DEF ResumeReopen
<1>3. ASSUME NEW r \in Run, GateUnpause(r) PROVE [Row!Next]_status
  BY <1>3, SetLiveSteers DEF GateUnpause, Written
<1>4. ASSUME NEW r \in Run, FinishCompleted(r) PROVE [Row!Next]_status
  BY <1>4, FinishDecides DEF FinishCompleted, Terminal
<1>5. ASSUME NEW r \in Run, RecordStop(r) PROVE [Row!Next]_status
  BY <1>5, FinishDecides DEF RecordStop, WorkerInv
<1>6. ASSUME NEW c \in Caller, CancelStore(c) PROVE [Row!Next]_status
  BY <1>6, FinishDecides, RequestInFlight DEF CancelStore, Written, Terminal
<1>7. ASSUME NEW c \in Caller, PauseStore(c) PROVE [Row!Next]_status
  BY <1>7, SetLiveSteers, RequestInFlight DEF PauseStore, Written
<1>8. CASE UNCHANGED status
  BY <1>8
<1>9. Next => \/ \E r \in Run : \/ StartNew(r) \/ ResumeReopen(r)
                               \/ GateUnpause(r) \/ FinishCompleted(r)
                               \/ RecordStop(r)
              \/ \E c \in Caller : CancelStore(c) \/ PauseStore(c)
              \/ UNCHANGED status
  BY DEF Next, Start, Work, Serve, ResumeRead, ResumeCheck, AbandonStart,
         Register, DropWaiter, GateBudget, GateCancelled, GatePass, GateWake,
         EngineDone, EngineStopped, EngineFailed, Unregister, Stop, Goto,
         CancelRead, RequestCancelFlag, PauseRead, SetPauseFlag, Ask, Crash,
         store
<1>. QED
  BY <1>1, <1>2, <1>3, <1>4, <1>5, <1>6, <1>7, <1>8, <1>9 DEF vars

\* Whatever the schedule, the status column keeps the promise of
\* AssessmentRow (store.rs:510-574, store.rs:1320-1336).
THEOREM ImplementsRow == Spec => RowPromise
  BY RowInit, RowStep, Invariance, PTL DEF Spec, Row!Spec, RowPromise

\* A completed assessment is never reopened, paused, cancelled or failed.
THEOREM CompletedStaysCompleted == Spec => Row!CompletedIsFinal
<1>1. IInv /\ [Next]_vars =>
        [\A a \in Assessment :
           status[a] = "completed" => status'[a] = "completed"]_status
  <2>. SUFFICES ASSUME IInv, [Row!Next]_status, NEW a \in Assessment,
                       status[a] = "completed"
                PROVE  status'[a] = "completed"
    BY RowStep
  <2>. QED
    BY DEF IInv, TypeOK, Row!Next, Row!Create, Row!Steer, Row!Decide,
           Row!Reopen, Row!Set, Row!Open, Row!Verdict
<1>. QED  BY <1>1, Invariance, PTL DEF Spec, Row!CompletedIsFinal

\* The first verdict stands until a resume opens the row again.
THEOREM VerdictStands == Spec => Row!FirstVerdictStands
<1>1. IInv /\ [Next]_vars =>
        [\A a \in Assessment :
           status[a] \in Row!Verdict
             => status'[a] \in {status[a], "running"}]_status
  <2>. SUFFICES ASSUME IInv, [Row!Next]_status, NEW a \in Assessment,
                       status[a] \in Row!Verdict
                PROVE  status'[a] \in {status[a], "running"}
    BY RowStep
  <2>. QED
    BY DEF IInv, TypeOK, Row!Next, Row!Create, Row!Steer, Row!Decide,
           Row!Reopen, Row!Set, Row!Open, Row!Verdict
<1>. QED  BY <1>1, Invariance, PTL DEF Spec, Row!FirstVerdictStands
-----------------------------------------------------------------------------
(* What is safe in "a cancelled worker ends".  A start and its worker only   *)
(* go forward, and a raised abort flag stays up.  So the worker ends after   *)
(* a bounded number of its own steps: the gate it sleeps in is the only      *)
(* place where it waits, and there the raised flag is its way out.           *)

Stage == [free |-> 12, read |-> 11, checked |-> 10, opened |-> 9, gate |-> 8,
          paused |-> 7, unpausing |-> 6, work |-> 5, finishing |-> 4,
          stopping |-> 3, recording |-> 2, done |-> 0, abandoned |-> 0,
          crashed |-> 0, unrecorded |-> 0]

\* The steps a run has left at most, in stages.
RunLeft(r) == 9 * (Gates - passed[r]) + Stage[pc[r]]

\* No cancel, pause, resume, second worker or crash sends a run back or takes
\* its abort flag down.
RunsGoForward ==
    [][\A r \in Run :
          /\ cancel[r] => cancel'[r]
          /\ \/ UNCHANGED <<pc[r], passed[r]>>
             \/ RunLeft(r)' < RunLeft(r)]_vars

LEMMA FlagsStayUp ==
  ASSUME TypeOK, Step, NEW r \in Run, cancel[r]
  PROVE  cancel'[r]
BY DEF Step, StartNew, ResumeRead, ResumeCheck, ResumeReopen, AbandonStart, Register,
   DropWaiter, GateBudget, GateCancelled, GatePass, GateWake, GateUnpause, EngineDone,
   EngineStopped, EngineFailed, FinishCompleted, Unregister, RecordStop, CancelRead,
   RequestCancelFlag, CancelStore, PauseRead, SetPauseFlag, PauseStore, Crash, Ask, Stop,
   flags, TypeOK

\* The stages of a run that its step leaves in the same engine.
LEMMA StageNears ==
  ASSUME TypeOK, NEW r \in Run,
         \/ StartNew(r) \/ ResumeRead(r) \/ ResumeCheck(r) \/ ResumeReopen(r)
         \/ AbandonStart(r) \/ Register(r) \/ GateBudget(r) \/ GateCancelled(r)
         \/ GatePass(r) \/ GateWake(r) \/ GateUnpause(r) \/ EngineStopped(r)
         \/ EngineFailed(r) \/ FinishCompleted(r) \/ Unregister(r) \/ RecordStop(r)
  PROVE  /\ passed' = passed
         /\ \A q \in Run \ {r} : pc'[q] = pc[q]
         /\ Stage[pc'[r]] < Stage[pc[r]]
<1>. USE DEF Goto, Stop, job
<1>1. pc \in [Run -> PC]
  BY DEF TypeOK
<1>2. CASE \/ StartNew(r) \/ ResumeRead(r) \/ ResumeCheck(r) \/ ResumeReopen(r)
           \/ AbandonStart(r) \/ Register(r)
  BY <1>1, <1>2 DEF StartNew, ResumeRead, ResumeCheck, ResumeReopen, AbandonStart, Register,
     Starting, Stage
<1>3. CASE GateBudget(r) \/ GateCancelled(r) \/ GatePass(r) \/ GateWake(r) \/ GateUnpause(r)
  BY <1>1, <1>3 DEF GateBudget, GateCancelled, GatePass, GateWake, GateUnpause, AfterGate, Stage
<1>4. CASE \/ EngineStopped(r) \/ EngineFailed(r) \/ FinishCompleted(r)
           \/ Unregister(r) \/ RecordStop(r)
  BY <1>1, <1>4 DEF EngineStopped, EngineFailed, FinishCompleted, Unregister, RecordStop, Stage
<1>. QED  BY <1>2, <1>3, <1>4

LEMMA LeftIsCounted ==
  ASSUME TypeOK, NEW r \in Run
  PROVE  /\ Gates \in Nat /\ passed[r] \in Nat /\ passed[r] <= Gates
         /\ Stage[pc[r]] \in Nat
BY LifecycleAssumption DEF TypeOK, PC, Starting, Task, Ended, Stage

\* A run ends after at most 9 * Gates + 12 steps of its own, whoever cancels,
\* pauses, resumes or scans beside it (scan.rs, start_scan and run_scan).
THEOREM RunsAreBounded == Spec => RunsGoForward
<1>1. ASSUME IInv, IInv', Step, NEW r \in Run
      PROVE  UNCHANGED <<pc[r], passed[r]>> \/ RunLeft(r)' < RunLeft(r)
  <2>. USE DEF IInv
  <2>1. /\ Gates \in Nat /\ passed[r] \in Nat /\ passed[r] <= Gates /\ Stage[pc[r]] \in Nat
        /\ passed'[r] \in Nat /\ passed'[r] <= Gates /\ Stage[pc'[r]] \in Nat
    <3>1. TypeOK /\ TypeOK'
      BY <1>1
    <3>. QED  BY <1>1, <3>1, LeftIsCounted, LifecycleAssumption
              DEF TypeOK, PC, Starting, Task, Ended, Stage
  <2>2. CASE EngineDone(r)
    <3>1. passed'[r] = passed[r] + 1 /\ pc[r] = "work" /\ pc'[r] = "gate"
      BY <1>1, <2>2 DEF EngineDone, Goto, TypeOK
    <3>. QED  BY <2>1, <3>1 DEF RunLeft, Stage
  <2>3. ASSUME NEW p \in Proc, Crash(p)
        PROVE  UNCHANGED <<pc[r], passed[r]>> \/ RunLeft(r)' < RunLeft(r)
    <3>1. passed' = passed
      BY <2>3 DEF Crash, job
    <3>2. pc'[r] = pc[r] \/ (pc'[r] \in {"done", "crashed"} /\ pc[r] \notin {"free"} \cup Ended)
      BY <2>3 DEF Crash
    <3>3. pc[r] \in PC
      BY <1>1 DEF TypeOK
    <3>4. pc[r] \notin {"free"} \cup Ended => Stage[pc[r]] > 0
      BY <3>3 DEF PC, Starting, Task, Ended, Stage
    <3>5. Stage["done"] = 0 /\ Stage["crashed"] = 0
      BY DEF Stage
    <3>. QED  BY <2>1, <3>1, <3>2, <3>4, <3>5 DEF RunLeft
  <2>4. ASSUME NEW q \in Run, EngineDone(q) \/ DropWaiter(q), q = r => ~EngineDone(q)
        PROVE  UNCHANGED <<pc[r], passed[r]>>
    BY <1>1, <2>4 DEF EngineDone, DropWaiter, Goto, job, TypeOK
  <2>5. ASSUME NEW c \in Caller,
               \/ CancelRead(c) \/ RequestCancelFlag(c) \/ CancelStore(c)
               \/ PauseRead(c) \/ SetPauseFlag(c) \/ PauseStore(c)
        PROVE  UNCHANGED <<pc[r], passed[r]>>
    BY <2>5 DEF CancelRead, RequestCancelFlag, CancelStore, PauseRead, SetPauseFlag,
       PauseStore, Ask, job
  <2>6. ASSUME passed' = passed, Stage[pc'[r]] < Stage[pc[r]]
        PROVE  RunLeft(r)' < RunLeft(r)
    BY <2>1, <2>6 DEF RunLeft
  <2>7. CASE \E q \in Run :
             \/ StartNew(q) \/ ResumeRead(q) \/ ResumeCheck(q) \/ ResumeReopen(q)
             \/ AbandonStart(q) \/ Register(q) \/ GateBudget(q) \/ GateCancelled(q)
             \/ GatePass(q) \/ GateWake(q) \/ GateUnpause(q) \/ EngineStopped(q)
             \/ EngineFailed(q) \/ FinishCompleted(q) \/ Unregister(q) \/ RecordStop(q)
    BY <1>1, <2>6, <2>7, StageNears
  <2>. QED  BY <1>1, <2>2, <2>3, <2>4, <2>5, <2>7 DEF Step
<1>. DEFINE Forward(r) == /\ cancel[r] => cancel'[r]
                          /\ \/ UNCHANGED <<pc[r], passed[r]>>
                             \/ RunLeft(r)' < RunLeft(r)
<1>2. ASSUME IInv, IInv', Next, NEW r \in Run
      PROVE  Forward(r)
  <2>1. Step /\ TypeOK
    BY <1>2, NextIsStep DEF IInv
  <2>2. cancel[r] => cancel'[r]
    BY <2>1, FlagsStayUp
  <2>. QED  BY <1>1, <1>2, <2>1, <2>2
<1>. HIDE DEF Forward
<1>3. IInv /\ IInv' /\ [Next]_vars => [\A r \in Run : Forward(r)]_vars
  BY <1>2
<1>. QED  BY <1>3, Invariance, PTL DEF Spec, RunsGoForward, Forward
=============================================================================
