------------------------- MODULE ScanLedger_proofs -------------------------
(* The findings ledger for any number of scans, findings, engines and       *)
(* triagers: its types, the hits that stay on it, and the triage that no    *)
(* engine takes back.                                                       *)
EXTENDS ScanLedger, FiniteSetTheorems, TLAPS

-----------------------------------------------------------------------------
(* The inductive invariant.  What TypeOK does not say: a running scan has a  *)
(* worker, and only a cancelled one may have one besides; a worker past its  *)
(* last engine stays past it; a finding about to be updated, marked or       *)
(* triaged is on the ledger; and what is still pending once the leftovers    *)
(* were listed is in the worker's hands.                                     *)

WorkerInv ==
    \A a \in Assessment :
       /\ status[a] = "running" => pc[a] # "idle"
       /\ pc[a] # "idle" => status[a] \in {"running", "stopped"}
       /\ pc[a] \in {"ingest", "engineDone"} => at[a] <= Len(Engines)
       /\ pc[a] \in {"promote", "close"} => at[a] > Len(Engines)
       /\ pc[a] \in {"ingest", "read", "write", "mark", "engineDone"}
          /\ at[a] <= Len(Engines) /\ Engine(a) \notin Unkeyed
             => unit[a][Engine(a)] # NoUnit
       /\ pc[a] \in {"read", "write", "mark"} => hit[a] \in Finding

KnownInv ==
    /\ \A a \in Assessment :
          /\ pc[a] = "mark" => row[hit[a]] # NoRow
          /\ pc[a] = "write" /\ old[a] # NoRow => row[hit[a]] # NoRow
          /\ \A f \in Finding : cand[a][f] = "confirmed" => row[f] # NoRow
    /\ \A u \in Triager : tri[u] # None => row[tri[u].f] # NoRow

PendingInv ==
    \A a \in Assessment : \A f \in Pending(a) :
       /\ pc[a] # "close" /\ status[a] # "completed"
       /\ pc[a] = "promote" => f \in todo[a]
       /\ pc[a] \in {"read", "write", "mark"} /\ at[a] > Len(Engines) =>
             f \in todo[a] \cup {hit[a]}

IInv == TypeOK /\ WorkerInv /\ KnownInv /\ PendingInv

\* The engines of a scan are finitely many, in a sequence.
LEMMA EnginesFact ==
  /\ Len(Engines) \in Nat
  /\ \A i \in 1..Len(Engines) : Engines[i] \in EngineSet
BY LedgerAssumption DEF EngineSet

LEMMA InitInv == Init => IInv
<1>. SUFFICES ASSUME Init PROVE IInv
  OBVIOUS
<1>1. TypeOK
  <2>1. /\ tree \subseteq Finding
        /\ steady \in [Assessment -> SUBSET Finding]
        /\ ever \in [Assessment -> SUBSET Finding]
        /\ snap \in [Assessment -> SUBSET Finding]
        /\ scope \in [Assessment -> SUBSET Finding]
        /\ todo \in [Assessment -> SUBSET Finding]
    BY DEF Init
  <2>2. /\ row \in [Finding -> Row \cup {NoRow}]
        /\ old \in [Assessment -> Row \cup {NoRow}]
    BY DEF Init
  <2>3. /\ cand \in [Assessment -> [Finding -> {"none", "pending", "confirmed"}]]
        /\ status \in [Assessment -> {"none", "running", "stopped", "completed"}]
        /\ mode \in [Assessment -> Modes]
        /\ pc \in [Assessment -> {"idle"} \cup Busy]
        /\ hit \in [Assessment -> Finding \cup {None}]
    BY DEF Init
  <2>4. unit \in [Assessment -> [EngineSet ->
                    [st : UnitStatus, digest : Digest] \cup {NoUnit}]]
    BY DEF Init
  <2>5. at \in [Assessment -> 1..(Len(Engines) + 1)]
    BY EnginesFact DEF Init
  <2>6. edits \in 0..MaxEdits /\ resumes \in 0..MaxResumes
    BY LedgerAssumption DEF Init
  <2>7. tri \in [Triager -> {None} \cup [f : Finding, to : State,
                   why : {"none", "false_positive"}, mark : BOOLEAN]]
    <3>1. tri = [u \in Triager |-> None]
      BY Zenon DEF Init
    <3>. QED  BY <3>1
  <2>. QED  BY <2>1, <2>2, <2>3, <2>4, <2>5, <2>6, <2>7 DEF TypeOK
<1>2. WorkerInv
  BY DEF Init, WorkerInv
<1>3. KnownInv
  BY DEF Init, KnownInv
<1>4. PendingInv
  BY DEF Init, PendingInv, Pending
<1>. QED  BY <1>1, <1>2, <1>3, <1>4 DEF IInv

-----------------------------------------------------------------------------
(* Steps that leave the findings and the candidates alone.                   *)

\* Starting and resuming: the worker begins at its walk.
LEMMA StartStep ==
  ASSUME IInv, NEW a \in Assessment, StartNew(a) \/ StartResume(a)
  PROVE  IInv'
<1>1. /\ UNCHANGED <<files, row, cand, at, snap, scope, todo, hit, old, tri>>
      /\ pc' = [pc EXCEPT ![a] = "walk"]
      /\ status[a] \in {"none", "stopped"}
      /\ status' = [status EXCEPT ![a] = "running"]
      /\ mode' = mode \/ \E m \in Modes : mode' = [mode EXCEPT ![a] = m]
  <2>1. CASE StartNew(a)
    BY <2>1, Zenon DEF StartNew, Goto
  <2>2. CASE StartResume(a)
    BY <2>2, Zenon DEF StartResume, Goto
  <2>. QED  BY <2>1, <2>2
<1>. mode' \in [Assessment -> Modes]
  BY <1>1 DEF IInv, TypeOK
<1>2. /\ unit' \in [Assessment -> [EngineSet ->
                      [st : UnitStatus, digest : Digest] \cup {NoUnit}]]
      /\ \A b \in Assessment \ {a} : unit'[b] = unit[b]
  <2>1. CASE StartNew(a)
    BY <2>1 DEF StartNew, IInv, TypeOK
  <2>2. CASE StartResume(a)
    <3>. DEFINE again(e) == IF unit[a][e].st = "running"
                            THEN [unit[a][e] EXCEPT !.st = "pending"]
                            ELSE unit[a][e]
    <3>1. unit' = [unit EXCEPT ![a] = [e \in EngineSet |-> again(e)]]
      BY <2>2 DEF StartResume
    <3>2. ASSUME NEW e \in EngineSet
          PROVE  again(e) \in [st : UnitStatus, digest : Digest] \cup {NoUnit}
      <4>1. unit[a][e] \in [st : UnitStatus, digest : Digest] \cup {NoUnit}
        BY DEF IInv, TypeOK
      <4>. QED  BY <4>1 DEF NoUnit, UnitStatus
    <3>. HIDE DEF again
    <3>. QED  BY <3>1, <3>2 DEF IInv, TypeOK
  <2>. QED  BY <2>1, <2>2
<1>3. resumes' \in 0..MaxResumes
  BY LedgerAssumption DEF StartNew, StartResume, IInv, TypeOK
<1>4. TypeOK'
  BY <1>1, <1>2, <1>3 DEF IInv, TypeOK, files, Busy
<1>5. WorkerInv'
  BY <1>1, <1>2 DEF IInv, TypeOK, WorkerInv, Engine
<1>6. KnownInv'
  BY <1>1 DEF IInv, TypeOK, KnownInv
<1>7. PendingInv'
  BY <1>1 DEF IInv, TypeOK, PendingInv, Pending
<1>. QED  BY <1>4, <1>5, <1>6, <1>7 DEF IInv

\* A worker that returns takes its locals with it.
LEMMA LeaveTypes ==
  ASSUME TypeOK, NEW a \in Assessment, Leave(a)
  PROVE  /\ pc' \in [Assessment -> {"idle"} \cup Busy]
         /\ at' \in [Assessment -> 1..(Len(Engines) + 1)]
         /\ snap' \in [Assessment -> SUBSET Finding]
         /\ scope' \in [Assessment -> SUBSET Finding]
         /\ todo' \in [Assessment -> SUBSET Finding]
         /\ hit' \in [Assessment -> Finding \cup {None}]
         /\ old' \in [Assessment -> Row \cup {NoRow}]
BY EnginesFact DEF Leave, Goto, TypeOK

LEMMA StopStep ==
  ASSUME IInv, NEW a \in Assessment, Stop(a)
  PROVE  IInv'
<1>1. /\ UNCHANGED <<files, row, cand, mode, tri, resumes>>
      /\ Leave(a)
      /\ status' = [status EXCEPT ![a] = "stopped"]
  BY DEF Stop
<1>2. /\ unit' \in [Assessment -> [EngineSet ->
                      [st : UnitStatus, digest : Digest] \cup {NoUnit}]]
      /\ \A b \in Assessment \ {a} : unit'[b] = unit[b]
  <2>1. CASE unit' = unit
    BY <2>1 DEF IInv, TypeOK
  <2>2. CASE unit' # unit
    <3>1. /\ pc[a] \in {"ingest", "read", "write", "mark", "engineDone"}
          /\ at[a] <= Len(Engines) /\ Engine(a) \notin Unkeyed
      BY <2>2 DEF Stop
    <3>2. unit' = [unit EXCEPT ![a][Engine(a)].st = "pending"]
      BY <2>2 DEF Stop
    <3>3. Engine(a) \in EngineSet
      BY <3>1, EnginesFact DEF IInv, TypeOK, Engine
    <3>4. /\ unit[a][Engine(a)] \in [st : UnitStatus, digest : Digest]
          /\ unit[a] \in [EngineSet ->
                [st : UnitStatus, digest : Digest] \cup {NoUnit}]
      BY <3>1, <3>3 DEF IInv, TypeOK, WorkerInv
    <3>5. [unit[a][Engine(a)] EXCEPT !.st = "pending"]
             \in [st : UnitStatus, digest : Digest]
      BY <3>4 DEF UnitStatus
    <3>6. unit' = [unit EXCEPT ![a] =
             [unit[a] EXCEPT ![Engine(a)] =
                [unit[a][Engine(a)] EXCEPT !.st = "pending"]]]
      BY <3>2 DEF IInv, TypeOK
    <3>. QED  BY <3>3, <3>4, <3>5, <3>6 DEF IInv, TypeOK
  <2>. QED  BY <2>1, <2>2
<1>3. TypeOK'
  <2>1. status' \in [Assessment -> {"none", "running", "stopped", "completed"}]
    BY <1>1 DEF IInv, TypeOK
  <2>. QED  BY <1>1, <1>2, <2>1, LeaveTypes DEF IInv, TypeOK, files
<1>4. WorkerInv'
  BY <1>1, <1>2 DEF Leave, Goto, IInv, TypeOK, WorkerInv, Engine
<1>5. KnownInv'
  BY <1>1 DEF Leave, Goto, IInv, TypeOK, KnownInv
<1>6. PendingInv'
  BY <1>1 DEF Leave, Goto, IInv, TypeOK, PendingInv, Pending
<1>. QED  BY <1>3, <1>4, <1>5, <1>6 DEF IInv

\* A cancel changes the row of a scan whose worker goes on.
LEMMA CancelStep ==
  ASSUME IInv, NEW a \in Assessment, Cancel(a)
  PROVE  IInv'
<1>1. /\ UNCHANGED <<files, row, cand, unit, worker, tri, resumes>>
      /\ status[a] = "running"
      /\ status' = [status EXCEPT ![a] = "stopped"]
  BY DEF Cancel
<1>2. TypeOK'
  BY <1>1 DEF IInv, TypeOK, files, worker
<1>3. WorkerInv'
  BY <1>1 DEF IInv, TypeOK, WorkerInv, Engine, worker
<1>4. KnownInv'
  BY <1>1 DEF IInv, KnownInv, worker
<1>5. PendingInv'
  BY <1>1 DEF IInv, TypeOK, PendingInv, Pending, worker
<1>. QED  BY <1>2, <1>3, <1>4, <1>5 DEF IInv

LEMMA EditStep ==
  ASSUME IInv, Edit
  PROVE  IInv'
<1>1. /\ UNCHANGED <<row, cand, unit, status, mode, pc, at, snap, scope, todo,
                     hit, old, tri, resumes>>
      /\ tree' \subseteq Finding /\ edits' \in 0..MaxEdits
      /\ steady' \in [Assessment -> SUBSET Finding]
      /\ ever' \in [Assessment -> SUBSET Finding]
  <2>1. ever' = [b \in Assessment |->
                   IF b \in Live THEN ever[b] \cup tree' ELSE ever[b]]
        /\ tree' \subseteq Finding
    BY DEF Edit
  <2>2. ever' \in [Assessment -> SUBSET Finding]
    BY <2>1 DEF IInv, TypeOK
  <2>. QED  BY <2>1, <2>2, LedgerAssumption DEF Edit, table, worker, IInv, TypeOK
<1>2. TypeOK'
  BY <1>1 DEF IInv, TypeOK
<1>3. WorkerInv'
  BY <1>1 DEF IInv, WorkerInv, Engine
<1>4. KnownInv'
  BY <1>1 DEF IInv, KnownInv
<1>5. PendingInv'
  BY <1>1 DEF IInv, PendingInv, Pending
<1>. QED  BY <1>2, <1>3, <1>4, <1>5 DEF IInv

\* The walk, and the passing over of engines.
LEMMA WalkStep ==
  ASSUME IInv, NEW a \in Assessment, Walk(a)
  PROVE  IInv'
<1>1. /\ UNCHANGED <<tree, edits, row, cand, unit, status, mode, at, todo, hit,
                     old, tri, resumes>>
      /\ pc[a] = "walk" /\ pc' = [pc EXCEPT ![a] = "engine"]
      /\ snap' \in [Assessment -> SUBSET Finding]
      /\ steady' \in [Assessment -> SUBSET Finding]
      /\ ever' \in [Assessment -> SUBSET Finding]
  BY DEF Walk, Goto, table, IInv, TypeOK
<1>2. scope' \in [Assessment -> SUBSET Finding]
  BY DEF Walk, IInv, TypeOK
<1>3. TypeOK'
  BY <1>1, <1>2 DEF IInv, TypeOK, Busy
<1>4. WorkerInv'
  BY <1>1 DEF IInv, TypeOK, WorkerInv, Engine
<1>5. KnownInv'
  BY <1>1 DEF IInv, TypeOK, KnownInv
<1>6. PendingInv'
  BY <1>1 DEF IInv, TypeOK, PendingInv, Pending
<1>. QED  BY <1>3, <1>4, <1>5, <1>6 DEF IInv

LEMMA SkipStep ==
  ASSUME IInv, NEW a \in Assessment, SkipEngine(a) \/ SkipDoneUnit(a)
  PROVE  IInv'
<1>1. /\ UNCHANGED <<files, row, cand, unit, status, mode, snap, scope, todo,
                     hit, old, tri, resumes>>
      /\ pc[a] = "engine" /\ pc' = [pc EXCEPT ![a] = "engine"]
      /\ at[a] <= Len(Engines) /\ at' = [at EXCEPT ![a] = @ + 1]
  BY DEF SkipEngine, SkipDoneUnit, NextEngine, Goto, table
<1>2. TypeOK'
  <2>1. at' \in [Assessment -> 1..(Len(Engines) + 1)]
    BY <1>1, EnginesFact DEF IInv, TypeOK
  <2>2. pc' \in [Assessment -> {"idle"} \cup Busy]
    BY <1>1 DEF IInv, TypeOK, Busy
  <2>. QED  BY <1>1, <2>1, <2>2 DEF IInv, TypeOK, files
<1>3. WorkerInv'
  BY <1>1 DEF IInv, TypeOK, WorkerInv, Engine
<1>4. KnownInv'
  BY <1>1 DEF IInv, TypeOK, KnownInv
<1>5. PendingInv'
  BY <1>1 DEF IInv, TypeOK, PendingInv, Pending
<1>. QED  BY <1>2, <1>3, <1>4, <1>5 DEF IInv

\* An engine runs: its unit is there, its hits are findings.
LEMMA RunStep ==
  ASSUME IInv, NEW a \in Assessment, RunEngine(a)
  PROVE  IInv'
<1>. DEFINE U == [st : UnitStatus, digest : Digest]
<1>1. /\ UNCHANGED <<files, row, cand, status, mode, at, snap, scope, hit, old,
                     tri, resumes>>
      /\ pc[a] = "engine" /\ at[a] <= Len(Engines)
      /\ pc' = [pc EXCEPT ![a] = "ingest"]
  BY DEF RunEngine, Goto
<1>2. /\ todo' \in [Assessment -> SUBSET Finding]
      /\ \A b \in Assessment \ {a} : todo'[b] = todo[b]
  <2>1. PICK hits \in Reports(a, Engine(a)) : todo' = [todo EXCEPT ![a] = hits]
    BY DEF RunEngine
  <2>2. hits \subseteq Finding
    BY <2>1 DEF Reports, IInv, TypeOK
  <2>. QED  BY <2>1, <2>2 DEF IInv, TypeOK
<1>3. /\ unit' \in [Assessment -> [EngineSet -> U \cup {NoUnit}]]
      /\ \A b \in Assessment \ {a} : unit'[b] = unit[b]
      /\ Engine(a) \notin Unkeyed => unit'[a][Engine(a)] \in U
  <2>1. CASE Engine(a) \in Unkeyed
    BY <2>1 DEF RunEngine, IInv, TypeOK
  <2>2. CASE Engine(a) \notin Unkeyed
    <3>. DEFINE new == [st |-> "running", digest |-> InputDigest(a)]
    <3>1. new \in U
      BY DEF InputDigest, Digest, UnitStatus, IInv, TypeOK
    <3>2. Engine(a) \in EngineSet
      BY <1>1, EnginesFact DEF IInv, TypeOK, Engine
    <3>3. unit' = [unit EXCEPT ![a][Engine(a)] = new]
      BY <2>2 DEF RunEngine
    <3>4. unit[a] \in [EngineSet -> U \cup {NoUnit}]
      BY DEF IInv, TypeOK
    <3>5. unit' = [unit EXCEPT ![a] = [unit[a] EXCEPT ![Engine(a)] = new]]
      BY <3>3
    <3>6. [unit[a] EXCEPT ![Engine(a)] = new] \in [EngineSet -> U \cup {NoUnit}]
      <4>. HIDE DEF new, U
      <4>. QED  BY <3>1, <3>4
    <3>. HIDE DEF new, U
    <3>7. unit \in [Assessment -> [EngineSet -> U \cup {NoUnit}]]
      BY DEF IInv, TypeOK, U
    <3>. QED  BY <3>1, <3>2, <3>4, <3>5, <3>6, <3>7
  <2>. QED  BY <2>1, <2>2
<1>4. TypeOK'
  BY <1>1, <1>2, <1>3 DEF IInv, TypeOK, files, Busy
<1>5. WorkerInv'
  <2>1. NoUnit \notin U
    BY DEF NoUnit, UnitStatus
  <2>2. Engine(a)' = Engine(a)
    BY <1>1 DEF Engine
  <2>. HIDE DEF U
  <2>. QED  BY <1>1, <1>3, <2>1, <2>2 DEF IInv, TypeOK, WorkerInv, Engine
<1>6. KnownInv'
  BY <1>1 DEF IInv, TypeOK, KnownInv
<1>7. PendingInv'
  BY <1>1, <1>2 DEF IInv, TypeOK, PendingInv, Pending
<1>. QED  BY <1>4, <1>5, <1>6, <1>7 DEF IInv

LEMMA FinishUnitStep ==
  ASSUME IInv, NEW a \in Assessment, FinishUnit(a)
  PROVE  IInv'
<1>. DEFINE U == [st : UnitStatus, digest : Digest]
<1>1. /\ UNCHANGED <<files, row, cand, status, mode, snap, scope, todo, hit,
                     old, tri, resumes>>
      /\ pc[a] = "engineDone" /\ pc' = [pc EXCEPT ![a] = "engine"]
      /\ at' = [at EXCEPT ![a] = @ + 1]
  BY DEF FinishUnit, NextEngine, Goto
<1>2. at[a] <= Len(Engines)
  BY <1>1 DEF IInv, WorkerInv
<1>3. /\ unit' \in [Assessment -> [EngineSet -> U \cup {NoUnit}]]
      /\ \A b \in Assessment \ {a} : unit'[b] = unit[b]
  <2>1. CASE Engine(a) \in Unkeyed
    BY <2>1 DEF FinishUnit, IInv, TypeOK
  <2>2. CASE Engine(a) \notin Unkeyed
    <3>1. unit' = [unit EXCEPT ![a][Engine(a)].st = "done"]
      BY <2>2 DEF FinishUnit
    <3>2. Engine(a) \in EngineSet
      BY <1>2, EnginesFact DEF IInv, TypeOK, Engine
    <3>3. unit[a][Engine(a)] \in U /\ unit[a] \in [EngineSet -> U \cup {NoUnit}]
      BY <1>1, <1>2, <2>2, <3>2 DEF IInv, TypeOK, WorkerInv
    <3>. DEFINE new == [unit[a][Engine(a)] EXCEPT !.st = "done"]
    <3>4. new \in U
      BY <3>3 DEF UnitStatus
    <3>5. unit' = [unit EXCEPT ![a] = [unit[a] EXCEPT ![Engine(a)] = new]]
      BY <3>1
    <3>6. unit \in [Assessment -> [EngineSet -> U \cup {NoUnit}]]
      BY DEF IInv, TypeOK
    <3>. HIDE DEF new, U
    <3>. QED  BY <3>3, <3>4, <3>5, <3>6
  <2>. QED  BY <2>1, <2>2
<1>4. TypeOK'
  <2>1. at' \in [Assessment -> 1..(Len(Engines) + 1)]
    BY <1>1, <1>2, EnginesFact DEF IInv, TypeOK
  <2>2. pc' \in [Assessment -> {"idle"} \cup Busy]
    BY <1>1 DEF IInv, TypeOK, Busy
  <2>. QED  BY <1>1, <1>3, <2>1, <2>2 DEF IInv, TypeOK, files
<1>5. WorkerInv'
  BY <1>1, <1>3 DEF IInv, TypeOK, WorkerInv, Engine
<1>6. KnownInv'
  BY <1>1 DEF IInv, TypeOK, KnownInv
<1>7. PendingInv'
  BY <1>1 DEF IInv, TypeOK, PendingInv, Pending
<1>. QED  BY <1>4, <1>5, <1>6, <1>7 DEF IInv

-----------------------------------------------------------------------------
(* The candidates and the findings.                                          *)

\* A hit becomes a candidate, pending unless it was known.
LEMMA CandidateStep ==
  ASSUME IInv, NEW a \in Assessment, UpsertCandidate(a)
  PROVE  IInv'
<1>1. /\ UNCHANGED <<files, row, unit, status, mode, at, snap, scope, old, tri,
                     resumes>>
      /\ pc[a] = "ingest" /\ pc' = [pc EXCEPT ![a] = "read"]
  BY DEF UpsertCandidate, Goto
<1>2. PICK f \in todo[a] :
         /\ cand' = [cand EXCEPT ![a][f] = Record(cand[a][f])]
         /\ hit' = [hit EXCEPT ![a] = f]
         /\ todo' = [todo EXCEPT ![a] = @ \ {f}]
  BY DEF UpsertCandidate, IInv, TypeOK
<1>3. f \in Finding
  BY <1>2 DEF IInv, TypeOK
<1>4. /\ cand' \in [Assessment -> [Finding -> {"none", "pending", "confirmed"}]]
      /\ \A b \in Assessment \ {a} : cand'[b] = cand[b]
      /\ \A g \in Finding : cand'[a][g] = "confirmed" => cand[a][g] = "confirmed"
  BY <1>2, <1>3 DEF IInv, TypeOK, Record
<1>5. TypeOK'
  BY <1>1, <1>2, <1>3, <1>4 DEF IInv, TypeOK, files, Busy
<1>6. WorkerInv'
  BY <1>1, <1>2, <1>3 DEF IInv, TypeOK, WorkerInv, Engine
<1>7. KnownInv'
  BY <1>1, <1>2, <1>4 DEF IInv, TypeOK, KnownInv
<1>8. PendingInv'
  <2>1. at[a] <= Len(Engines)
    BY <1>1 DEF IInv, WorkerInv
  <2>2. status[a] # "completed"
    BY <1>1 DEF IInv, WorkerInv
  <2>3. ~(at'[a] > Len(Engines))
    BY <1>1, <2>1, EnginesFact DEF IInv, TypeOK
  <2>. QED  BY <1>1, <1>2, <1>4, <2>2, <2>3 DEF IInv, TypeOK, PendingInv, Pending
<1>. QED  BY <1>5, <1>6, <1>7, <1>8 DEF IInv

\* The worker changes what it is at, and neither table: the end of an
\* ingestion, the reading of a finding, the lists of leftovers and of absent
\* findings, the next leftover.
LEMMA ReadStep ==
  ASSUME IInv, NEW a \in Assessment, IngestDone(a) \/ ReadFinding(a)
  PROVE  IInv'
<1>1. /\ UNCHANGED <<files, row, cand, unit, status, mode, at, snap, scope, todo,
                     hit, tri, resumes>>
      /\ \/ /\ pc[a] = "ingest" /\ pc' = [pc EXCEPT ![a] = "engineDone"]
            /\ old' = old
         \/ /\ pc[a] = "read" /\ pc' = [pc EXCEPT ![a] = "write"]
            /\ old' = [old EXCEPT ![a] = row[hit[a]]]
  <2>1. CASE IngestDone(a)
    BY <2>1 DEF IngestDone, Goto, table
  <2>2. CASE ReadFinding(a)
    BY <2>2 DEF ReadFinding, Goto, table
  <2>. QED  BY <2>1, <2>2
<1>2. TypeOK'
  <2>1. old' \in [Assessment -> Row \cup {NoRow}]
    BY <1>1 DEF IInv, TypeOK, WorkerInv
  <2>2. pc' \in [Assessment -> {"idle"} \cup Busy]
    BY <1>1 DEF IInv, TypeOK, Busy
  <2>. QED  BY <1>1, <2>1, <2>2 DEF IInv, TypeOK, files
<1>3. WorkerInv'
  BY <1>1 DEF IInv, TypeOK, WorkerInv, Engine
<1>4. KnownInv'
  BY <1>1 DEF IInv, TypeOK, KnownInv
<1>5. PendingInv'
  BY <1>1 DEF IInv, TypeOK, PendingInv, Pending
<1>. QED  BY <1>2, <1>3, <1>4, <1>5 DEF IInv

LEMMA ListStep ==
  ASSUME IInv, NEW a \in Assessment,
         ListPending(a) \/ Promote(a) \/ SelectAbsent(a)
  PROVE  IInv'
<1>1. /\ UNCHANGED <<files, row, cand, unit, status, mode, at, snap, scope, old,
                     tri, resumes>>
      /\ at[a] > Len(Engines)
      /\ \/ /\ pc[a] = "engine" /\ pc' = [pc EXCEPT ![a] = "promote"]
            /\ todo' = [todo EXCEPT ![a] = Pending(a)] /\ hit' = hit
         \/ /\ pc[a] = "promote" /\ pc' = [pc EXCEPT ![a] = "read"]
            /\ \E f \in todo[a] : /\ hit' = [hit EXCEPT ![a] = f]
                                  /\ todo' = [todo EXCEPT ![a] = @ \ {f}]
         \/ /\ pc[a] = "promote" /\ pc' = [pc EXCEPT ![a] = "close"]
            /\ todo[a] = {} /\ hit' = hit
            /\ todo' = [todo EXCEPT ![a] = Absent(a)]
  <2>1. CASE ListPending(a)
    BY <2>1 DEF ListPending, Goto, table
  <2>2. CASE Promote(a)
    BY <2>2 DEF Promote, Goto, table, IInv, WorkerInv
  <2>3. CASE SelectAbsent(a)
    BY <2>3 DEF SelectAbsent, Goto, table, IInv, WorkerInv
  <2>. QED  BY <2>1, <2>2, <2>3
<1>2. /\ todo' \in [Assessment -> SUBSET Finding]
      /\ hit' \in [Assessment -> Finding \cup {None}]
      /\ pc' \in [Assessment -> {"idle"} \cup Busy]
      /\ \A b \in Assessment \ {a} :
            pc'[b] = pc[b] /\ todo'[b] = todo[b] /\ hit'[b] = hit[b]
      /\ pc[a] \in {"engine", "promote"} /\ pc'[a] \in {"promote", "read", "close"}
      /\ pc'[a] = "promote" => todo'[a] = Pending(a)
      /\ pc'[a] = "read" => /\ pc[a] = "promote" /\ hit'[a] \in Finding
                            /\ todo'[a] = todo[a] \ {hit'[a]}
      /\ pc'[a] = "close" => pc[a] = "promote" /\ todo[a] = {}
  <2>. USE DEF IInv, TypeOK, Busy
  <2>1. CASE pc[a] = "engine"
    <3>1. Pending(a) \in SUBSET Finding
      BY DEF Pending
    <3>2. /\ pc' = [pc EXCEPT ![a] = "promote"] /\ hit' = hit
          /\ todo' = [todo EXCEPT ![a] = Pending(a)]
      <4>. HIDE DEF IInv, TypeOK
      <4>. QED  BY <1>1, <2>1
    <3>. QED  BY <2>1, <3>1, <3>2
  <2>2. CASE pc[a] = "promote" /\ pc' = [pc EXCEPT ![a] = "read"]
    <3>1. PICK f \in todo[a] : /\ hit' = [hit EXCEPT ![a] = f]
                               /\ todo' = [todo EXCEPT ![a] = @ \ {f}]
      BY <1>1, <2>2
    <3>. QED  BY <2>2, <3>1
  <2>3. CASE pc[a] = "promote" /\ pc' = [pc EXCEPT ![a] = "close"]
    <3>1. Absent(a) \in SUBSET Finding
      BY DEF Absent
    <3>2. /\ hit' = hit /\ todo[a] = {}
          /\ todo' = [todo EXCEPT ![a] = Absent(a)]
      <4>1. pc'[a] = "close"
        BY <2>3
      <4>2. pc' # [pc EXCEPT ![a] = "read"]
        BY <4>1
      <4>. HIDE DEF IInv, TypeOK
      <4>. QED  BY <1>1, <2>3, <4>2
    <3>. QED  BY <2>3, <3>1, <3>2
  <2>. QED  BY <1>1, <2>1, <2>2, <2>3
<1>3. TypeOK'
  BY <1>1, <1>2 DEF IInv, TypeOK, files
<1>4. WorkerInv'
  <2>1. ~(at[a] <= Len(Engines))
    BY <1>1, EnginesFact DEF IInv, TypeOK
  <2>. QED  BY <1>1, <1>2, <2>1 DEF IInv, WorkerInv, Engine
<1>5. KnownInv'
  BY <1>1, <1>2 DEF IInv, KnownInv
<1>6. PendingInv'
  <2>1. status[a] # "completed"
    BY <1>2 DEF IInv, WorkerInv
  <2>2. \A b \in Assessment : Pending(b)' = Pending(b)
    BY <1>1 DEF Pending
  <2>. QED  BY <1>1, <1>2, <2>1, <2>2 DEF IInv, PendingInv
<1>. QED  BY <1>3, <1>4, <1>5, <1>6 DEF IInv

\* The candidate of a finding now on the ledger is confirmed.
LEMMA MarkStep ==
  ASSUME IInv, NEW a \in Assessment, MarkConfirmed(a)
  PROVE  IInv'
<1>1. /\ UNCHANGED <<files, row, unit, status, mode, at, snap, scope, todo, tri,
                     resumes>>
      /\ pc[a] = "mark"
      /\ pc' = [pc EXCEPT ![a] = IF at[a] <= Len(Engines) THEN "ingest"
                                 ELSE "promote"]
      /\ cand' = [cand EXCEPT ![a][hit[a]] = "confirmed"]
      /\ hit' = [hit EXCEPT ![a] = None]
      /\ old' = [old EXCEPT ![a] = NoRow]
  BY DEF MarkConfirmed, Goto
<1>2. hit[a] \in Finding /\ row[hit[a]] # NoRow /\ status[a] # "completed"
  BY <1>1 DEF IInv, WorkerInv, KnownInv
<1>3. /\ cand' \in [Assessment -> [Finding -> {"none", "pending", "confirmed"}]]
      /\ \A b \in Assessment \ {a} : cand'[b] = cand[b]
      /\ \A g \in Finding \ {hit[a]} : cand'[a][g] = cand[a][g]
      /\ cand'[a][hit[a]] = "confirmed"
  BY <1>1, <1>2 DEF IInv, TypeOK
<1>4. TypeOK'
  <2>1. pc' \in [Assessment -> {"idle"} \cup Busy]
    BY <1>1 DEF IInv, TypeOK, Busy
  <2>2. /\ hit' \in [Assessment -> Finding \cup {None}]
        /\ old' \in [Assessment -> Row \cup {NoRow}]
    BY <1>1 DEF IInv, TypeOK
  <2>. QED  BY <1>1, <1>3, <2>1, <2>2 DEF IInv, TypeOK, files
<1>5. WorkerInv'
  BY <1>1, EnginesFact DEF IInv, TypeOK, WorkerInv, Engine
<1>6. KnownInv'
  BY <1>1, <1>2, <1>3 DEF IInv, TypeOK, KnownInv
<1>7. PendingInv'
  BY <1>1, <1>2, <1>3, EnginesFact DEF IInv, TypeOK, PendingInv, Pending
<1>. QED  BY <1>4, <1>5, <1>6, <1>7 DEF IInv

-----------------------------------------------------------------------------
(* The writes to the findings table.  What every one of them leaves to be    *)
(* shown: rows stay rows, and no finding leaves the ledger.                  *)

Grows == /\ row' \in [Finding -> Row \cup {NoRow}]
         /\ \A f \in Finding : row[f] # NoRow => row'[f] # NoRow

LEMMA RowFacts ==
  /\ NoRow \notin Row
  /\ \A r \in Row : /\ r.state \in State /\ r.seen \in Assessment
                    /\ r.reason \in Reason /\ r.mark \in BOOLEAN
  /\ \A st \in State, a \in Assessment, why \in Reason, m \in BOOLEAN :
        [state |-> st, seen |-> a, reason |-> why, mark |-> m] \in Row
BY DEF Row, NoRow, State

\* The row WriteFinding leaves is on the ledger.
LEMMA WrittenRow ==
  ASSUME IInv, NEW a \in Assessment, WriteFinding(a)
  PROVE  Grows /\ row'[hit[a]] # NoRow
<1>. DEFINE f == hit[a]
            new == IF old[a] = NoRow THEN FirstSeen(a)
                   ELSE SeenAgain(row[f], old[a], a)
<1>1. /\ pc[a] = "write" /\ f \in Finding
      /\ row[f] \in Row \cup {NoRow} /\ old[a] \in Row \cup {NoRow}
      /\ old[a] = NoRow <=> row[f] = NoRow \/ old[a] = NoRow
  BY DEF WriteFinding, IInv, TypeOK, WorkerInv, KnownInv
<1>2. row' = [row EXCEPT ![f] = new]
  BY <1>1 DEF WriteFinding, IInv, TypeOK
<1>3. CASE old[a] = NoRow
  <2>1. row[f] = NoRow
    BY <1>3 DEF WriteFinding
  <2>2. new \in Row
    BY <1>3, RowFacts DEF FirstSeen, State, Reason
  <2>. HIDE DEF new
  <2>. QED  BY <1>1, <1>2, <2>2, RowFacts DEF Grows, IInv, TypeOK
<1>4. CASE old[a] # NoRow
  <2>1. row[f] \in Row /\ old[a] \in Row
    BY <1>1, <1>4 DEF IInv, KnownInv
  <2>2. new = SeenAgain(row[f], old[a], a)
    BY <1>4
  <2>3. new \in Row
    BY <2>1, <2>2, RowFacts DEF SeenAgain, State, Reason
  <2>. HIDE DEF new
  <2>. QED  BY <1>1, <1>2, <2>3, RowFacts DEF Grows, IInv, TypeOK
<1>. QED  BY <1>3, <1>4

LEMMA WriteStep ==
  ASSUME IInv, NEW a \in Assessment, WriteFinding(a)
  PROVE  IInv'
<1>1. /\ UNCHANGED <<files, cand, unit, status, mode, at, snap, scope, todo, hit,
                     tri, resumes>>
      /\ old' = [old EXCEPT ![a] = NoRow]
      /\ pc[a] = "write" /\ pc' = [pc EXCEPT ![a] = "mark"]
  BY DEF WriteFinding, Goto
<1>2. Grows /\ row'[hit[a]] # NoRow
  BY WrittenRow
<1>3. TypeOK'
  BY <1>1, <1>2 DEF IInv, TypeOK, Grows, files, Busy
<1>4. WorkerInv'
  BY <1>1 DEF IInv, TypeOK, WorkerInv, Engine
<1>5. KnownInv'
  BY <1>1, <1>2 DEF IInv, TypeOK, KnownInv, WorkerInv, Grows
<1>6. PendingInv'
  BY <1>1 DEF IInv, TypeOK, PendingInv, Pending
<1>. QED  BY <1>3, <1>4, <1>5, <1>6 DEF IInv

\* Closing leaves a row of the ledger.
LEMMA ClosedRow ==
  ASSUME IInv, NEW a \in Assessment, CloseAbsent(a)
  PROVE  Grows
<1>1. PICK f \in todo[a] :
         row' = [row EXCEPT ![f].state = "verified_fixed",
                            ![f].reason = "absent_from_scan",
                            ![f].seen = a]
  BY DEF CloseAbsent
<1>. DEFINE new == [row[f] EXCEPT !.state = "verified_fixed",
                                  !.reason = "absent_from_scan", !.seen = a]
<1>2. f \in Finding /\ row[f] \in Row \cup {NoRow}
  BY DEF IInv, TypeOK
<1>3. row' = [row EXCEPT ![f] = new]
  BY <1>1, <1>2 DEF IInv, TypeOK
<1>4. new \in Row
  <2>. DEFINE W == [state : State \cup {"none"}, seen : Assessment \cup {None},
                    reason : Reason, mark : BOOLEAN]
  <2>1. row[f] \in W
    <3>1. NoRow \in W
      BY DEF NoRow, Reason
    <3>2. \A r \in Row : r \in W
      BY DEF Row
    <3>. HIDE DEF W
    <3>. QED  BY <1>2, <3>1, <3>2
  <2>. QED  BY <2>1 DEF Row, State, Reason
<1>. HIDE DEF new
<1>. QED  BY <1>2, <1>3, <1>4, RowFacts DEF Grows, IInv, TypeOK

LEMMA CloseStep ==
  ASSUME IInv, NEW a \in Assessment, CloseAbsent(a)
  PROVE  IInv'
<1>1. /\ UNCHANGED <<files, cand, unit, status, mode, pc, at, snap, scope, hit,
                     old, tri, resumes>>
      /\ pc[a] = "close"
      /\ \E f \in todo[a] : todo' = [todo EXCEPT ![a] = @ \ {f}]
  BY DEF CloseAbsent
<1>2. Grows
  BY ClosedRow
<1>3. TypeOK'
  <2>1. todo' \in [Assessment -> SUBSET Finding]
    BY <1>1 DEF IInv, TypeOK
  <2>. QED  BY <1>1, <1>2, <2>1 DEF IInv, TypeOK, Grows, files
<1>4. WorkerInv'
  BY <1>1 DEF IInv, TypeOK, WorkerInv, Engine
<1>5. KnownInv'
  BY <1>1, <1>2 DEF IInv, TypeOK, KnownInv, WorkerInv, Grows
<1>6. PendingInv'
  BY <1>1 DEF IInv, TypeOK, PendingInv, Pending
<1>. QED  BY <1>3, <1>4, <1>5, <1>6 DEF IInv

LEMMA CompleteStep ==
  ASSUME IInv, NEW a \in Assessment, Complete(a)
  PROVE  IInv'
<1>1. /\ UNCHANGED <<files, row, cand, unit, mode, tri, resumes>>
      /\ pc[a] = "close" /\ Leave(a)
      /\ \E st \in {"stopped", "completed"} : status' = [status EXCEPT ![a] = st]
  BY DEF Complete, FinishCompleted, IInv, TypeOK, WorkerInv
<1>2. TypeOK'
  <2>1. status' \in [Assessment -> {"none", "running", "stopped", "completed"}]
    BY <1>1 DEF IInv, TypeOK
  <2>. QED  BY <1>1, <2>1, LeaveTypes DEF IInv, TypeOK, files
<1>3. WorkerInv'
  BY <1>1 DEF Leave, Goto, IInv, TypeOK, WorkerInv, Engine
<1>4. KnownInv'
  BY <1>1 DEF Leave, Goto, IInv, TypeOK, KnownInv
<1>5. PendingInv'
  BY <1>1 DEF Leave, Goto, IInv, TypeOK, PendingInv, Pending
<1>. QED  BY <1>2, <1>3, <1>4, <1>5 DEF IInv

\* Triage: a request is about a finding of the ledger.
LEMMA TriageReadStep ==
  ASSUME IInv, NEW u \in Triager, TriageRead(u)
  PROVE  IInv'
<1>. DEFINE Request == [f : Finding, to : State,
                        why : {"none", "false_positive"}, mark : BOOLEAN]
<1>1. UNCHANGED <<files, table, worker, resumes>>
  BY DEF TriageRead
<1>2. PICK f \in Finding, to \in Verdicts, why \in {"none", "false_positive"} :
         /\ row[f] # NoRow
         /\ tri' = [tri EXCEPT ![u] = [f |-> f, to |-> to, why |-> why,
                                       mark |-> row[f].mark]]
  BY DEF TriageRead
<1>3. [f |-> f, to |-> to, why |-> why, mark |-> row[f].mark] \in Request
  BY <1>2, RowFacts, LedgerAssumption DEF IInv, TypeOK, State
<1>4. tri' \in [Triager -> {None} \cup Request]
  BY <1>2, <1>3 DEF IInv, TypeOK
<1>5. TypeOK'
  BY <1>1, <1>4 DEF IInv, TypeOK, files, table, worker
<1>6. WorkerInv'
  BY <1>1 DEF IInv, WorkerInv, Engine, table, worker
<1>7. KnownInv'
  BY <1>1, <1>2 DEF IInv, TypeOK, KnownInv, table, worker
<1>8. PendingInv'
  BY <1>1 DEF IInv, PendingInv, Pending, table, worker
<1>. QED  BY <1>5, <1>6, <1>7, <1>8 DEF IInv

\* Triage writes its own finding's row.
LEMMA TriagedRow ==
  ASSUME IInv, NEW u \in Triager, TriageWrite(u)
  PROVE  /\ Grows
         /\ \A f \in Finding \ {tri[u].f} : row'[f] = row[f]
<1>. DEFINE f == tri[u].f
            m == Mark(tri[u])
            new == [row[f] EXCEPT !.state = tri[u].to, !.reason = tri[u].why,
                                  !.mark = m]
<1>1. /\ f \in Finding /\ tri[u].to \in State
      /\ tri[u].why \in {"none", "false_positive"}
      /\ row[f] \in Row
  BY DEF TriageWrite, IInv, TypeOK, KnownInv
<1>2. m \in BOOLEAN
  BY DEF Mark
<1>3. row' = [row EXCEPT ![f] = new]
  BY <1>1 DEF TriageWrite, IInv, TypeOK
<1>4. new \in Row
  <2>. HIDE DEF m, f
  <2>. QED  BY <1>1, <1>2 DEF Row, Reason, f
<1>. HIDE DEF new, f
<1>. QED  BY <1>1, <1>3, <1>4, RowFacts DEF Grows, IInv, TypeOK, f

LEMMA TriageWriteStep ==
  ASSUME IInv, NEW u \in Triager, TriageWrite(u)
  PROVE  IInv'
<1>1. /\ UNCHANGED <<files, cand, unit, status, worker, resumes>>
      /\ tri' = [tri EXCEPT ![u] = None]
  BY DEF TriageWrite
<1>2. Grows
  BY TriagedRow
<1>3. TypeOK'
  <2>1. tri' \in [Triager -> {None} \cup [f : Finding, to : State,
                   why : {"none", "false_positive"}, mark : BOOLEAN]]
    BY <1>1 DEF IInv, TypeOK
  <2>. QED  BY <1>1, <1>2, <2>1 DEF IInv, TypeOK, Grows, files, worker
<1>4. WorkerInv'
  BY <1>1 DEF IInv, WorkerInv, Engine, worker
<1>5. KnownInv'
  BY <1>1, <1>2 DEF IInv, TypeOK, KnownInv, WorkerInv, Grows, worker
<1>6. PendingInv'
  BY <1>1 DEF IInv, PendingInv, Pending, worker
<1>. QED  BY <1>3, <1>4, <1>5, <1>6 DEF IInv

-----------------------------------------------------------------------------
\* An INSERT that the UNIQUE constraint refuses stops the scan.
LEMMA ConflictStep ==
  ASSUME IInv, NEW a \in Assessment, InsertConflict(a)
  PROVE  IInv'
BY StopStep DEF InsertConflict

LEMMA InvStep == IInv /\ [Next]_vars => IInv'
<1>. SUFFICES ASSUME IInv, [Next]_vars PROVE IInv'
  OBVIOUS
<1>1. ASSUME NEW a \in Assessment,
             StartNew(a) \/ StartResume(a) \/ Cancel(a) \/ Stop(a)
      PROVE  IInv'
  BY <1>1, StartStep, CancelStep, StopStep
<1>2. ASSUME NEW a \in Assessment, Step(a)
      PROVE  IInv'
  BY <1>2, WalkStep, SkipStep, RunStep, CandidateStep, ReadStep, FinishUnitStep,
     WriteStep, ConflictStep, MarkStep, ListStep, CloseStep, CompleteStep
     DEF Step
<1>3. ASSUME NEW u \in Triager, TriageRead(u) \/ TriageWrite(u)
      PROVE  IInv'
  BY <1>3, TriageReadStep, TriageWriteStep
<1>4. CASE Edit
  BY <1>4, EditStep
<1>5. CASE UNCHANGED vars
  <2>1. TypeOK'
    BY <1>5 DEF IInv, TypeOK, vars, files, table, worker
  <2>2. WorkerInv'
    BY <1>5 DEF IInv, WorkerInv, Engine, vars, table, worker
  <2>3. KnownInv'
    BY <1>5 DEF IInv, KnownInv, vars, table, worker
  <2>4. PendingInv'
    BY <1>5 DEF IInv, PendingInv, Pending, vars, table, worker
  <2>. QED  BY <2>1, <2>2, <2>3, <2>4 DEF IInv
<1>. QED  BY <1>1, <1>2, <1>3, <1>4, <1>5 DEF Next

LEMMA Invariance == Spec => []IInv
<1>1. QED  BY InitInv, InvStep, PTL DEF Spec

\* Every table and every worker keeps its type (the columns of findings,
\* candidates, work_units and assessments in store.rs).
THEOREM LedgerTypes == Spec => []TypeOK
<1>1. IInv => TypeOK
  BY DEF IInv
<1>. QED  BY <1>1, Invariance, PTL

\* A completed scan leaves no hit in the review queue, and no candidate is
\* confirmed without its finding, whatever scans overlap, stop and resume.
THEOREM HitsStay == Spec => []HitsOnLedger
<1>1. IInv => HitsOnLedger
  BY DEF IInv, HitsOnLedger, KnownInv, PendingInv, Pending
<1>. QED  BY <1>1, Invariance, PTL

-----------------------------------------------------------------------------
(* Triage *)

\* A row is changed by the write of a finding, the closing of one, or triage.
LEMMA RowChanges ==
  ASSUME Next, row' # row
  PROVE  \/ \E a \in Assessment : WriteFinding(a) \/ CloseAbsent(a)
         \/ \E u \in Triager : TriageWrite(u)
<1>1. ASSUME NEW a \in Assessment,
             StartNew(a) \/ StartResume(a) \/ Cancel(a) \/ Stop(a)
      PROVE  FALSE
  BY <1>1 DEF StartNew, StartResume, Cancel, Stop
<1>2. ASSUME NEW a \in Assessment, Step(a)
      PROVE  WriteFinding(a) \/ CloseAbsent(a)
  <2>1. InsertConflict(a) => FALSE
    BY DEF InsertConflict, Stop
  <2>. QED
    BY <1>2, <2>1 DEF Step, Walk, SkipEngine, SkipDoneUnit, RunEngine,
       UpsertCandidate, IngestDone, FinishUnit, ReadFinding, MarkConfirmed,
       ListPending, Promote, SelectAbsent, Complete, table
<1>3. ASSUME NEW u \in Triager, TriageRead(u)
      PROVE  FALSE
  BY <1>3 DEF TriageRead, table
<1>4. ~Edit
  BY DEF Edit, table
<1>. QED  BY <1>1, <1>2, <1>3, <1>4 DEF Next

-----------------------------------------------------------------------------
(* Nothing swallowed of the engines that read the walked files, for any      *)
(* number of edits that do not bring back files some unit was recorded for:  *)
(* after one that does, a unit may be done for files that its engine did not *)
(* see.  A unit that is done for the present files, or for the walked ones,  *)
(* has all it should report of them, or of what is steady, among the         *)
(* candidates; so has the engine at work, or they are yet to ingest; and so  *)
(* have the engines passed.  Of the engines that ask git nothing is said:    *)
(* what they look at is no part of the digest.                               *)

\* What the digest tells of a tree.
Digested(t) == {f \in t : Category[f] \notin Outside}

NoTreeBack ==
    [][\A a \in Assessment, e \in EngineSet :
         Digested(tree') # Digested(tree) /\ unit[a][e] # NoUnit =>
            unit[a][e].digest.tree # Digested(tree')]_vars

\* Findings that do not hang on services that may be out of reach.
Sure(f) == Offline => Category[f] \notin Unkeyed

Walked == Busy \ {"walk"}

TreeInv(a) ==
    pc[a] \in Walked =>
       /\ steady[a] \subseteq snap[a] \cap tree
       /\ mode[a] # "diff" => scope[a] = Finding

UnitInv(a) ==
    \A e \in EngineSet :
       unit[a][e].st = "done" /\ unit[a][e].digest.mode # "diff"
       /\ e \notin Outside =>
          /\ unit[a][e].digest.tree = Digested(tree) =>
               \A f \in tree : Category[f] = e => cand[a][f] # "none"
          /\ pc[a] \in Walked /\ unit[a][e].digest.tree = Digested(snap[a]) =>
               \A f \in steady[a] : Category[f] = e => cand[a][f] # "none"

AtWork(a) ==
    /\ pc[a] \in {"ingest", "read", "write", "mark", "engineDone"}
    /\ at[a] <= Len(Engines)

HandInv(a) ==
    AtWork(a) =>
       /\ Engine(a) \notin Unkeyed =>
            unit[a][Engine(a)].digest = InputDigest(a)
       /\ mode[a] # "diff" =>
            /\ \A f \in steady[a] \ todo[a] :
                  Category[f] = Engine(a) /\ Sure(f) => cand[a][f] # "none"
            /\ Engine(a) \notin Unkeyed \cup Outside
               /\ Digested(snap[a]) = Digested(tree) =>
                  \A f \in tree \ todo[a] :
                     Category[f] = Engine(a) => cand[a][f] # "none"
       /\ pc[a] = "engineDone" => todo[a] = {}

PassInv(a) ==
    /\ pc[a] \in {"idle", "walk"} => at[a] = 1
    /\ (pc[a] \in Walked \/ status[a] = "completed") /\ mode[a] # "diff" =>
         \A f \in steady[a], i \in 1..Len(Engines) :
            Category[f] = Engines[i] /\ Sure(f)
            /\ Engines[i] \notin Skipped(a) \cup Outside
            /\ (i < at[a] \/ status[a] = "completed") => cand[a][f] # "none"

NoneLost(a) == TreeInv(a) /\ UnitInv(a) /\ HandInv(a) /\ PassInv(a)

\* A candidate stays one.
CandKept(a) ==
    \A f \in Finding : cand[a][f] # "none" => cand'[a][f] # "none"

\* What the invariant of a scan depends on, but for its label and its hits;
\* a cancel may mark its row meanwhile.
Still(a) ==
    /\ tree' = tree /\ steady'[a] = steady[a]
    /\ at'[a] = at[a] /\ snap'[a] = snap[a] /\ scope'[a] = scope[a]
    /\ mode'[a] = mode[a] /\ unit'[a] = unit[a]
    /\ status'[a] \in {status[a], "stopped"}

LEMMA CandidatesStay ==
  ASSUME IInv, [Next]_vars, NEW a \in Assessment
  PROVE  CandKept(a)
<1>1. ASSUME NEW b \in Assessment, UpsertCandidate(b) \/ MarkConfirmed(b)
      PROVE  CandKept(a)
  <2>1. CASE UpsertCandidate(b)
    <3>1. PICK f \in todo[b] : cand' = [cand EXCEPT ![b][f] = Record(@)]
      BY <2>1 DEF UpsertCandidate
    <3>2. f \in Finding
      BY <3>1 DEF IInv, TypeOK
    <3>. QED  BY <3>1, <3>2 DEF CandKept, Record, IInv, TypeOK
  <2>2. CASE MarkConfirmed(b)
    <3>1. cand' = [cand EXCEPT ![b][hit[b]] = "confirmed"]
      BY <2>2 DEF MarkConfirmed
    <3>. QED  BY <3>1 DEF CandKept, IInv, TypeOK
  <2>. QED  BY <1>1, <2>1, <2>2
<1>2. ASSUME NEW b \in Assessment,
             StartNew(b) \/ StartResume(b) \/ Cancel(b) \/ Stop(b) \/ Step(b)
      PROVE  cand' = cand \/ UpsertCandidate(b) \/ MarkConfirmed(b)
  <2>1. InsertConflict(b) => Stop(b)
    BY DEF InsertConflict
  <2>. QED
    BY <1>2, <2>1 DEF StartNew, StartResume, Cancel, Stop, Step, Walk, SkipEngine,
       SkipDoneUnit, RunEngine, IngestDone, FinishUnit, ReadFinding,
       WriteFinding, ListPending, Promote, SelectAbsent, CloseAbsent, Complete,
       table
<1>3. ASSUME NEW u \in Triager, TriageRead(u) \/ TriageWrite(u)
      PROVE  cand' = cand
  BY <1>3 DEF TriageRead, TriageWrite, table
<1>4. Edit \/ UNCHANGED vars => cand' = cand
  BY DEF Edit, vars, table
<1>5. cand' = cand => CandKept(a)
  BY DEF CandKept
<1>. QED  BY <1>1, <1>2, <1>3, <1>4, <1>5 DEF Next

\* A unit that is done now was, and what was recorded for it still is.
LEMMA UnitStays ==
  ASSUME IInv, NEW a \in Assessment, UnitInv(a), CandKept(a), tree' = tree,
         \/ pc'[a] \notin Walked
         \/ pc[a] \in Walked /\ snap'[a] = snap[a] /\ steady'[a] = steady[a],
         \A e \in EngineSet : unit'[a][e].st = "done" =>
            unit'[a][e] = unit[a][e]
  PROVE  UnitInv(a)'
<1>. SUFFICES ASSUME NEW e \in EngineSet, unit'[a][e].st = "done",
                     unit'[a][e].digest.mode # "diff", e \notin Outside
              PROVE  /\ unit[a][e].digest.tree = Digested(tree) =>
                          \A f \in tree : Category[f] = e => cand'[a][f] # "none"
                     /\ pc'[a] \in Walked
                        /\ unit[a][e].digest.tree = Digested(snap'[a]) =>
                          \A f \in steady'[a] : Category[f] = e => cand'[a][f] # "none"
  BY DEF UnitInv, Digested
<1>1. tree \subseteq Finding /\ steady[a] \subseteq Finding
  BY DEF IInv, TypeOK
<1>. QED  BY <1>1 DEF UnitInv, CandKept, Digested

\* The worker moves between labels that follow its walk.
LEMMA MoveKeeps ==
  ASSUME IInv, NEW a \in Assessment, NoneLost(a), CandKept(a), Still(a),
         pc[a] \in Walked, pc'[a] \in Walked, HandInv(a)'
  PROVE  NoneLost(a)'
<1>1. TreeInv(a)'
  BY DEF NoneLost, TreeInv, Still
<1>2. UnitInv(a)'
  BY UnitStays DEF NoneLost, Still
<1>3. PassInv(a)'
  <2>1. steady[a] \subseteq Finding
    BY DEF IInv, TypeOK
  <2>2. Skipped(a)' = Skipped(a)
    BY DEF Skipped, Still
  <2>3. pc'[a] \notin {"idle", "walk"}
    BY DEF Walked, Busy
  <2>. QED  BY <2>1, <2>2, <2>3 DEF NoneLost, PassInv, Still, CandKept, Sure
<1>. QED  BY <1>1, <1>2, <1>3 DEF NoneLost

\* Nothing of this scan moves.
LEMMA StillKeeps ==
  ASSUME IInv, NEW a \in Assessment, NoneLost(a), CandKept(a), Still(a),
         pc'[a] = pc[a], todo'[a] = todo[a]
  PROVE  NoneLost(a)'
<1>1. TreeInv(a)'
  BY DEF NoneLost, TreeInv, Still
<1>2. UnitInv(a)'
  BY UnitStays DEF NoneLost, Still
<1>3. HandInv(a)'
  <2>1. tree \subseteq Finding /\ steady[a] \subseteq Finding
    BY DEF IInv, TypeOK
  <2>. QED  BY <2>1 DEF NoneLost, HandInv, AtWork, Engine, InputDigest,
                        Digested, Still, CandKept, Sure
<1>4. PassInv(a)'
  <2>1. steady[a] \subseteq Finding
    BY DEF IInv, TypeOK
  <2>2. Skipped(a)' = Skipped(a)
    BY DEF Skipped, Still
  <2>. QED  BY <2>1, <2>2 DEF NoneLost, PassInv, Still, CandKept, Sure
<1>. QED  BY <1>1, <1>2, <1>3, <1>4 DEF NoneLost

\* A scan's step leaves the other scans alone.
LEMMA OthersStill ==
  ASSUME IInv, NEW b \in Assessment,
         StartNew(b) \/ StartResume(b) \/ Cancel(b) \/ Stop(b) \/ Step(b),
         NEW a \in Assessment, a # b
  PROVE  /\ Still(a) /\ pc'[a] = pc[a] /\ todo'[a] = todo[a]
         /\ status'[a] = status[a]
<1>. USE DEF Still, Goto, IInv, TypeOK
<1>1. CASE StartNew(b)
  BY <1>1 DEF StartNew, files
<1>2. CASE StartResume(b)
  BY <1>2 DEF StartResume, files
<1>3. CASE Stop(b) \/ Cancel(b)
  BY <1>3 DEF Stop, Leave, Cancel, files, worker
<1>4. CASE Walk(b)
  BY <1>4 DEF Walk, table
<1>5. CASE SkipEngine(b) \/ SkipDoneUnit(b)
  BY <1>5 DEF SkipEngine, SkipDoneUnit, NextEngine, files, table
<1>6. CASE RunEngine(b)
  BY <1>6 DEF RunEngine, files
<1>7. CASE UpsertCandidate(b) \/ IngestDone(b)
  BY <1>7 DEF UpsertCandidate, IngestDone, files, table
<1>8. CASE FinishUnit(b)
  BY <1>8 DEF FinishUnit, NextEngine, files
<1>9. CASE ReadFinding(b) \/ WriteFinding(b) \/ MarkConfirmed(b)
  BY <1>9 DEF ReadFinding, WriteFinding, MarkConfirmed, files, table
<1>10. CASE ListPending(b) \/ Promote(b) \/ SelectAbsent(b)
  BY <1>10 DEF ListPending, Promote, SelectAbsent, files, table
<1>11. CASE CloseAbsent(b) \/ Complete(b)
  BY <1>11 DEF CloseAbsent, Complete, Leave, files
<1>. QED
  BY <1>1, <1>2, <1>3, <1>4, <1>5, <1>6, <1>7, <1>8, <1>9, <1>10, <1>11
     DEF Step, InsertConflict

\* A scan starts, resumes or stops: no unit becomes done by it.
LEMMA RestartKeeps ==
  ASSUME IInv, NEW a \in Assessment, NoneLost(a), CandKept(a),
         StartNew(a) \/ StartResume(a) \/ Stop(a)
  PROVE  NoneLost(a)'
<1>1. /\ tree' = tree
      /\ pc'[a] \in {"idle", "walk"} /\ at'[a] = 1
      /\ status'[a] # "completed"
  <2>1. CASE StartNew(a) \/ StartResume(a)
    <3>1. pc[a] = "idle"
      BY <2>1 DEF StartNew, StartResume, IInv, WorkerInv
    <3>. QED
      BY <2>1, <3>1 DEF StartNew, StartResume, Goto, files, IInv, TypeOK,
                            NoneLost, PassInv
  <2>2. CASE Stop(a)
    BY <2>2 DEF Stop, Leave, Goto, files, IInv, TypeOK
  <2>. QED  BY <2>1, <2>2
<1>2. \A e \in EngineSet : unit'[a][e].st = "done" => unit'[a][e] = unit[a][e]
  <2>. DEFINE U == [st : UnitStatus, digest : Digest]
  <2>1. unit \in [Assessment -> [EngineSet -> U \cup {NoUnit}]]
    BY DEF IInv, TypeOK
  <2>2. CASE StartNew(a)
    BY <2>2 DEF StartNew
  <2>3. CASE StartResume(a)
    <3>. SUFFICES ASSUME NEW e \in EngineSet, unit'[a][e].st = "done"
                  PROVE  unit'[a][e] = unit[a][e]
      OBVIOUS
    <3>1. unit'[a][e] = IF unit[a][e].st = "running"
                        THEN [unit[a][e] EXCEPT !.st = "pending"]
                        ELSE unit[a][e]
      BY <2>1, <2>3 DEF StartResume
    <3>2. unit[a][e] \in U \cup {NoUnit}
      BY <2>1
    <3>3. [unit[a][e] EXCEPT !.st = "pending"].st = "pending"
      BY <3>2 DEF NoUnit
    <3>. QED  BY <3>1, <3>3
  <2>4. CASE Stop(a)
    <3>1. CASE unit' = unit
      BY <3>1
    <3>2. CASE unit' # unit
      <4>1. /\ pc[a] \in {"ingest", "read", "write", "mark", "engineDone"}
            /\ at[a] <= Len(Engines) /\ Engine(a) \notin Unkeyed
        BY <2>4, <3>2 DEF Stop
      <4>2. unit' = [unit EXCEPT ![a][Engine(a)].st = "pending"]
        BY <2>4, <3>2 DEF Stop
      <4>3. Engine(a) \in EngineSet
        BY <4>1, EnginesFact DEF IInv, TypeOK, Engine
      <4>4. unit[a][Engine(a)] \in U
        BY <2>1, <4>1, <4>3 DEF IInv, WorkerInv
      <4>. DEFINE new == [unit[a][Engine(a)] EXCEPT !.st = "pending"]
      <4>5. new.st = "pending"
        BY <4>4
      <4>6. unit' = [unit EXCEPT ![a] = [unit[a] EXCEPT ![Engine(a)] = new]]
        BY <4>2
      <4>. HIDE DEF new, U
      <4>. QED  BY <2>1, <4>3, <4>5, <4>6
    <3>. QED  BY <3>1, <3>2
  <2>. QED  BY <2>2, <2>3, <2>4
<1>3. UnitInv(a)'
  <2>1. pc'[a] \notin Walked
    BY <1>1 DEF Walked, Busy
  <2>. QED  BY <1>1, <1>2, <2>1, UnitStays DEF NoneLost
<1>4. TreeInv(a)' /\ HandInv(a)' /\ PassInv(a)'
  BY <1>1 DEF TreeInv, HandInv, AtWork, PassInv, Walked, Busy
<1>. QED  BY <1>3, <1>4 DEF NoneLost

\* A cancel marks the row, and nothing else of the scan.
LEMMA CancelKeeps ==
  ASSUME IInv, NEW a \in Assessment, NoneLost(a), CandKept(a), Cancel(a)
  PROVE  NoneLost(a)'
<1>1. Still(a) /\ pc' = pc /\ todo' = todo
  BY DEF Cancel, Still, files, worker, IInv, TypeOK
<1>. QED  BY <1>1, StillKeeps

\* The walk: what is steady is what is walked.
LEMMA WalkKeeps ==
  ASSUME IInv, NEW a \in Assessment, NoneLost(a), CandKept(a), Walk(a)
  PROVE  NoneLost(a)'
<1>1. /\ tree' = tree /\ steady'[a] = tree /\ snap'[a] = tree
      /\ pc'[a] = "engine" /\ unit' = unit /\ mode' = mode
      /\ at'[a] = 1 /\ status'[a] # "completed"
  BY DEF Walk, Goto, table, IInv, TypeOK, WorkerInv, NoneLost, PassInv
<1>2. mode'[a] # "diff" => scope'[a] = Finding
  BY <1>1 DEF Walk, IInv, TypeOK
<1>3. TreeInv(a)'
  BY <1>1, <1>2 DEF TreeInv
<1>4. UnitInv(a)'
  BY <1>1 DEF NoneLost, UnitInv, CandKept, IInv, TypeOK
<1>5. HandInv(a)'
  BY <1>1 DEF HandInv, AtWork
<1>6. PassInv(a)'
  BY <1>1 DEF PassInv
<1>. QED  BY <1>3, <1>4, <1>5, <1>6 DEF NoneLost

\* The worker passes on to its next engine: what this one had to report, of
\* what is steady, is a candidate.
LEMMA NextKeeps ==
  ASSUME IInv, NEW a \in Assessment, NoneLost(a), CandKept(a),
         tree' = tree, steady'[a] = steady[a],
         snap'[a] = snap[a], scope'[a] = scope[a], mode'[a] = mode[a],
         status'[a] = status[a], pc[a] \in Walked, at[a] <= Len(Engines),
         NextEngine(a), UnitInv(a)',
         Engine(a) \notin Skipped(a) \cup Outside /\ mode[a] # "diff" =>
            \A f \in steady[a] :
               Category[f] = Engine(a) /\ Sure(f) => cand'[a][f] # "none"
  PROVE  NoneLost(a)'
<1>1. pc'[a] = "engine" /\ at'[a] = at[a] + 1 /\ status[a] # "completed"
  BY DEF NextEngine, Goto, IInv, TypeOK, WorkerInv, Walked, Busy
<1>2. TreeInv(a)'
  BY DEF NoneLost, TreeInv
<1>3. HandInv(a)'
  BY <1>1 DEF HandInv, AtWork
<1>4. PassInv(a)'
  <2>. SUFFICES ASSUME mode[a] # "diff",
                       NEW f \in steady[a], NEW i \in 1..Len(Engines),
                       Category[f] = Engines[i], Sure(f), i < at[a] + 1,
                       Engines[i] \notin Skipped(a) \cup Outside
                PROVE  cand'[a][f] # "none"
    BY <1>1 DEF PassInv, Skipped, Sure
  <2>1. f \in Finding /\ at[a] \in Nat /\ Len(Engines) \in Nat
    BY EnginesFact DEF IInv, TypeOK
  <2>2. CASE i = at[a]
    BY <2>2 DEF Engine
  <2>3. CASE i < at[a]
    <3>1. cand[a][f] # "none"
      BY <2>3 DEF NoneLost, PassInv
    <3>. QED  BY <2>1, <3>1 DEF CandKept
  <2>. QED  BY <2>1, <2>2, <2>3
<1>. QED  BY <1>2, <1>3, <1>4 DEF NoneLost

LEMMA SkipKeeps ==
  ASSUME IInv, NEW a \in Assessment, NoneLost(a), CandKept(a),
         SkipEngine(a) \/ SkipDoneUnit(a)
  PROVE  NoneLost(a)'
<1>1. /\ pc[a] = "engine" /\ at[a] <= Len(Engines) /\ NextEngine(a)
      /\ UNCHANGED <<files, table, mode, snap, scope>>
  BY DEF SkipEngine, SkipDoneUnit
<1>2. pc[a] \in Walked
  BY <1>1 DEF Walked, Busy
<1>3. UnitInv(a)'
  BY <1>1, <1>2, UnitStays DEF NoneLost, files, table
<1>4. Engine(a) \notin Skipped(a) \cup Outside /\ mode[a] # "diff" =>
         \A f \in steady[a] :
            Category[f] = Engine(a) /\ Sure(f) => cand'[a][f] # "none"
  <2>. SUFFICES ASSUME SkipDoneUnit(a), mode[a] # "diff", Engine(a) \notin Outside,
                       NEW f \in steady[a], Category[f] = Engine(a)
                PROVE  cand[a][f] # "none"
    BY <1>1 DEF SkipEngine, table
  <2>1. Engine(a) \in EngineSet
    BY <1>1, EnginesFact DEF IInv, TypeOK, Engine
  <2>2. /\ unit[a][Engine(a)].st = "done"
        /\ unit[a][Engine(a)].digest.mode = mode[a]
        /\ unit[a][Engine(a)].digest.tree = Digested(snap[a])
    BY DEF SkipDoneUnit, UnitDone, InputDigest, Digested
  <2>. QED  BY <1>2, <2>1, <2>2 DEF NoneLost, UnitInv
<1>. QED  BY <1>1, <1>2, <1>3, <1>4, NextKeeps DEF files, table

LEMMA FinishUnitKeeps ==
  ASSUME IInv, NEW a \in Assessment, NoneLost(a), CandKept(a), FinishUnit(a)
  PROVE  NoneLost(a)'
<1>1. /\ pc[a] = "engineDone" /\ NextEngine(a)
      /\ UNCHANGED <<files, cand, status, mode, snap, scope>>
  BY DEF FinishUnit
<1>2. at[a] <= Len(Engines) /\ pc[a] \in Walked /\ AtWork(a)
  BY <1>1 DEF Walked, Busy, IInv, WorkerInv, AtWork
<1>3. mode[a] # "diff" =>
         /\ \A f \in steady[a] :
              Category[f] = Engine(a) /\ Sure(f) => cand[a][f] # "none"
         /\ Engine(a) \notin Unkeyed =>
              /\ \A f \in steady[a] : Category[f] = Engine(a) => cand[a][f] # "none"
              /\ Engine(a) \notin Outside /\ Digested(snap[a]) = Digested(tree) =>
                   \A f \in tree : Category[f] = Engine(a) => cand[a][f] # "none"
  BY <1>1, <1>2 DEF NoneLost, HandInv, Sure
<1>4. UnitInv(a)'
  <2>1. CASE Engine(a) \in Unkeyed
    BY <1>1, <1>2, <2>1, UnitStays DEF FinishUnit, NoneLost, files
  <2>2. CASE Engine(a) \notin Unkeyed
    <3>. DEFINE U == [st : UnitStatus, digest : Digest]
                new == [unit[a][Engine(a)] EXCEPT !.st = "done"]
    <3>1. Engine(a) \in EngineSet
      BY <1>2, EnginesFact DEF IInv, TypeOK, Engine
    <3>2. unit[a][Engine(a)] \in U
      BY <1>1, <1>2, <2>2, <3>1 DEF IInv, TypeOK, WorkerInv
    <3>3. unit[a][Engine(a)].digest = InputDigest(a)
      BY <1>2, <2>2 DEF NoneLost, HandInv
    <3>4. new.digest.mode = mode[a] /\ new.digest.tree = Digested(snap[a])
      BY <3>2, <3>3 DEF InputDigest, Digested
    <3>5. unit' = [unit EXCEPT ![a] = [unit[a] EXCEPT ![Engine(a)] = new]]
      BY <2>2 DEF FinishUnit
    <3>6. unit \in [Assessment -> [EngineSet -> U \cup {NoUnit}]]
      BY DEF IInv, TypeOK
    <3>. HIDE DEF new, U
    <3>7. /\ unit'[a][Engine(a)] = new
          /\ \A e \in EngineSet \ {Engine(a)} : unit'[a][e] = unit[a][e]
      BY <3>1, <3>5, <3>6
    <3>. QED
      BY <1>1, <1>2, <1>3, <2>2, <3>4, <3>7 DEF NoneLost, UnitInv, Digested, files
  <2>. QED  BY <2>1, <2>2
<1>. QED  BY <1>1, <1>2, <1>3, <1>4, NextKeeps DEF files

\* An engine reports what it finds of the tree that was walked.
LEMMA RunKeeps ==
  ASSUME IInv, NEW a \in Assessment, NoneLost(a), CandKept(a),
         RunEngine(a)
  PROVE  NoneLost(a)'
<1>. DEFINE U == [st : UnitStatus, digest : Digest]
            new == [st |-> "running", digest |-> InputDigest(a)]
<1>1. /\ UNCHANGED <<files, cand, status, mode, at, snap, scope>>
      /\ pc[a] = "engine" /\ pc'[a] = "ingest" /\ at[a] <= Len(Engines)
  BY DEF RunEngine, Goto, IInv, TypeOK
<1>2. pc[a] \in Walked /\ pc'[a] \in Walked /\ Engine(a)' = Engine(a)
  BY <1>1 DEF Walked, Busy, Engine
<1>3. Engine(a) \in EngineSet
  BY <1>1, EnginesFact DEF IInv, TypeOK, Engine
<1>4. /\ Engine(a) \notin Unkeyed => unit'[a][Engine(a)] = new
      /\ \A e \in EngineSet : unit'[a][e] # unit[a][e] => unit'[a][e] = new
  <2>1. unit \in [Assessment -> [EngineSet -> U \cup {NoUnit}]]
    BY DEF IInv, TypeOK
  <2>2. \/ Engine(a) \in Unkeyed /\ unit' = unit
        \/ unit' = [unit EXCEPT ![a] = [unit[a] EXCEPT ![Engine(a)] = new]]
    BY DEF RunEngine
  <2>. HIDE DEF new, U
  <2>. QED  BY <1>3, <2>1, <2>2
<1>5. UnitInv(a)'
  BY <1>1, <1>2, <1>4, UnitStays DEF NoneLost, files
<1>6. mode[a] # "diff" =>
         \A f \in snap[a] \cap tree :
            Category[f] = Engine(a) /\ Sure(f) => f \in todo'[a]
  <2>1. PICK hits \in Reports(a, Engine(a)) : todo' = [todo EXCEPT ![a] = hits]
    BY DEF RunEngine
  <2>2. todo'[a] = hits
    BY <2>1 DEF IInv, TypeOK
  <2>3. /\ tree \subseteq Finding
        /\ mode[a] # "diff" => scope[a] = Finding
    BY <1>2 DEF NoneLost, TreeInv, IInv, TypeOK
  <2>. QED  BY <2>1, <2>2, <2>3 DEF Reports, Sure
<1>7. HandInv(a)'
  <2>1. InputDigest(a)' = InputDigest(a)
    BY <1>1 DEF InputDigest
  <2>2. steady[a] \subseteq snap[a] \cap tree
    BY <1>2 DEF NoneLost, TreeInv
  <2>3. Digested(snap[a]) = Digested(tree) /\ Engine(a) \notin Outside =>
           \A f \in tree : Category[f] = Engine(a) => f \in snap[a]
    BY DEF Digested
  <2>. HIDE DEF U
  <2>. QED
    BY <1>1, <1>2, <1>4, <1>6, <2>1, <2>2, <2>3 DEF HandInv, Digested, files, Sure
<1>8. TreeInv(a)'
  BY <1>1, <1>2 DEF NoneLost, TreeInv, files
<1>9. PassInv(a)'
  BY <1>1, <1>2 DEF NoneLost, PassInv, Skipped, Sure, files
<1>. QED  BY <1>5, <1>7, <1>8, <1>9 DEF NoneLost

\* The engine's hits are ingested.
LEMMA IngestKeeps ==
  ASSUME IInv, NEW a \in Assessment, NoneLost(a), CandKept(a),
         \/ UpsertCandidate(a) \/ IngestDone(a)
         \/ ReadFinding(a) \/ WriteFinding(a) \/ MarkConfirmed(a)
  PROVE  NoneLost(a)'
<1>1. /\ Still(a)
      /\ pc[a] \in {"ingest", "read", "write", "mark"}
      /\ pc'[a] \in {"read", "engineDone", "write", "mark", "ingest", "promote"}
  BY DEF UpsertCandidate, IngestDone, ReadFinding, WriteFinding, MarkConfirmed,
     Goto, Still, IInv, TypeOK, files, table
<1>2. pc[a] \in Walked /\ pc'[a] \in Walked
  BY <1>1 DEF Walked, Busy
<1>3. \A f \in Finding : f \in todo'[a] \/ f \notin todo[a] \/ cand'[a][f] # "none"
  <2>1. CASE UpsertCandidate(a)
    <3>1. PICK f \in todo[a] : /\ cand' = [cand EXCEPT ![a][f] = Record(@)]
                               /\ todo' = [todo EXCEPT ![a] = @ \ {f}]
      BY <2>1 DEF UpsertCandidate
    <3>2. f \in Finding
      BY <3>1 DEF IInv, TypeOK
    <3>3. cand'[a][f] # "none" /\ todo'[a] = todo[a] \ {f}
      BY <3>1, <3>2 DEF Record, IInv, TypeOK
    <3>. QED  BY <3>3
  <2>2. ~UpsertCandidate(a) => todo' = todo
    BY DEF IngestDone, ReadFinding, WriteFinding, MarkConfirmed
  <2>. QED  BY <2>1, <2>2
<1>4. pc'[a] = "engineDone" => todo'[a] = {}
  BY <1>1 DEF UpsertCandidate, IngestDone, ReadFinding, WriteFinding,
     MarkConfirmed, Goto, IInv, TypeOK
<1>5. HandInv(a)'
  <2>1. tree \subseteq Finding /\ steady[a] \subseteq Finding
    BY DEF IInv, TypeOK
  <2>2. /\ Engine(a)' = Engine(a) /\ InputDigest(a)' = InputDigest(a)
        /\ AtWork(a)' => AtWork(a)
    BY <1>1 DEF Engine, InputDigest, AtWork, Still
  <2>. QED  BY <1>1, <1>3, <1>4, <2>1, <2>2
            DEF NoneLost, HandInv, Digested, Still, CandKept, Sure
<1>. QED  BY <1>1, <1>2, <1>5, MoveKeeps

\* The leftovers, and what is to be closed: past the last engine.
LEMMA LateKeeps ==
  ASSUME IInv, NEW a \in Assessment, NoneLost(a), CandKept(a),
         ListPending(a) \/ Promote(a) \/ SelectAbsent(a) \/ CloseAbsent(a)
  PROVE  NoneLost(a)'
<1>1. /\ Still(a)
      /\ pc[a] \in {"engine", "promote", "close"}
      /\ pc'[a] \in {"promote", "read", "close"}
      /\ at[a] > Len(Engines)
  BY DEF ListPending, Promote, SelectAbsent, CloseAbsent, Goto, Still, IInv,
     TypeOK, WorkerInv, files, table
<1>2. pc[a] \in Walked /\ pc'[a] \in Walked
  BY <1>1 DEF Walked, Busy
<1>3. HandInv(a)'
  <2>1. at[a] \in Nat /\ Len(Engines) \in Nat
    BY EnginesFact DEF IInv, TypeOK
  <2>2. ~AtWork(a)'
    BY <1>1, <2>1 DEF AtWork, Still
  <2>. QED  BY <2>2 DEF HandInv
<1>. QED  BY <1>1, <1>2, <1>3, MoveKeeps

LEMMA CompleteKeeps ==
  ASSUME IInv, NEW a \in Assessment, NoneLost(a), CandKept(a), Complete(a)
  PROVE  NoneLost(a)'
<1>1. /\ UNCHANGED <<files, cand, unit, mode>>
      /\ pc[a] = "close" /\ pc'[a] = "idle" /\ at'[a] = 1
      /\ at[a] > Len(Engines)
  BY DEF Complete, Leave, Goto, IInv, TypeOK, WorkerInv
<1>2. pc[a] \in Walked
  BY <1>1 DEF Walked, Busy
<1>3. UnitInv(a)'
  <2>1. pc'[a] \notin Walked
    BY <1>1 DEF Walked, Busy
  <2>. QED  BY <1>1, <2>1, UnitStays DEF NoneLost, files
<1>4. PassInv(a)'
  <2>1. Skipped(a)' = Skipped(a)
    BY <1>1 DEF Skipped
  <2>2. \A i \in 1..Len(Engines) : i < at[a]
    BY <1>1, EnginesFact DEF IInv, TypeOK
  <2>. QED  BY <1>1, <1>2, <2>1, <2>2 DEF NoneLost, PassInv, Sure, files
<1>5. TreeInv(a)' /\ HandInv(a)'
  BY <1>1 DEF TreeInv, HandInv, AtWork, Walked, Busy
<1>. QED  BY <1>3, <1>4, <1>5 DEF NoneLost

\* An edit leaves the files that are digested alone, or takes them to some
\* that no unit was recorded for.
LEMMA EditKeeps ==
  ASSUME IInv, NEW a \in Assessment, NoneLost(a), Edit,
         \A e \in EngineSet : Digested(tree') # Digested(tree)
            /\ unit[a][e] # NoUnit => unit[a][e].digest.tree # Digested(tree')
  PROVE  NoneLost(a)'
<1>1. /\ UNCHANGED <<table, worker>>
      /\ steady'[a] = steady[a] \cap tree'
  BY DEF Edit
<1>0. Digested(tree') = Digested(tree) =>
         \A f \in tree' : Category[f] \notin Outside => f \in tree
  BY DEF Digested
<1>2. TreeInv(a)'
  BY <1>1 DEF NoneLost, TreeInv, worker
<1>3. UnitInv(a)'
  <2>1. \A e \in EngineSet : unit[a][e].st = "done" => unit[a][e] # NoUnit
    BY DEF NoUnit
  <2>2. UNCHANGED <<unit, cand, pc, snap>>
    BY <1>1 DEF table, worker
  <2>3. Digested(snap[a])' = Digested(snap[a])
    BY <2>2 DEF Digested
  <2>. SUFFICES ASSUME NEW e \in EngineSet, unit[a][e].st = "done",
                       unit[a][e].digest.mode # "diff", e \notin Outside
                PROVE  /\ unit[a][e].digest.tree = Digested(tree') =>
                            \A f \in tree' : Category[f] = e => cand[a][f] # "none"
                       /\ pc[a] \in Walked
                          /\ unit[a][e].digest.tree = Digested(snap[a]) =>
                            \A f \in steady'[a] :
                               Category[f] = e => cand[a][f] # "none"
    BY <2>2, <2>3 DEF UnitInv, Digested
  <2>. QED  BY <1>0, <1>1, <2>1 DEF NoneLost, UnitInv
<1>4. HandInv(a)'
  <2>1. AtWork(a)' = AtWork(a)
    BY <1>1 DEF AtWork, worker
  <2>2. /\ Engine(a)' = Engine(a) /\ InputDigest(a)' = InputDigest(a)
        /\ Digested(snap[a])' = Digested(snap[a])
    BY <1>1 DEF Engine, InputDigest, Digested, worker
  <2>3. AtWork(a) /\ Engine(a) \notin Unkeyed /\ Digested(tree') # Digested(tree) =>
           Digested(snap[a]) # Digested(tree')
    <3>. SUFFICES ASSUME AtWork(a), Engine(a) \notin Unkeyed,
                         Digested(tree') # Digested(tree)
                  PROVE  Digested(snap[a]) # Digested(tree')
      OBVIOUS
    <3>1. Engine(a) \in EngineSet
      BY EnginesFact DEF AtWork, IInv, TypeOK, Engine
    <3>2. /\ unit[a][Engine(a)] # NoUnit
          /\ unit[a][Engine(a)].digest.tree = Digested(snap[a])
      BY DEF AtWork, IInv, WorkerInv, NoneLost, HandInv, InputDigest, Digested
    <3>. QED  BY <3>1, <3>2
  <2>4. UNCHANGED <<unit, cand, pc, todo, mode, snap>>
    BY <1>1 DEF table, worker
  <2>. SUFFICES ASSUME AtWork(a)
                PROVE  /\ Engine(a) \notin Unkeyed =>
                            unit[a][Engine(a)].digest = InputDigest(a)
                       /\ mode[a] # "diff" =>
                            /\ \A f \in steady'[a] \ todo[a] :
                                  Category[f] = Engine(a) /\ Sure(f) =>
                                     cand[a][f] # "none"
                            /\ Engine(a) \notin Unkeyed \cup Outside
                               /\ Digested(snap[a]) = Digested(tree') =>
                                  \A f \in tree' \ todo[a] :
                                     Category[f] = Engine(a) => cand[a][f] # "none"
                       /\ pc[a] = "engineDone" => todo[a] = {}
    BY <2>1, <2>2, <2>4 DEF HandInv, Sure, Digested
  <2>. QED  BY <1>0, <1>1, <2>3 DEF NoneLost, HandInv
<1>5. PassInv(a)'
  BY <1>1 DEF NoneLost, PassInv, Skipped, Sure, table, worker
<1>. QED  BY <1>2, <1>3, <1>4, <1>5 DEF NoneLost

LEMMA NoneLostStep ==
  ASSUME IInv, [Next]_vars, NEW a \in Assessment, NoneLost(a),
         \A e \in EngineSet : Digested(tree') # Digested(tree)
            /\ unit[a][e] # NoUnit => unit[a][e].digest.tree # Digested(tree')
  PROVE  NoneLost(a)'
<1>1. CandKept(a)
  BY CandidatesStay
<1>2. ASSUME NEW b \in Assessment,
             StartNew(b) \/ StartResume(b) \/ Cancel(b) \/ Stop(b) \/ Step(b)
      PROVE  NoneLost(a)'
  <2>1. CASE b # a
    BY <1>1, <1>2, <2>1, OthersStill, StillKeeps
  <2>2. CASE b = a
    BY <1>1, <1>2, <2>2, RestartKeeps, CancelKeeps, WalkKeeps, SkipKeeps,
       RunKeeps, FinishUnitKeeps, IngestKeeps, LateKeeps, CompleteKeeps
       DEF Step, InsertConflict
  <2>. QED  BY <2>1, <2>2
<1>3. ASSUME NEW u \in Triager, TriageRead(u) \/ TriageWrite(u)
      PROVE  NoneLost(a)'
  <2>1. Still(a) /\ pc' = pc /\ todo' = todo
    BY <1>3 DEF TriageRead, TriageWrite, Still, files, table, worker
  <2>. QED  BY <1>1, <2>1, StillKeeps
<1>4. CASE Edit
  BY <1>4, EditKeeps
<1>5. CASE UNCHANGED vars
  <2>1. Still(a) /\ pc' = pc /\ todo' = todo
    BY <1>5 DEF Still, vars, files, table, worker
  <2>. QED  BY <1>1, <2>1, StillKeeps
<1>. QED  BY <1>2, <1>3, <1>4, <1>5 DEF Next

\* What a completed full scan has put on the ledger, but for the engines
\* that ask git.
AllOnLedger ==
    \A a \in Assessment : status[a] = "completed" /\ mode[a] = "quick" =>
       \A f \in steady[a] : Category[f] \notin Skipped(a) \cup Outside /\ Sure(f) =>
          cand[a][f] = "confirmed" /\ row[f] # NoRow

LEMMA LostImpliesLedger ==
  ASSUME IInv, \A a \in Assessment : NoneLost(a)
  PROVE  AllOnLedger
<1>. SUFFICES ASSUME NEW a \in Assessment,
                     status[a] = "completed", mode[a] = "quick",
                     NEW f \in steady[a], Sure(f),
                     Category[f] \notin Skipped(a) \cup Outside
              PROVE  cand[a][f] = "confirmed" /\ row[f] # NoRow
  BY DEF AllOnLedger
<1>1. f \in Finding
  BY DEF IInv, TypeOK
<1>2. PICK i \in 1..Len(Engines) : Category[f] = Engines[i]
  BY <1>1, LedgerAssumption
<1>3. cand[a][f] # "none"
  BY <1>2 DEF NoneLost, PassInv
<1>4. cand[a][f] # "pending"
  BY <1>1 DEF IInv, PendingInv, Pending
<1>. QED  BY <1>1, <1>3, <1>4 DEF IInv, TypeOK, KnownInv

\* A completed full scan has put everything on the ledger that the engines
\* reading the walked files look for and that stayed in the tree since its
\* walk, whatever scans overlap, are cancelled, stop and resume and however
\* often the tree changes, as long as no edit brings back files that a unit
\* was recorded for; dependency findings only if the advisory services answer
\* (begin_work_unit and its digest in run_engines).  It does not hold of the
\* history and delta engines, whose input is not in the digest
\* (NothingSwallowedAtAll).
THEOREM KeyedFindingsStay == Spec /\ NoTreeBack => []AllOnLedger
<1>. DEFINE AllInv == \A a \in Assessment : NoneLost(a)
            New == \A a \in Assessment, e \in EngineSet :
                     Digested(tree') # Digested(tree) /\ unit[a][e] # NoUnit =>
                        unit[a][e].digest.tree # Digested(tree')
<1>1. Init => AllInv
  BY DEF Init, NoneLost, TreeInv, UnitInv, HandInv, AtWork, PassInv, Walked,
     Busy, NoUnit
<1>2. IInv /\ AllInv /\ [Next]_vars /\ [New]_vars => AllInv'
  <2>. SUFFICES ASSUME IInv, AllInv, [Next]_vars, [New]_vars PROVE AllInv'
    OBVIOUS
  <2>1. New
    BY DEF vars, files, Digested
  <2>. QED  BY <2>1, NoneLostStep
<1>3. IInv /\ AllInv => AllOnLedger
  BY LostImpliesLedger
<1>. HIDE DEF AllInv
<1>. QED  BY <1>1, <1>2, <1>3, Invariance, PTL DEF Spec, NoTreeBack

\* With the services in reach this is NothingSwallowed.
THEOREM NoneSwallowed ==
  ASSUME ~Offline
  PROVE  Spec /\ NoTreeBack => []NothingSwallowed
<1>1. AllOnLedger => NothingSwallowed
  BY DEF AllOnLedger, NothingSwallowed, Sure
<1>. QED  BY <1>1, KeyedFindingsStay, PTL

-----------------------------------------------------------------------------
(* Full scans one after the other, none of them resumed, with the services   *)
(* answering: what they close is gone, whatever is edited meanwhile.  While  *)
(* a scan has a worker no other has, so that what it has confirmed is still  *)
(* the last it has seen when it selects what to close; and what stayed in    *)
(* the tree was reported by the engine that looks for it.                    *)

OneAtATime ==
    MaxLive <= 1 /\ MaxResumes = 0 /\ Modes \subseteq {"quick"} /\ ~Offline

OneLive ==
    \A a, b \in Assessment :
       pc[a] # "idle" /\ pc[b] # "idle" => a = b

FreshInv(a) ==
    status[a] = "none" \/ pc[a] = "walk" =>
       /\ at[a] = 1
       /\ \A f \in Finding : cand[a][f] = "none" /\ row[f].seen # a
       /\ \A e \in EngineSet : unit[a][e].st # "done"

SteadyInv(a) ==
    pc[a] \in Walked =>
       /\ steady[a] \subseteq snap[a] \cap tree /\ tree \subseteq ever[a]
       /\ scope[a] = Finding
       /\ \A f \in steady[a] :
            /\ \A e \in EngineSet :
                 unit[a][e].st = "done" /\ Category[f] = e => cand[a][f] # "none"
            /\ \A i \in 1..Len(Engines) :
                 Category[f] = Engines[i] /\ Engines[i] \notin Skipped(a)
                 /\ i < at[a] => cand[a][f] # "none"
            /\ AtWork(a) /\ Category[f] = Engine(a) =>
                 f \in todo[a] \/ cand[a][f] # "none"
       /\ pc[a] = "engineDone" => todo[a] = {}

SeenInv(a) ==
    pc[a] # "idle" =>
       /\ \A f \in Finding : cand[a][f] = "confirmed" => row[f].seen = a
       /\ pc[a] = "mark" => row[hit[a]].seen = a
       /\ pc[a] = "close" =>
            \A f \in todo[a] : /\ cand[a][f] # "confirmed"
                               /\ Category[f] \notin Skipped(a)

AloneInv(a) == FreshInv(a) /\ SteadyInv(a) /\ SeenInv(a)

\* Only a worker takes a step of its scan.
LEMMA WorkerBusy ==
  ASSUME NEW b \in Assessment, Stop(b) \/ Step(b)
  PROVE  pc[b] # "idle"
BY DEF Stop, Step, Walk, SkipEngine, SkipDoneUnit, RunEngine, UpsertCandidate,
   IngestDone, FinishUnit, ReadFinding, WriteFinding, InsertConflict,
   MarkConfirmed, ListPending, Promote, SelectAbsent, CloseAbsent, Complete, Busy

\* A scan that starts is the only one with a worker, and none resumes.
LEMMA OneLiveStep ==
  ASSUME OneAtATime, IInv, OneLive, [Next]_vars
  PROVE  OneLive'
<1>1. ASSUME NEW a \in Assessment, StartNew(a)
      PROVE  OneLive'
  <2>1. pc' = [pc EXCEPT ![a] = "walk"]
    BY <1>1 DEF StartNew, Goto
  <2>2. \A b \in Assessment : pc[b] = "idle"
    <3>. SUFFICES ASSUME NEW b \in Assessment, pc[b] # "idle"
                  PROVE  FALSE
      OBVIOUS
    <3>1. Live = {b}
      BY DEF Live, OneLive
    <3>2. Cardinality(Live) = 1
      BY <3>1, FS_Singleton
    <3>. QED  BY <1>1, <3>2, LedgerAssumption DEF StartNew, OneAtATime
  <2>. QED  BY <2>1, <2>2 DEF OneLive, IInv, TypeOK
<1>2. ASSUME NEW a \in Assessment, StartResume(a)
      PROVE  FALSE
  BY <1>2 DEF StartResume, OneAtATime, IInv, TypeOK
<1>3. ASSUME NEW a \in Assessment, Stop(a) \/ Step(a)
      PROVE  OneLive'
  <2>1. \A b \in Assessment \ {a} : pc'[b] = pc[b]
    BY <1>3, OthersStill
  <2>2. pc[a] # "idle"
    BY <1>3, WorkerBusy
  <2>. QED  BY <2>1, <2>2 DEF OneLive
<1>4. ASSUME \/ \E a \in Assessment : Cancel(a)
             \/ \E u \in Triager : TriageRead(u) \/ TriageWrite(u)
             \/ Edit \/ UNCHANGED vars
      PROVE  pc' = pc
  BY <1>4 DEF Cancel, TriageRead, TriageWrite, Edit, vars, worker
<1>5. pc' = pc => OneLive'
  BY DEF OneLive
<1>. QED  BY <1>1, <1>2, <1>3, <1>4, <1>5 DEF Next

\* What a write, a closing and a triage leave of a row.
LEMMA WriteEffect ==
  ASSUME IInv, NEW a \in Assessment, WriteFinding(a)
  PROVE  /\ row'[hit[a]].seen = a
         /\ row'[hit[a]].state =
              IF row[hit[a]].state \in {"none", "verified_fixed"} THEN "open"
              ELSE row[hit[a]].state
         /\ \A g \in Finding \ {hit[a]} : row'[g] = row[g]
<1>. DEFINE f == hit[a]
            new == IF old[a] = NoRow THEN FirstSeen(a)
                   ELSE SeenAgain(row[f], old[a], a)
<1>1. /\ pc[a] = "write" /\ f \in Finding
      /\ row' = [row EXCEPT ![f] = new]
  BY DEF WriteFinding, IInv, TypeOK, WorkerInv
<1>2. CASE old[a] = NoRow
  <2>1. row[f] = NoRow
    BY <1>2 DEF WriteFinding
  <2>2. new.seen = a /\ new.state = "open" /\ row[f].state = "none"
    BY <1>2, <2>1 DEF FirstSeen, NoRow
  <2>. HIDE DEF new
  <2>. QED  BY <1>1, <2>2 DEF IInv, TypeOK
<1>3. CASE old[a] # NoRow
  <2>1. row[f] \in Row
    BY <1>1, <1>3 DEF IInv, KnownInv, TypeOK
  <2>2. row[f].state # "none"
    BY <2>1 DEF Row, State
  <2>3. /\ new.seen = a
        /\ new.state = IF row[f].state = "verified_fixed" THEN "open"
                       ELSE row[f].state
    BY <1>3 DEF SeenAgain
  <2>. HIDE DEF new
  <2>. QED  BY <1>1, <2>2, <2>3 DEF IInv, TypeOK
<1>. QED  BY <1>2, <1>3

LEMMA CloseEffect ==
  ASSUME IInv, NEW a \in Assessment, CloseAbsent(a)
  PROVE  \E f \in todo[a] :
            /\ row'[f].seen = a /\ row'[f].state = "verified_fixed"
            /\ \A g \in Finding \ {f} : row'[g] = row[g]
            /\ todo'[a] = todo[a] \ {f}
<1>1. PICK f \in todo[a] :
         /\ row' = [row EXCEPT ![f].state = "verified_fixed",
                               ![f].reason = "absent_from_scan",
                               ![f].seen = a]
         /\ todo' = [todo EXCEPT ![a] = @ \ {f}]
  BY DEF CloseAbsent
<1>. DEFINE new == [row[f] EXCEPT !.state = "verified_fixed",
                                  !.reason = "absent_from_scan", !.seen = a]
<1>2. f \in Finding /\ row[f] \in Row \cup {NoRow}
  BY DEF IInv, TypeOK
<1>3. row' = [row EXCEPT ![f] = new]
  BY <1>1, <1>2 DEF IInv, TypeOK
<1>4. new.seen = a /\ new.state = "verified_fixed"
  <2>. DEFINE W == [state : State \cup {"none"}, seen : Assessment \cup {None},
                    reason : Reason, mark : BOOLEAN]
  <2>1. row[f] \in W
    <3>1. NoRow \in W
      BY DEF NoRow, Reason
    <3>2. \A r \in Row : r \in W
      BY DEF Row
    <3>. HIDE DEF W
    <3>. QED  BY <1>2, <3>1, <3>2
  <2>. QED  BY <2>1
<1>. HIDE DEF new
<1>. QED  BY <1>1, <1>2, <1>3, <1>4 DEF IInv, TypeOK

LEMMA TriageEffect ==
  ASSUME IInv, NEW u \in Triager, TriageWrite(u)
  PROVE  /\ \A f \in Finding : row'[f].seen = row[f].seen
         /\ \A f \in Finding :
               row'[f] = row[f] \/ row'[f].reason \in {"none", "false_positive"}
<1>. DEFINE f == tri[u].f
            m == Mark(tri[u])
            new == [row[f] EXCEPT !.state = tri[u].to, !.reason = tri[u].why,
                                  !.mark = m]
<1>1. /\ f \in Finding /\ row[f] \in Row
      /\ tri[u].why \in {"none", "false_positive"}
  BY DEF TriageWrite, IInv, TypeOK, KnownInv
<1>2. row' = [row EXCEPT ![f] = new]
  BY <1>1 DEF TriageWrite, IInv, TypeOK
<1>3. new.seen = row[f].seen /\ new.reason = tri[u].why
  <2>. HIDE DEF m, f
  <2>. QED  BY <1>1 DEF Row
<1>. HIDE DEF new, f
<1>. QED  BY <1>1, <1>2, <1>3 DEF IInv, TypeOK

\* Candidates of a scan are written by its own worker only.
LEMMA OthersCandidates ==
  ASSUME IInv, NEW b \in Assessment,
         StartNew(b) \/ StartResume(b) \/ Stop(b) \/ Step(b),
         NEW a \in Assessment, a # b
  PROVE  cand'[a] = cand[a]
<1>1. CASE UpsertCandidate(b)
  BY <1>1 DEF UpsertCandidate, IInv, TypeOK
<1>2. CASE MarkConfirmed(b)
  BY <1>2 DEF MarkConfirmed, IInv, TypeOK
<1>3. CASE ~UpsertCandidate(b) /\ ~MarkConfirmed(b)
  <2>1. InsertConflict(b) => Stop(b)
    BY DEF InsertConflict
  <2>. QED
    BY <1>3, <2>1 DEF StartNew, StartResume, Stop, Step, Walk, SkipEngine,
       SkipDoneUnit, RunEngine, IngestDone, FinishUnit, ReadFinding,
       WriteFinding, ListPending, Promote, SelectAbsent, CloseAbsent, Complete,
       table
<1>. QED  BY <1>1, <1>2, <1>3

\* While a scan has a worker, no other takes a step.
LEMMA OthersRest ==
  ASSUME OneAtATime, IInv, OneLive, OneLive', NEW b \in Assessment,
         StartNew(b) \/ StartResume(b) \/ Stop(b) \/ Step(b),
         NEW a \in Assessment, a # b
  PROVE  pc[a] = "idle"
<1>1. CASE StartNew(b) \/ StartResume(b)
  <2>1. pc'[b] # "idle" /\ pc'[a] = pc[a]
    BY <1>1 DEF StartNew, StartResume, Goto, IInv, TypeOK
  <2>. QED  BY <2>1 DEF OneLive
<1>2. CASE Stop(b) \/ Step(b)
  BY <1>2, WorkerBusy DEF OneLive
<1>. QED  BY <1>1, <1>2

LEMMA AloneOthers ==
  ASSUME OneAtATime, IInv, OneLive, OneLive', NEW b \in Assessment,
         StartNew(b) \/ StartResume(b) \/ Stop(b) \/ Step(b),
         NEW a \in Assessment, a # b, AloneInv(a)
  PROVE  AloneInv(a)'
<1>1. pc[a] = "idle"
  BY OthersRest
<1>2. Still(a) /\ pc'[a] = pc[a] /\ cand'[a] = cand[a]
  BY OthersStill, OthersCandidates
<1>3. \A f \in Finding : row'[f].seen = row[f].seen \/ row'[f].seen = b
  <2>1. CASE WriteFinding(b)
    BY <2>1, WriteEffect DEF IInv, WorkerInv
  <2>2. CASE CloseAbsent(b)
    BY <2>2, CloseEffect DEF IInv, TypeOK
  <2>3. CASE ~WriteFinding(b) /\ ~CloseAbsent(b)
    <3>1. InsertConflict(b) => Stop(b)
      BY DEF InsertConflict
    <3>. QED
      BY <2>3, <3>1 DEF StartNew, StartResume, Stop, Step, Walk, SkipEngine,
         SkipDoneUnit, RunEngine, UpsertCandidate, IngestDone, FinishUnit,
         ReadFinding, MarkConfirmed, ListPending, Promote, SelectAbsent,
         Complete, table
  <2>. QED  BY <2>1, <2>2, <2>3
<1>4. FreshInv(a)'
  BY <1>1, <1>2, <1>3 DEF AloneInv, FreshInv, Still
<1>5. SteadyInv(a)' /\ SeenInv(a)'
  BY <1>1, <1>2 DEF SteadyInv, SeenInv, Still, Walked, Busy
<1>. QED  BY <1>4, <1>5 DEF AloneInv

\* A scan starts, or stops for good.
LEMMA AloneRestart ==
  ASSUME OneAtATime, IInv, NEW a \in Assessment, AloneInv(a),
         StartNew(a) \/ StartResume(a) \/ Stop(a)
  PROVE  AloneInv(a)'
<1>1. CASE StartNew(a)
  <2>1. /\ status[a] = "none" /\ pc'[a] = "walk" /\ at' = at
        /\ UNCHANGED <<cand, row, unit>>
    BY <1>1 DEF StartNew, Goto, IInv, TypeOK
  <2>2. FreshInv(a)' /\ SteadyInv(a)'
    BY <2>1 DEF AloneInv, FreshInv, SteadyInv, Walked
  <2>3. SeenInv(a)'
    BY <2>1 DEF AloneInv, FreshInv, SeenInv
  <2>. QED  BY <2>2, <2>3 DEF AloneInv
<1>2. ~StartResume(a)
  BY DEF StartResume, OneAtATime, IInv, TypeOK
<1>3. CASE Stop(a)
  BY <1>3 DEF Stop, Leave, Goto, AloneInv, FreshInv, SteadyInv, SeenInv, Walked,
     Busy, IInv, TypeOK
<1>. QED  BY <1>1, <1>2, <1>3

LEMMA AloneWalk ==
  ASSUME OneAtATime, IInv, NEW a \in Assessment, AloneInv(a), Walk(a)
  PROVE  AloneInv(a)'
<1>1. /\ tree' = tree /\ steady'[a] = tree /\ snap'[a] = tree /\ ever'[a] = tree
      /\ pc[a] = "walk" /\ pc'[a] = "engine" /\ status[a] # "none"
      /\ UNCHANGED <<cand, row, unit, mode, at, status>>
  BY DEF Walk, Goto, table, IInv, TypeOK, WorkerInv
<1>2. scope'[a] = Finding
  <2>1. mode[a] # "diff"
    BY DEF OneAtATime, IInv, TypeOK
  <2>. QED  BY <2>1 DEF Walk, IInv, TypeOK
<1>3. FreshInv(a)'
  BY <1>1 DEF FreshInv
<1>4. SteadyInv(a)'
  <2>1. at[a] = 1 /\ \A e \in EngineSet : unit[a][e].st # "done"
    BY <1>1 DEF AloneInv, FreshInv
  <2>2. \A i \in 1..Len(Engines) : ~(i < 1)
    BY EnginesFact
  <2>. QED  BY <1>1, <1>2, <2>1, <2>2 DEF SteadyInv, AtWork
<1>5. SeenInv(a)'
  BY <1>1 DEF AloneInv, FreshInv, SeenInv
<1>. QED  BY <1>3, <1>4, <1>5 DEF AloneInv

\* The worker passes on to its next engine.
LEMMA AloneNext ==
  ASSUME IInv, NEW a \in Assessment, AloneInv(a),
         UNCHANGED <<files, row, cand>>, snap' = snap, scope' = scope,
         mode' = mode, status' = status,
         pc[a] \in Walked, at[a] <= Len(Engines), NextEngine(a),
         \A f \in steady[a] : Category[f] = Engine(a) =>
            Engine(a) \in Skipped(a) \/ cand[a][f] # "none",
         \A f \in steady[a], e \in EngineSet :
            unit'[a][e].st = "done" /\ Category[f] = e =>
               cand[a][f] # "none"
  PROVE  AloneInv(a)'
<1>1. /\ pc'[a] = "engine" /\ at'[a] = at[a] + 1 /\ at[a] \in Nat
      /\ status[a] # "none" /\ pc[a] # "idle"
  <2>1. pc'[a] = "engine" /\ at'[a] = at[a] + 1 /\ at[a] \in Nat
    BY EnginesFact DEF NextEngine, Goto, IInv, TypeOK
  <2>2. pc[a] # "idle"
    BY DEF Walked, Busy
  <2>3. status[a] # "none"
    BY <2>2 DEF IInv, WorkerInv
  <2>. QED  BY <2>1, <2>2, <2>3
<1>2. FreshInv(a)'
  BY <1>1 DEF FreshInv
<1>3. SteadyInv(a)'
  <2>1. \A f \in steady[a], i \in 1..Len(Engines) :
           Category[f] = Engines[i] /\ Engines[i] \notin Skipped(a)
           /\ i < at[a] + 1 => cand[a][f] # "none"
    <3>. SUFFICES ASSUME NEW f \in steady[a], NEW i \in 1..Len(Engines),
                         Category[f] = Engines[i], Engines[i] \notin Skipped(a),
                         i < at[a] + 1
                  PROVE  cand[a][f] # "none"
      OBVIOUS
    <3>1. CASE i = at[a]
      BY <3>1 DEF Engine
    <3>2. CASE i < at[a]
      BY <3>2 DEF AloneInv, SteadyInv
    <3>. QED  BY <1>1, <3>1, <3>2, EnginesFact
  <2>2. Skipped(a)' = Skipped(a) /\ ~AtWork(a)'
    BY <1>1 DEF Skipped, AtWork
  <2>. QED  BY <1>1, <2>1, <2>2 DEF AloneInv, SteadyInv, files
<1>4. SeenInv(a)'
  BY <1>1 DEF AloneInv, SeenInv
<1>. QED  BY <1>2, <1>3, <1>4 DEF AloneInv

LEMMA AloneSkip ==
  ASSUME IInv, NEW a \in Assessment, AloneInv(a),
         SkipEngine(a) \/ SkipDoneUnit(a)
  PROVE  AloneInv(a)'
<1>1. /\ pc[a] = "engine" /\ at[a] <= Len(Engines) /\ NextEngine(a)
      /\ UNCHANGED <<files, table, mode, snap, scope>>
  BY DEF SkipEngine, SkipDoneUnit
<1>2. pc[a] \in Walked /\ Engine(a) \in EngineSet
  BY <1>1, EnginesFact DEF Walked, Busy, IInv, TypeOK, Engine
<1>3. \A f \in steady[a], e \in EngineSet :
         unit[a][e].st = "done" /\ Category[f] = e => cand[a][f] # "none"
  BY <1>2 DEF AloneInv, SteadyInv
<1>4. Engine(a) \in Skipped(a) \/ unit[a][Engine(a)].st = "done"
  BY DEF SkipEngine, SkipDoneUnit, UnitDone
<1>. QED  BY <1>1, <1>2, <1>3, <1>4, AloneNext DEF table

LEMMA AloneFinish ==
  ASSUME IInv, NEW a \in Assessment, AloneInv(a), FinishUnit(a)
  PROVE  AloneInv(a)'
<1>1. /\ pc[a] = "engineDone" /\ NextEngine(a)
      /\ UNCHANGED <<files, row, cand, status, mode, snap, scope>>
  BY DEF FinishUnit
<1>2. at[a] <= Len(Engines) /\ pc[a] \in Walked /\ AtWork(a)
  BY <1>1 DEF Walked, Busy, IInv, WorkerInv, AtWork
<1>3. \A f \in steady[a] : Category[f] = Engine(a) => cand[a][f] # "none"
  BY <1>1, <1>2 DEF AloneInv, SteadyInv
<1>4. \A e \in EngineSet : e = Engine(a) \/ unit'[a][e] = unit[a][e]
  <2>1. CASE Engine(a) \in Unkeyed
    BY <2>1 DEF FinishUnit
  <2>2. CASE Engine(a) \notin Unkeyed
    <3>. DEFINE new == [unit[a][Engine(a)] EXCEPT !.st = "done"]
                U == [st : UnitStatus, digest : Digest]
    <3>1. unit' = [unit EXCEPT ![a] = [unit[a] EXCEPT ![Engine(a)] = new]]
      BY <2>2 DEF FinishUnit
    <3>2. unit \in [Assessment -> [EngineSet -> U \cup {NoUnit}]]
      BY DEF IInv, TypeOK
    <3>. HIDE DEF new, U
    <3>. QED  BY <3>1, <3>2
  <2>. QED  BY <2>1, <2>2
<1>5. \A f \in steady[a], e \in EngineSet :
         unit'[a][e].st = "done" /\ Category[f] = e => cand[a][f] # "none"
  BY <1>2, <1>3, <1>4 DEF AloneInv, SteadyInv
<1>. QED  BY <1>1, <1>2, <1>3, <1>5, AloneNext

LEMMA AloneRun ==
  ASSUME OneAtATime, IInv, NEW a \in Assessment, AloneInv(a), RunEngine(a)
  PROVE  AloneInv(a)'
<1>. DEFINE U == [st : UnitStatus, digest : Digest]
            new == [st |-> "running", digest |-> InputDigest(a)]
<1>1. /\ UNCHANGED <<files, row, cand, status, mode, at, snap, scope>>
      /\ pc[a] = "engine" /\ pc'[a] = "ingest" /\ at[a] <= Len(Engines)
      /\ status[a] # "none"
  BY DEF RunEngine, Goto, IInv, TypeOK, WorkerInv
<1>2. pc[a] \in Walked /\ pc'[a] \in Walked /\ Engine(a)' = Engine(a)
  BY <1>1 DEF Walked, Busy, Engine
<1>3. \A e \in EngineSet : unit'[a][e] # unit[a][e] => unit'[a][e] = new
  <2>1. unit \in [Assessment -> [EngineSet -> U \cup {NoUnit}]]
    BY DEF IInv, TypeOK
  <2>2. \/ unit' = unit
        \/ unit' = [unit EXCEPT ![a] = [unit[a] EXCEPT ![Engine(a)] = new]]
    BY DEF RunEngine
  <2>. HIDE DEF new, U
  <2>. QED  BY <2>1, <2>2
<1>4. \A f \in steady[a] : Category[f] = Engine(a) => f \in todo'[a]
  <2>1. PICK hits \in Reports(a, Engine(a)) : todo' = [todo EXCEPT ![a] = hits]
    BY DEF RunEngine
  <2>2. todo'[a] = hits
    BY <2>1 DEF IInv, TypeOK
  <2>3. /\ tree \subseteq Finding /\ scope[a] = Finding
        /\ steady[a] \subseteq snap[a] \cap tree
    BY <1>2 DEF AloneInv, SteadyInv, IInv, TypeOK
  <2>. QED  BY <2>1, <2>2, <2>3 DEF Reports, OneAtATime
<1>5. FreshInv(a)'
  BY <1>1 DEF FreshInv
<1>6. SteadyInv(a)'
  <2>1. \A f \in steady[a], e \in EngineSet :
           unit'[a][e].st = "done" /\ Category[f] = e => cand[a][f] # "none"
    BY <1>2, <1>3 DEF AloneInv, SteadyInv
  <2>2. Skipped(a)' = Skipped(a)
    BY <1>1 DEF Skipped
  <2>. QED  BY <1>1, <1>2, <1>4, <2>1, <2>2 DEF AloneInv, SteadyInv, files
<1>7. SeenInv(a)'
  BY <1>1 DEF AloneInv, SeenInv
<1>. QED  BY <1>5, <1>6, <1>7 DEF AloneInv

\* The worker moves between labels that follow its walk, at one engine.
LEMMA AloneMove ==
  ASSUME IInv, NEW a \in Assessment, AloneInv(a), CandKept(a), Still(a),
         ever' = ever, pc[a] \in Walked, pc'[a] \in Walked,
         AtWork(a)' => AtWork(a),
         AtWork(a)' => \A f \in todo[a] : f \in todo'[a] \/ cand'[a][f] # "none",
         pc'[a] = "engineDone" => todo'[a] = {}
  PROVE  SteadyInv(a)' /\ FreshInv(a)'
<1>1. steady[a] \subseteq Finding
  BY DEF IInv, TypeOK
<1>2. Skipped(a)' = Skipped(a) /\ Engine(a)' = Engine(a)
  BY DEF Skipped, Engine, Still
<1>3. \A f \in steady[a] :
        /\ \A e \in EngineSet :
             unit'[a][e].st = "done" /\ Category[f] = e => cand'[a][f] # "none"
        /\ \A i \in 1..Len(Engines) :
             Category[f] = Engines[i] /\ Engines[i] \notin Skipped(a)
             /\ i < at'[a] => cand'[a][f] # "none"
        /\ AtWork(a)' /\ Category[f] = Engine(a) =>
             f \in todo'[a] \/ cand'[a][f] # "none"
  BY <1>1 DEF AloneInv, SteadyInv, CandKept, Still
<1>4. SteadyInv(a)'
  BY <1>2, <1>3 DEF AloneInv, SteadyInv, Still
<1>5. FreshInv(a)'
  BY DEF FreshInv, Walked, Busy, Still, IInv, WorkerInv
<1>. QED  BY <1>4, <1>5

LEMMA AloneIngest ==
  ASSUME IInv, NEW a \in Assessment, AloneInv(a), CandKept(a),
         \/ UpsertCandidate(a) \/ IngestDone(a)
         \/ ReadFinding(a) \/ WriteFinding(a) \/ MarkConfirmed(a)
  PROVE  AloneInv(a)'
<1>1. /\ Still(a) /\ ever' = ever
      /\ pc[a] \in {"ingest", "read", "write", "mark"}
      /\ pc'[a] \in {"read", "engineDone", "write", "mark", "ingest", "promote"}
  BY DEF UpsertCandidate, IngestDone, ReadFinding, WriteFinding, MarkConfirmed,
     Goto, Still, IInv, TypeOK, files, table
<1>2. pc[a] \in Walked /\ pc'[a] \in Walked /\ (AtWork(a)' => AtWork(a))
  BY <1>1 DEF Walked, Busy, AtWork, Still
<1>3. \A f \in todo[a] : f \in todo'[a] \/ cand'[a][f] # "none"
  <2>1. CASE UpsertCandidate(a)
    <3>1. PICK f \in todo[a] : /\ cand' = [cand EXCEPT ![a][f] = Record(@)]
                               /\ todo' = [todo EXCEPT ![a] = @ \ {f}]
      BY <2>1 DEF UpsertCandidate
    <3>2. f \in Finding
      BY <3>1 DEF IInv, TypeOK
    <3>3. cand'[a][f] # "none" /\ todo'[a] = todo[a] \ {f}
      BY <3>1, <3>2 DEF Record, IInv, TypeOK
    <3>. QED  BY <3>3
  <2>2. ~UpsertCandidate(a) => todo' = todo
    BY DEF IngestDone, ReadFinding, WriteFinding, MarkConfirmed
  <2>. QED  BY <2>1, <2>2
<1>4. pc'[a] = "engineDone" => todo'[a] = {}
  BY <1>1 DEF UpsertCandidate, IngestDone, ReadFinding, WriteFinding,
     MarkConfirmed, Goto, IInv, TypeOK
<1>5. SteadyInv(a)' /\ FreshInv(a)'
  BY <1>1, <1>2, <1>3, <1>4, AloneMove
<1>6. SeenInv(a)'
  <2>1. CASE UpsertCandidate(a)
    <3>1. \A f \in Finding : cand'[a][f] = "confirmed" => cand[a][f] = "confirmed"
      <4>1. PICK f \in todo[a] : cand' = [cand EXCEPT ![a][f] = Record(@)]
        BY <2>1 DEF UpsertCandidate
      <4>. QED  BY <4>1 DEF Record, IInv, TypeOK
    <3>2. row' = row /\ pc'[a] = "read"
      BY <2>1 DEF UpsertCandidate, Goto, IInv, TypeOK
    <3>. QED  BY <1>1, <3>1, <3>2 DEF AloneInv, SeenInv
  <2>2. CASE IngestDone(a) \/ ReadFinding(a)
    BY <1>1, <2>2 DEF IngestDone, ReadFinding, Goto, table, AloneInv, SeenInv,
       IInv, TypeOK
  <2>3. CASE WriteFinding(a)
    <3>1. hit' = hit /\ cand' = cand /\ pc'[a] = "mark"
      BY <2>3 DEF WriteFinding, Goto, IInv, TypeOK
    <3>. QED  BY <1>1, <2>3, <3>1, WriteEffect DEF AloneInv, SeenInv
  <2>4. CASE MarkConfirmed(a)
    <3>1. /\ row' = row /\ pc[a] = "mark" /\ hit[a] \in Finding
          /\ cand' = [cand EXCEPT ![a][hit[a]] = "confirmed"]
          /\ pc'[a] \in {"ingest", "promote"}
      BY <2>4 DEF MarkConfirmed, Goto, IInv, TypeOK, WorkerInv
    <3>2. \A f \in Finding : cand'[a][f] = "confirmed" =>
             cand[a][f] = "confirmed" \/ f = hit[a]
      BY <3>1 DEF IInv, TypeOK
    <3>. QED  BY <1>1, <3>1, <3>2 DEF AloneInv, SeenInv
  <2>. QED  BY <2>1, <2>2, <2>3, <2>4
<1>. QED  BY <1>5, <1>6 DEF AloneInv

\* What is selected to be closed has not been confirmed by this scan.
LEMMA AloneLate ==
  ASSUME IInv, NEW a \in Assessment, AloneInv(a), CandKept(a),
         ListPending(a) \/ Promote(a) \/ SelectAbsent(a) \/ CloseAbsent(a)
  PROVE  AloneInv(a)'
<1>1. /\ Still(a) /\ ever' = ever /\ cand' = cand
      /\ pc[a] \in {"engine", "promote", "close"}
      /\ pc'[a] \in {"promote", "read", "close"}
      /\ at[a] > Len(Engines)
  BY DEF ListPending, Promote, SelectAbsent, CloseAbsent, Goto, Still, IInv,
     TypeOK, WorkerInv, files, table
<1>2. pc[a] \in Walked /\ pc'[a] \in Walked
  BY <1>1 DEF Walked, Busy
<1>3. ~AtWork(a)'
  BY <1>1, EnginesFact DEF AtWork, Still, IInv, TypeOK
<1>4. SteadyInv(a)' /\ FreshInv(a)'
  BY <1>1, <1>2, <1>3, AloneMove
<1>5. SeenInv(a)'
  <2>0. Skipped(a)' = Skipped(a)
    BY <1>1 DEF Skipped, Still
  <2>1. CASE ListPending(a) \/ Promote(a)
    BY <1>1, <2>1 DEF ListPending, Promote, Goto, table, AloneInv, SeenInv, IInv,
       TypeOK
  <2>2. CASE SelectAbsent(a)
    <3>1. row' = row /\ pc'[a] = "close" /\ todo'[a] = Absent(a)
      BY <2>2 DEF SelectAbsent, Goto, table, IInv, TypeOK
    <3>. QED  BY <1>1, <2>0, <3>1 DEF AloneInv, SeenInv, Absent
  <2>3. CASE CloseAbsent(a)
    <3>1. PICK f \in todo[a] :
             /\ row'[f].seen = a
             /\ \A g \in Finding \ {f} : row'[g] = row[g]
             /\ todo'[a] = todo[a] \ {f}
      BY <2>3, CloseEffect
    <3>2. pc[a] = "close" /\ pc' = pc
      BY <2>3 DEF CloseAbsent
    <3>. QED  BY <1>1, <2>0, <3>1, <3>2 DEF AloneInv, SeenInv
  <2>. QED  BY <2>1, <2>2, <2>3
<1>. QED  BY <1>4, <1>5 DEF AloneInv

LEMMA AloneComplete ==
  ASSUME IInv, NEW a \in Assessment, Complete(a)
  PROVE  AloneInv(a)'
<1>1. pc'[a] = "idle" /\ status'[a] # "none"
  BY DEF Complete, FinishCompleted, Leave, Goto, IInv, TypeOK, WorkerInv
<1>. QED  BY <1>1 DEF AloneInv, FreshInv, SteadyInv, SeenInv, Walked, Busy

LEMMA AloneEdit ==
  ASSUME IInv, NEW a \in Assessment, AloneInv(a), Edit
  PROVE  AloneInv(a)'
<1>1. /\ UNCHANGED <<table, worker>>
      /\ steady'[a] = steady[a] \cap tree'
      /\ pc[a] # "idle" => ever'[a] = ever[a] \cup tree'
  BY DEF Edit, Live
<1>2. FreshInv(a)' /\ SeenInv(a)'
  BY <1>1 DEF AloneInv, FreshInv, SeenInv, Skipped, table, worker
<1>3. SteadyInv(a)'
  <2>1. /\ AtWork(a)' = AtWork(a) /\ Engine(a)' = Engine(a)
        /\ Skipped(a)' = Skipped(a)
    BY <1>1 DEF AtWork, Engine, Skipped, worker
  <2>2. pc[a] \in Walked => pc[a] # "idle"
    BY DEF Walked, Busy
  <2>. QED  BY <1>1, <2>1, <2>2 DEF AloneInv, SteadyInv, table, worker
<1>. QED  BY <1>2, <1>3 DEF AloneInv

LEMMA AloneTriage ==
  ASSUME IInv, NEW a \in Assessment, AloneInv(a), NEW u \in Triager,
         TriageRead(u) \/ TriageWrite(u)
  PROVE  AloneInv(a)'
<1>1. /\ UNCHANGED <<files, cand, unit, status, worker>>
      /\ \A f \in Finding : row'[f].seen = row[f].seen
  BY TriageEffect DEF TriageRead, TriageWrite, table
<1>2. FreshInv(a)'
  BY <1>1 DEF AloneInv, FreshInv, worker
<1>3. SteadyInv(a)'
  BY <1>1 DEF AloneInv, SteadyInv, AtWork, Engine, Skipped, files, worker
<1>4. SeenInv(a)'
  BY <1>1 DEF AloneInv, SeenInv, Skipped, IInv, WorkerInv, worker
<1>. QED  BY <1>2, <1>3, <1>4 DEF AloneInv

AllAlone == OneLive /\ \A a \in Assessment : AloneInv(a)

LEMMA AloneStep ==
  ASSUME OneAtATime, IInv, AllAlone, [Next]_vars
  PROVE  AllAlone'
<1>1. OneLive /\ OneLive'
  BY OneLiveStep DEF AllAlone
<1>. SUFFICES ASSUME NEW a \in Assessment PROVE AloneInv(a)'
  BY <1>1 DEF AllAlone
<1>2. AloneInv(a) /\ CandKept(a)
  BY CandidatesStay DEF AllAlone
<1>3. ASSUME NEW b \in Assessment,
             StartNew(b) \/ StartResume(b) \/ Stop(b) \/ Step(b)
      PROVE  AloneInv(a)'
  <2>1. CASE b # a
    BY <1>1, <1>2, <1>3, <2>1, AloneOthers
  <2>2. CASE b = a
    BY <1>2, <1>3, <2>2, AloneRestart, AloneWalk, AloneSkip, AloneRun,
       AloneFinish, AloneIngest, AloneLate, AloneComplete
       DEF Step, InsertConflict
  <2>. QED  BY <2>1, <2>2
<1>4. ASSUME NEW u \in Triager, TriageRead(u) \/ TriageWrite(u)
      PROVE  AloneInv(a)'
  BY <1>2, <1>4, AloneTriage
<1>7. ASSUME NEW b \in Assessment, Cancel(b)
      PROVE  AloneInv(a)'
  <2>1. /\ UNCHANGED <<files, row, cand, unit, worker>>
        /\ status'[a] = "none" => status[a] = "none"
    BY <1>7 DEF Cancel, IInv, TypeOK
  <2>2. FreshInv(a)' /\ SeenInv(a)'
    BY <1>2, <2>1 DEF AloneInv, FreshInv, SeenInv, Skipped, worker
  <2>3. SteadyInv(a)'
    BY <1>2, <2>1 DEF AloneInv, SteadyInv, AtWork, Engine, Skipped, files, worker
  <2>. QED  BY <2>2, <2>3 DEF AloneInv
<1>5. CASE Edit
  BY <1>2, <1>5, AloneEdit
<1>6. CASE UNCHANGED vars
  <2>1. UNCHANGED <<files, row, cand, unit, status, pc, at, snap, scope, mode,
                    todo, hit>>
    BY <1>6 DEF vars, files, table, worker
  <2>2. FreshInv(a)' /\ SeenInv(a)'
    BY <1>2, <2>1 DEF AloneInv, FreshInv, SeenInv, Skipped
  <2>3. SteadyInv(a)'
    BY <1>2, <2>1 DEF AloneInv, SteadyInv, AtWork, Engine, Skipped, files
  <2>. QED  BY <2>2, <2>3 DEF AloneInv
<1>. QED  BY <1>3, <1>4, <1>5, <1>6, <1>7 DEF Next

LEMMA AloneInit == Init => AllAlone
<1>. SUFFICES ASSUME Init PROVE AllAlone
  OBVIOUS
<1>1. \A f \in Finding, a \in Assessment : row[f].seen # a
  BY LedgerAssumption DEF Init, NoRow
<1>2. OneLive
  BY DEF Init, OneLive
<1>3. \A a \in Assessment : AloneInv(a)
  BY <1>1 DEF Init, AloneInv, FreshInv, SteadyInv, SeenInv, Walked, Busy, NoUnit
<1>. QED  BY <1>2, <1>3 DEF AllAlone

\* At the closing, what stayed in the tree has been confirmed by this scan.
LEMMA SteadyConfirmed ==
  ASSUME IInv, NEW a \in Assessment, AloneInv(a), pc[a] \in {"promote", "close"},
         todo[a] = {} \/ pc[a] = "close",
         NEW f \in steady[a], Category[f] \notin Skipped(a)
  PROVE  cand[a][f] = "confirmed"
<1>1. f \in Finding /\ at[a] > Len(Engines) /\ pc[a] \in Walked
  BY DEF IInv, TypeOK, WorkerInv, Walked, Busy
<1>2. PICK i \in 1..Len(Engines) : Category[f] = Engines[i]
  BY <1>1, LedgerAssumption
<1>3. cand[a][f] # "none"
  BY <1>1, <1>2, EnginesFact DEF AloneInv, SteadyInv, IInv, TypeOK
<1>4. cand[a][f] # "pending"
  BY <1>1 DEF IInv, PendingInv, Pending
<1>. QED  BY <1>1, <1>3, <1>4 DEF IInv, TypeOK

\* Full scans that are not resumed and do not overlap close only findings
\* that left the tree at some moment since the walk, whatever is edited and
\* triaged meanwhile (close_absent_findings_except: "treated as gone from the
\* tree").
THEOREM ClosesOnlyGone ==
  ASSUME OneAtATime
  PROVE  Spec => CloseOnlyGone
<1>. DEFINE A ==
       \A a \in Assessment, f \in Finding :
         row'[f] # row[f] /\ row'[f].reason = "absent_from_scan"
                          /\ row'[f].seen = a /\ pc[a] = "close"
           => f \notin steady[a]
<1>1. IInv /\ AllAlone /\ [Next]_vars => [A]_vars
  <2>. SUFFICES ASSUME IInv, AllAlone, Next,
                       NEW a \in Assessment, NEW f \in Finding,
                       row'[f] # row[f], row'[f].reason = "absent_from_scan",
                       row'[f].seen = a, pc[a] = "close", f \in steady[a]
                PROVE  FALSE
    OBVIOUS
  <2>1. ASSUME NEW b \in Assessment, WriteFinding(b) \/ CloseAbsent(b)
        PROVE  FALSE
    <3>1. CASE WriteFinding(b)
      <4>1. f = hit[b] /\ b = a
        BY <3>1, WriteEffect
      <4>. QED  BY <3>1, <4>1 DEF WriteFinding
    <3>2. CASE CloseAbsent(b)
      <4>1. PICK g \in todo[b] :
               /\ row'[g].seen = b
               /\ \A h \in Finding \ {g} : row'[h] = row[h]
        BY <3>2, CloseEffect
      <4>2. f = g /\ b = a
        BY <4>1
      <4>3. f \in todo[a]
        BY <4>1, <4>2
      <4>4. cand[a][f] # "confirmed" /\ Category[f] \notin Skipped(a)
        BY <4>3 DEF AllAlone, AloneInv, SeenInv
      <4>. QED  BY <4>4, SteadyConfirmed DEF AllAlone
    <3>. QED  BY <2>1, <3>1, <3>2
  <2>2. PICK u \in Triager : TriageWrite(u)
    BY <2>1, RowChanges
  <2>. QED  BY <2>2, TriageEffect
<1>2. Spec => [][A]_vars
  BY <1>1, AloneInit, AloneStep, Invariance, PTL DEF Spec
<1>. QED  BY <1>2 DEF CloseOnlyGone

-----------------------------------------------------------------------------
(* The ledger after such a scan, with nobody triaging: what it holds open is *)
(* what is in the tree.  A scan reports, queues and opens only what was in   *)
(* the tree since its walk, and what it has confirmed is open.               *)

EverInv(a) ==
    pc[a] # "idle" =>
       /\ \A f \in Finding : cand[a][f] # "none" => f \in ever[a]
       /\ \A f \in Finding :
            row[f].seen = a /\ row[f].state = "open" => f \in ever[a]
       /\ pc[a] \in {"ingest", "read", "write", "mark", "promote"} =>
            todo[a] \subseteq ever[a]
       /\ pc[a] \in {"read", "write", "mark"} => hit[a] \in ever[a]

OpenInv(a) ==
    pc[a] # "idle" =>
       /\ \A f \in Finding : cand[a][f] = "confirmed" => row[f].state = "open"
       /\ pc[a] = "mark" => row[hit[a]].state = "open"
       /\ pc[a] = "close" =>
            \A f \in Finding :
               row[f].state = "open" /\ row[f].seen # a => f \in todo[a]

UntriagedInv ==
    \A f \in Finding : row[f].state \in {"none", "open", "verified_fixed"}

MatchInv(a) == EverInv(a) /\ OpenInv(a)

\* Every finding belongs to an engine that a full scan runs.
AllLookedFor == \A f \in Finding : Category[f] \notin Optional \ Extras

LEMMA UntriagedStep ==
  ASSUME Triager = {}, IInv, UntriagedInv, [Next]_vars
  PROVE  UntriagedInv'
<1>1. ASSUME NEW a \in Assessment, WriteFinding(a)
      PROVE  UntriagedInv'
  <2>1. hit[a] \in Finding
    BY <1>1 DEF WriteFinding, IInv, WorkerInv
  <2>. QED  BY <1>1, <2>1, WriteEffect DEF UntriagedInv
<1>2. ASSUME NEW a \in Assessment, CloseAbsent(a)
      PROVE  UntriagedInv'
  BY <1>2, CloseEffect DEF UntriagedInv
<1>3. row' = row => UntriagedInv'
  BY DEF UntriagedInv
<1>4. UNCHANGED vars => row' = row
  BY DEF vars, table
<1>. QED  BY <1>1, <1>2, <1>3, <1>4, RowChanges

\* The others, or an edit: a running scan keeps what it has.
LEMMA MatchStill ==
  ASSUME NEW a \in Assessment, MatchInv(a), row' = row,
         cand'[a] = cand[a], pc'[a] = pc[a],
         todo'[a] = todo[a], hit'[a] = hit[a], ever[a] \subseteq ever'[a]
  PROVE  MatchInv(a)'
<1>1. EverInv(a)'
  BY DEF MatchInv, EverInv
<1>2. OpenInv(a)'
  BY DEF MatchInv, OpenInv
<1>. QED  BY <1>1, <1>2 DEF MatchInv

LEMMA MatchStart ==
  ASSUME OneAtATime, IInv, NEW a \in Assessment, AloneInv(a),
         \/ StartNew(a) \/ StartResume(a) \/ Stop(a) \/ Walk(a) \/ Complete(a)
  PROVE  MatchInv(a)'
<1>1. CASE StartNew(a) \/ Walk(a)
  <2>1. /\ cand' = cand /\ row' = row
        /\ pc'[a] \in {"walk", "engine"}
        /\ status[a] = "none" \/ pc[a] = "walk"
    BY <1>1 DEF StartNew, Walk, Goto, table, IInv, TypeOK
  <2>2. \A f \in Finding : cand[a][f] = "none" /\ row[f].seen # a
    BY <2>1 DEF AloneInv, FreshInv
  <2>. QED  BY <2>1, <2>2 DEF MatchInv, EverInv, OpenInv
<1>2. ~StartResume(a)
  BY DEF StartResume, OneAtATime, IInv, TypeOK
<1>3. CASE Stop(a) \/ Complete(a)
  <2>1. pc'[a] = "idle"
    BY <1>3 DEF Stop, Complete, Leave, Goto, IInv, TypeOK
  <2>. QED  BY <2>1 DEF MatchInv, EverInv, OpenInv
<1>. QED  BY <1>1, <1>2, <1>3

LEMMA MatchEngine ==
  ASSUME IInv, NEW a \in Assessment, AloneInv(a), MatchInv(a),
         SkipEngine(a) \/ SkipDoneUnit(a) \/ RunEngine(a) \/ FinishUnit(a)
  PROVE  MatchInv(a)'
<1>1. /\ UNCHANGED <<ever, tree, row, cand>>
      /\ pc[a] # "idle" /\ pc'[a] \in {"engine", "ingest"}
      /\ pc'[a] = "ingest" => RunEngine(a)
  <2>1. CASE RunEngine(a)
    BY <2>1 DEF RunEngine, Goto, files, IInv, TypeOK
  <2>2. CASE SkipEngine(a) \/ SkipDoneUnit(a) \/ FinishUnit(a)
    BY <2>2 DEF SkipEngine, SkipDoneUnit, FinishUnit, NextEngine, Goto, files,
       table, IInv, TypeOK
  <2>. QED  BY <2>1, <2>2
<1>2. RunEngine(a) => todo'[a] \subseteq ever[a]
  <2>. SUFFICES ASSUME RunEngine(a) PROVE todo'[a] \subseteq ever[a]
    OBVIOUS
  <2>1. PICK hits \in Reports(a, Engine(a)) : todo' = [todo EXCEPT ![a] = hits]
    BY DEF RunEngine
  <2>2. todo'[a] = hits /\ hits \subseteq tree
    BY <2>1 DEF Reports, IInv, TypeOK
  <2>3. tree \subseteq ever[a]
    BY DEF RunEngine, AloneInv, SteadyInv, Walked, Busy
  <2>. QED  BY <2>2, <2>3
<1>3. EverInv(a)'
  BY <1>1, <1>2 DEF MatchInv, EverInv
<1>4. OpenInv(a)'
  BY <1>1 DEF MatchInv, OpenInv
<1>. QED  BY <1>3, <1>4 DEF MatchInv

LEMMA MatchIngest ==
  ASSUME IInv, UntriagedInv, NEW a \in Assessment, AloneInv(a), MatchInv(a),
         \/ UpsertCandidate(a) \/ IngestDone(a)
         \/ ReadFinding(a) \/ WriteFinding(a) \/ MarkConfirmed(a)
  PROVE  MatchInv(a)'
<1>1. CASE UpsertCandidate(a)
  <2>1. PICK f \in todo[a] : /\ cand' = [cand EXCEPT ![a][f] = Record(@)]
                             /\ hit' = [hit EXCEPT ![a] = f]
                             /\ todo' = [todo EXCEPT ![a] = @ \ {f}]
    BY <1>1 DEF UpsertCandidate
  <2>2. /\ UNCHANGED <<ever, row>> /\ pc[a] = "ingest"
        /\ pc'[a] = "read"
    BY <1>1 DEF UpsertCandidate, Goto, files, IInv, TypeOK
  <2>3. f \in ever[a] /\ f \in Finding
    BY <2>1, <2>2 DEF MatchInv, EverInv, IInv, TypeOK
  <2>4. /\ hit'[a] = f /\ todo'[a] \subseteq todo[a]
        /\ \A g \in Finding \ {f} : cand'[a][g] = cand[a][g]
        /\ cand'[a][f] = "confirmed" => cand[a][f] = "confirmed"
    BY <2>1, <2>3 DEF Record, IInv, TypeOK
  <2>5. EverInv(a)'
    BY <2>2, <2>3, <2>4 DEF MatchInv, EverInv
  <2>6. OpenInv(a)'
    BY <2>2, <2>4 DEF MatchInv, OpenInv
  <2>. QED  BY <2>5, <2>6 DEF MatchInv
<1>2. CASE IngestDone(a) \/ ReadFinding(a)
  <2>1. /\ UNCHANGED <<ever, row, cand, todo, hit>>
        /\ \/ pc[a] = "ingest" /\ pc'[a] = "engineDone"
           \/ pc[a] = "read" /\ pc'[a] = "write"
    BY <1>2 DEF IngestDone, ReadFinding, Goto, files, table, IInv, TypeOK
  <2>2. EverInv(a)'
    BY <2>1 DEF MatchInv, EverInv
  <2>3. OpenInv(a)'
    BY <2>1 DEF MatchInv, OpenInv
  <2>. QED  BY <2>2, <2>3 DEF MatchInv
<1>3. CASE WriteFinding(a)
  <2>1. /\ UNCHANGED <<ever, cand, todo, hit>>
        /\ pc[a] = "write" /\ pc'[a] = "mark"
        /\ hit[a] \in Finding
    BY <1>3 DEF WriteFinding, Goto, files, IInv, TypeOK, WorkerInv
  <2>2. row'[hit[a]].state = "open"
    BY <1>3, <2>1, WriteEffect DEF UntriagedInv
  <2>3. \A g \in Finding \ {hit[a]} : row'[g] = row[g]
    BY <1>3, WriteEffect
  <2>4. EverInv(a)'
    BY <2>1, <2>3 DEF MatchInv, EverInv
  <2>5. OpenInv(a)'
    BY <2>1, <2>2, <2>3 DEF MatchInv, OpenInv
  <2>. QED  BY <2>4, <2>5 DEF MatchInv
<1>4. CASE MarkConfirmed(a)
  <2>1. /\ UNCHANGED <<ever, row, todo>>
        /\ pc[a] = "mark" /\ pc'[a] \in {"ingest", "promote"}
        /\ hit[a] \in Finding
        /\ cand' = [cand EXCEPT ![a][hit[a]] = "confirmed"]
    BY <1>4 DEF MarkConfirmed, Goto, files, IInv, TypeOK, WorkerInv
  <2>2. /\ \A g \in Finding \ {hit[a]} : cand'[a][g] = cand[a][g]
        /\ hit[a] \in ever[a] /\ row[hit[a]].state = "open"
    BY <2>1 DEF MatchInv, EverInv, OpenInv, IInv, TypeOK
  <2>3. EverInv(a)'
    BY <2>1, <2>2 DEF MatchInv, EverInv
  <2>4. OpenInv(a)'
    BY <2>1, <2>2 DEF MatchInv, OpenInv
  <2>. QED  BY <2>3, <2>4 DEF MatchInv
<1>. QED  BY <1>1, <1>2, <1>3, <1>4

LEMMA MatchLate ==
  ASSUME OneAtATime, AllLookedFor, IInv, UntriagedInv,
         NEW a \in Assessment, AloneInv(a), MatchInv(a),
         ListPending(a) \/ Promote(a) \/ SelectAbsent(a) \/ CloseAbsent(a)
  PROVE  MatchInv(a)'
<1>1. pc[a] # "idle" /\ UNCHANGED <<ever, cand>>
  BY DEF ListPending, Promote, SelectAbsent, CloseAbsent, files, table
<1>2. CASE ListPending(a)
  <2>1. row' = row /\ pc'[a] = "promote" /\ todo'[a] = Pending(a)
    BY <1>2 DEF ListPending, Goto, table, IInv, TypeOK
  <2>2. EverInv(a)'
    BY <1>1, <2>1 DEF MatchInv, EverInv, Pending
  <2>3. OpenInv(a)'
    BY <1>1, <2>1 DEF MatchInv, OpenInv
  <2>. QED  BY <2>2, <2>3 DEF MatchInv
<1>3. CASE Promote(a)
  <2>1. PICK f \in todo[a] : /\ hit' = [hit EXCEPT ![a] = f]
                             /\ todo' = [todo EXCEPT ![a] = @ \ {f}]
    BY <1>3 DEF Promote
  <2>2. /\ row' = row /\ pc[a] = "promote" /\ pc'[a] = "read"
        /\ hit'[a] = f /\ todo'[a] = todo[a] \ {f}
    BY <1>3, <2>1 DEF Promote, Goto, table, IInv, TypeOK
  <2>3. EverInv(a)'
    BY <1>1, <2>2 DEF MatchInv, EverInv
  <2>4. OpenInv(a)'
    BY <1>1, <2>2 DEF MatchInv, OpenInv
  <2>. QED  BY <2>3, <2>4 DEF MatchInv
<1>4. CASE SelectAbsent(a)
  <2>1. row' = row /\ pc'[a] = "close" /\ todo'[a] = Absent(a)
    BY <1>4 DEF SelectAbsent, Goto, table, IInv, TypeOK
  <2>2. \A f \in Finding : Category[f] \notin Skipped(a)
    BY DEF Skipped, AllLookedFor, OneAtATime, IInv, TypeOK
  <2>3. EverInv(a)'
    BY <1>1, <2>1 DEF MatchInv, EverInv
  <2>4. OpenInv(a)'
    BY <1>1, <2>1, <2>2 DEF MatchInv, OpenInv, Absent
  <2>. QED  BY <2>3, <2>4 DEF MatchInv
<1>5. CASE CloseAbsent(a)
  <2>1. PICK f \in todo[a] :
           /\ row'[f].state = "verified_fixed"
           /\ \A g \in Finding \ {f} : row'[g] = row[g]
           /\ todo'[a] = todo[a] \ {f}
    BY <1>5, CloseEffect
  <2>2. pc[a] = "close" /\ pc' = pc /\ hit' = hit
    BY <1>5 DEF CloseAbsent
  <2>3. cand[a][f] # "confirmed"
    BY <1>1, <2>1, <2>2 DEF AloneInv, SeenInv
  <2>4. EverInv(a)'
    BY <1>1, <2>1, <2>2 DEF MatchInv, EverInv
  <2>5. OpenInv(a)'
    BY <1>1, <2>1, <2>2, <2>3 DEF MatchInv, OpenInv
  <2>. QED  BY <2>4, <2>5 DEF MatchInv
<1>. QED  BY <1>2, <1>3, <1>4, <1>5

AllMatch == UntriagedInv /\ \A a \in Assessment : MatchInv(a)

LEMMA MatchStep ==
  ASSUME OneAtATime, AllLookedFor, Triager = {}, IInv, AllAlone, AllMatch,
         [Next]_vars
  PROVE  AllMatch'
<1>1. UntriagedInv /\ UntriagedInv' /\ OneLive /\ OneLive'
  BY UntriagedStep, AloneStep DEF AllMatch, AllAlone
<1>. SUFFICES ASSUME NEW a \in Assessment PROVE MatchInv(a)'
  BY <1>1 DEF AllMatch
<1>2. AloneInv(a) /\ MatchInv(a)
  BY DEF AllAlone, AllMatch
<1>3. ASSUME NEW b \in Assessment,
             StartNew(b) \/ StartResume(b) \/ Stop(b) \/ Step(b)
      PROVE  MatchInv(a)'
  <2>1. CASE b # a
    <3>1. pc[a] = "idle" /\ pc'[a] = pc[a]
      BY <1>1, <1>3, <2>1, OthersRest, OthersStill
    <3>. QED  BY <3>1 DEF MatchInv, EverInv, OpenInv
  <2>2. CASE b = a
    BY <1>1, <1>2, <1>3, <2>2, MatchStart, MatchEngine, MatchIngest, MatchLate
       DEF Step, InsertConflict
  <2>. QED  BY <2>1, <2>2
<1>4. CASE Edit
  <2>1. ever[a] \subseteq ever'[a] /\ UNCHANGED <<table, worker>>
    BY <1>4 DEF Edit
  <2>. QED  BY <1>2, <2>1, MatchStill DEF table, worker
<1>5. CASE UNCHANGED vars
  BY <1>2, <1>5, MatchStill DEF vars, files, table, worker
<1>6. ASSUME NEW b \in Assessment, Cancel(b)
      PROVE  MatchInv(a)'
  BY <1>2, <1>6, MatchStill DEF Cancel, files, worker
<1>. QED  BY <1>3, <1>4, <1>5, <1>6 DEF Next

\* When a full scan completes, and no scan overlaps, is resumed or triaged
\* over, the ledger holds open what stayed in the tree since the walk, and
\* nothing that was not in it.
THEOREM LedgerMatches ==
  ASSUME OneAtATime, AllLookedFor, Triager = {}
  PROVE  Spec => LedgerMatchesTree
<1>. DEFINE A ==
       \A a \in Assessment :
         status[a] = "running" /\ status'[a] = "completed" =>
           LET Open == {f \in Finding : row[f].state = "open"}
           IN  steady[a] \subseteq Open /\ Open \subseteq ever[a]
<1>1. Init => AllMatch
  BY DEF Init, AllMatch, UntriagedInv, MatchInv, EverInv, OpenInv, NoRow
<1>2. IInv /\ AllAlone /\ AllMatch /\ [Next]_vars => [A]_vars
  <2>. SUFFICES ASSUME IInv, AllAlone, AllMatch, Next, NEW a \in Assessment,
                       status[a] = "running", status'[a] = "completed",
                       NEW f \in Finding
                PROVE  /\ f \in steady[a] => row[f].state = "open"
                       /\ row[f].state = "open" => f \in ever[a]
    BY DEF IInv, TypeOK
  <2>1. pc[a] = "close" /\ todo[a] = {}
    <3>1. ASSUME NEW b \in Assessment,
                 StartNew(b) \/ StartResume(b) \/ Cancel(b) \/ Stop(b)
          PROVE  FALSE
      BY <3>1 DEF StartNew, StartResume, Cancel, Stop, IInv, TypeOK
    <3>2. ASSUME NEW b \in Assessment, Step(b)
          PROVE  Complete(b)
      <4>1. InsertConflict(b) => Stop(b)
        BY DEF InsertConflict
      <4>. QED
        BY <3>1, <3>2, <4>1 DEF Step, Walk, SkipEngine, SkipDoneUnit, RunEngine,
           UpsertCandidate, IngestDone, FinishUnit, ReadFinding, WriteFinding,
           MarkConfirmed, ListPending, Promote, SelectAbsent, CloseAbsent, table
    <3>3. ASSUME NEW u \in Triager, TriageRead(u) \/ TriageWrite(u)
          PROVE  FALSE
      BY <3>3 DEF TriageRead, TriageWrite, table
    <3>4. ~Edit
      BY DEF Edit, table
    <3>5. PICK b \in Assessment : Complete(b)
      BY <3>1, <3>2, <3>3, <3>4 DEF Next
    <3>6. b = a
      BY <3>5 DEF Complete, IInv, TypeOK
    <3>. QED  BY <3>5, <3>6 DEF Complete
  <2>2. f \in steady[a] => row[f].state = "open"
    <3>1. Category[f] \notin Skipped(a)
      BY DEF Skipped, AllLookedFor, OneAtATime, IInv, TypeOK
    <3>2. f \in steady[a] => cand[a][f] = "confirmed"
      BY <2>1, <3>1, SteadyConfirmed DEF AllAlone
    <3>. QED  BY <2>1, <3>2 DEF AllMatch, MatchInv, OpenInv
  <2>3. row[f].state = "open" => f \in ever[a]
    BY <2>1 DEF AllMatch, MatchInv, EverInv, OpenInv
  <2>. QED  BY <2>2, <2>3
<1>3. Spec => [][A]_vars
  BY <1>1, <1>2, AloneInit, AloneStep, MatchStep, Invariance, PTL DEF Spec
<1>. QED  BY <1>3 DEF LedgerMatchesTree
-----------------------------------------------------------------------------
(* The promise of FindingLedger.  Between the SELECT of what to close and    *)
(* each UPDATE other scans and triagers write the rows: what a worker is     *)
(* about to close stays a finding, and one it has not seen.  Who dismisses a *)
(* finding as a false positive asks for that state and that reason together. *)

ClosingInv ==
    \A a \in Assessment : pc[a] = "close" =>
       \A f \in todo[a] : row[f] # NoRow /\ row[f].seen # a

AskedInv ==
    \A u \in Triager :
       tri[u] # None /\ tri[u].why = "false_positive" => tri[u].to = "dismissed"

\* Of a worker's steps only its SELECT brings it to the closing.
LEMMA OnlySelectCloses ==
  ASSUME IInv, NEW a \in Assessment, pc'[a] = "close",
         StartNew(a) \/ StartResume(a) \/ Stop(a) \/ Step(a)
  PROVE  SelectAbsent(a) \/ CloseAbsent(a)
<1>. USE DEF Goto, IInv, TypeOK
<1>1. ~StartNew(a) /\ ~StartResume(a) /\ ~Stop(a) /\ ~Walk(a)
  BY DEF StartNew, StartResume, Stop, Leave, Walk
<1>2. ~SkipEngine(a) /\ ~SkipDoneUnit(a) /\ ~RunEngine(a) /\ ~FinishUnit(a)
  BY DEF SkipEngine, SkipDoneUnit, RunEngine, FinishUnit, NextEngine
<1>3. ~UpsertCandidate(a) /\ ~IngestDone(a) /\ ~ReadFinding(a) /\ ~WriteFinding(a)
  BY DEF UpsertCandidate, IngestDone, ReadFinding, WriteFinding
<1>4. ~MarkConfirmed(a) /\ ~ListPending(a) /\ ~Promote(a) /\ ~Complete(a)
  BY DEF MarkConfirmed, ListPending, Promote, Complete, Leave
<1>. QED  BY <1>1, <1>2, <1>3, <1>4 DEF Step, InsertConflict

\* A step moves no row, or only away from what other scans have seen.
LEMMA ClosingStep == IInv /\ ClosingInv /\ [Next]_vars => ClosingInv'
<1>. SUFFICES ASSUME IInv, ClosingInv, [Next]_vars,
                     NEW a \in Assessment, pc'[a] = "close"
              PROVE  \A f \in todo'[a] : row'[f] # NoRow /\ row'[f].seen # a
  BY DEF ClosingInv
<1>. todo \in [Assessment -> SUBSET Finding]
  BY DEF IInv, TypeOK
<1>1. CASE row' = row
  <2>1. CASE pc[a] = "close" /\ todo'[a] \subseteq todo[a]
    BY <1>1, <2>1 DEF ClosingInv
  <2>2. CASE SelectAbsent(a)
    <3>1. todo'[a] = Absent(a)
      BY <2>2 DEF SelectAbsent
    <3>. QED  BY <1>1, <3>1 DEF Absent, NoRow
  <2>3. ASSUME NEW b \in Assessment,
               StartNew(b) \/ StartResume(b) \/ Stop(b) \/ Step(b)
        PROVE  (pc[a] = "close" /\ todo'[a] \subseteq todo[a]) \/ SelectAbsent(a)
    <3>1. CASE b # a
      BY <2>3, <3>1, OthersStill
    <3>2. CASE b = a
      <4>1. CloseAbsent(a) => pc[a] = "close" /\ todo'[a] \subseteq todo[a]
        BY DEF CloseAbsent, IInv, TypeOK
      <4>. QED  BY <2>3, <3>2, <4>1, OnlySelectCloses
    <3>. QED  BY <3>1, <3>2
  <2>4. ASSUME \/ \E b \in Assessment : Cancel(b)
               \/ \E u \in Triager : TriageRead(u) \/ TriageWrite(u)
               \/ Edit \/ UNCHANGED vars
        PROVE  pc' = pc /\ todo' = todo
    BY <2>4 DEF Cancel, TriageRead, TriageWrite, Edit, vars, worker
  <2>. QED  BY <2>1, <2>2, <2>3, <2>4 DEF Next
<1>2. CASE row' # row
  <2>0. Next
    BY <1>2 DEF vars, table
  <2>1. ASSUME NEW b \in Assessment, WriteFinding(b)
        PROVE  \A f \in todo'[a] : row'[f] # NoRow /\ row'[f].seen # a
    <3>1. /\ pc[b] = "write" /\ pc' = [pc EXCEPT ![b] = "mark"]
          /\ todo' = todo /\ hit[b] \in Finding
      BY <2>1 DEF WriteFinding, Goto, IInv, WorkerInv
    <3>2. a # b /\ pc[a] = "close"
      BY <3>1 DEF IInv, TypeOK
    <3>3. Grows
      BY <2>1, WrittenRow
    <3>. QED  BY <2>1, <3>1, <3>2, <3>3, WriteEffect DEF ClosingInv, Grows
  <2>2. ASSUME NEW b \in Assessment, CloseAbsent(b)
        PROVE  \A f \in todo'[a] : row'[f] # NoRow /\ row'[f].seen # a
    <3>1. PICK f \in todo[b] :
             /\ row'[f].seen = b /\ \A g \in Finding \ {f} : row'[g] = row[g]
             /\ todo'[b] = todo[b] \ {f}
      BY <2>2, CloseEffect
    <3>2. pc' = pc /\ todo' = [todo EXCEPT ![b] = todo'[b]] /\ Grows
      BY <2>2, ClosedRow DEF CloseAbsent, IInv, TypeOK
    <3>. QED  BY <3>1, <3>2 DEF ClosingInv, Grows
  <2>3. ASSUME NEW u \in Triager, TriageWrite(u)
        PROVE  \A f \in todo'[a] : row'[f] # NoRow /\ row'[f].seen # a
    <3>1. pc' = pc /\ todo' = todo /\ Grows
      BY <2>3, TriagedRow DEF TriageWrite, worker
    <3>. QED  BY <2>3, <3>1, TriageEffect DEF ClosingInv, Grows
  <2>. QED  BY <1>2, <2>0, <2>1, <2>2, <2>3, RowChanges
<1>. QED  BY <1>1, <1>2

\* The UPDATE that closes a finding.
LEMMA ClosePromised ==
  ASSUME IInv, ClosingInv, NEW a \in Assessment, CloseAbsent(a)
  PROVE  \E f \in Finding : Promise!Close(a, f)
<1>1. PICK f \in todo[a] :
         row' = [row EXCEPT ![f].state = "verified_fixed",
                            ![f].reason = "absent_from_scan",
                            ![f].seen = a]
  BY DEF CloseAbsent
<1>2. /\ pc[a] = "close" /\ status' = status /\ pc' = pc /\ f \in Finding
      /\ row[f] # NoRow /\ row[f].seen # a
  BY DEF CloseAbsent, ClosingInv, IInv, TypeOK
<1>3. a \in Live /\ Live' = Live
  BY <1>2 DEF Live
<1>. QED  BY <1>1, <1>2, <1>3 DEF Promise!Close, Promise!Unknown, NoRow

\* The INSERT or UPDATE of a finding that is reported, with the state it has
\* by then and the evidence of the row that was read.
LEMMA ReportPromised ==
  ASSUME IInv, NEW a \in Assessment, WriteFinding(a)
  PROVE  Promise!Report(a, hit[a])
<1>. DEFINE f == hit[a]
            Out(m) == [state  |-> IF Promise!Reopens(row[f].state) THEN "open"
                                  ELSE row[f].state,
                       reason |-> IF Promise!Reopens(row[f].state) THEN "none"
                                  ELSE row[f].reason,
                       seen   |-> a, mark |-> m]
            new == IF old[a] = NoRow THEN FirstSeen(a)
                   ELSE SeenAgain(row[f], old[a], a)
<1>1. /\ pc[a] = "write" /\ pc' = [pc EXCEPT ![a] = "mark"]
      /\ status' = status /\ f \in Finding
      /\ old[a] \in Row \cup {NoRow}
      /\ row' = [row EXCEPT ![f] = new]
  BY DEF WriteFinding, Goto, IInv, TypeOK, WorkerInv
<1>2. \E m \in BOOLEAN : new = Out(m)
  <2>1. CASE old[a] = NoRow
    <3>1. row[f] = NoRow
      BY <2>1 DEF WriteFinding
    <3>2. new = Out(FALSE)
      BY <2>1, <3>1 DEF FirstSeen, NoRow, Promise!Reopens
    <3>. QED  BY <3>2
  <2>2. CASE old[a] # NoRow
    <3>1. row[f] \in Row /\ old[a] \in Row
      BY <1>1, <2>2 DEF IInv, KnownInv, TypeOK
    <3>2. row[f].state # "none" /\ old[a].mark \in BOOLEAN
      BY <3>1 DEF Row, State
    <3>3. new = Out(old[a].mark)
      BY <2>2, <3>2 DEF SeenAgain, Promise!Reopens
    <3>. QED  BY <3>2, <3>3
  <2>. QED  BY <2>1, <2>2
<1>3. a \in Live /\ Live' = Live
  BY <1>1 DEF Live, IInv, TypeOK
<1>4. PICK m \in BOOLEAN : row' = [row EXCEPT ![f] = Out(m)]
  BY <1>1, <1>2
<1>. QED  BY <1>1, <1>3, <1>4 DEF Promise!Report

LEMMA AskedStep == IInv /\ AskedInv /\ [Next]_vars => AskedInv'
<1>. SUFFICES ASSUME IInv, AskedInv, [Next]_vars PROVE AskedInv'
  OBVIOUS
<1>1. CASE tri' = tri
  BY <1>1 DEF AskedInv
<1>2. ASSUME NEW u \in Triager, TriageRead(u)
      PROVE  AskedInv'
  <2>1. PICK f \in Finding, to \in Verdicts, why \in {"none", "false_positive"} :
           /\ why = "false_positive" => to = "dismissed"
           /\ tri' = [tri EXCEPT ![u] = [f |-> f, to |-> to, why |-> why,
                                         mark |-> row[f].mark]]
    BY <1>2 DEF TriageRead
  <2>. QED  BY <2>1 DEF AskedInv, IInv, TypeOK
<1>3. ASSUME NEW u \in Triager, TriageWrite(u)
      PROVE  AskedInv'
  BY <1>3 DEF TriageWrite, AskedInv, IInv, TypeOK
<1>4. ASSUME NEW a \in Assessment,
             StartNew(a) \/ StartResume(a) \/ Cancel(a) \/ Stop(a) \/ Step(a)
      PROVE  tri' = tri
  BY <1>4 DEF StartNew, StartResume, Cancel, Stop, Step, Walk, SkipEngine, SkipDoneUnit,
     RunEngine, UpsertCandidate, IngestDone, FinishUnit, ReadFinding,
     WriteFinding, InsertConflict, MarkConfirmed, ListPending, Promote,
     SelectAbsent, CloseAbsent, Complete
<1>. QED  BY <1>1, <1>2, <1>3, <1>4 DEF Next, Edit, vars

\* The UPDATE by id of a finding that is triaged.
LEMMA TriagePromised ==
  ASSUME IInv, AskedInv, NEW u \in Triager, TriageWrite(u)
  PROVE  \E f \in Finding : Promise!Triage(f)
<1>. DEFINE f == tri[u].f  m == Mark(tri[u])
<1>1. /\ f \in Finding /\ row[f] # NoRow /\ status' = status /\ Live' = Live
      /\ tri[u].to \in State /\ tri[u].why \in {"none", "false_positive"}
      /\ row' = [row EXCEPT ![f].state = tri[u].to, ![f].reason = tri[u].why,
                            ![f].mark = m]
  BY DEF TriageWrite, Live, worker, IInv, TypeOK, KnownInv
<1>2. /\ m \in BOOLEAN
      /\ tri[u].why = "false_positive" => tri[u].to = "dismissed" /\ m
  BY DEF Mark, AskedInv, TriageWrite
<1>. HIDE DEF f, m
<1>. QED  BY <1>1, <1>2 DEF Promise!Triage, Promise!Unknown, Promise!State, NoRow, State

LEMMA PromiseStep ==
  IInv /\ ClosingInv /\ AskedInv /\ [Next]_vars => [Promise!Next]_(Promise!vars)
<1>. SUFFICES ASSUME IInv, ClosingInv, AskedInv, [Next]_vars
              PROVE  [Promise!Next]_(Promise!vars)
  OBVIOUS
<1>1. ASSUME NEW a \in Assessment, StartNew(a) \/ StartResume(a)
      PROVE  Promise!Start(a)
  <2>1. /\ pc[a] = "idle" /\ pc' = [pc EXCEPT ![a] = "walk"] /\ row' = row
        /\ status[a] \in {"none", "stopped"}
        /\ status' = [status EXCEPT ![a] = "running"]
    BY <1>1 DEF StartNew, StartResume, Goto, IInv, WorkerInv
  <2>2. a \notin Live /\ Live' = Live \cup {a}
    BY <2>1 DEF Live, IInv, TypeOK
  <2>. QED  BY <2>1, <2>2 DEF Promise!Start
<1>2. ASSUME NEW a \in Assessment, Stop(a) \/ Complete(a)
      PROVE  Promise!End(a)
  <2>1. pc[a] # "idle" /\ pc' = [pc EXCEPT ![a] = "idle"] /\ row' = row
    BY <1>2, WorkerBusy DEF Stop, Step, Complete, Leave, Goto
  <2>2. a \in Live /\ Live' = Live \ {a}
    BY <2>1 DEF Live, IInv, TypeOK
  <2>3. \/ status' = [status EXCEPT ![a] = "stopped"]
        \/ status[a] = "running" /\ status' = [status EXCEPT ![a] = "completed"]
    <3>1. Complete(a) => status[a] \in {"running", "stopped"}
      BY <2>1 DEF IInv, WorkerInv
    <3>. QED  BY <1>2, <3>1 DEF Stop, Complete, FinishCompleted, IInv, TypeOK
  <2>. QED  BY <2>1, <2>2, <2>3 DEF Promise!End
<1>8. ASSUME NEW a \in Assessment, Cancel(a)
      PROVE  Promise!Cancel(a)
  BY <1>8 DEF Cancel, Promise!Cancel, Live, worker
<1>3. ASSUME NEW a \in Assessment, Step(a), ~Complete(a), ~InsertConflict(a)
      PROVE  \/ WriteFinding(a) \/ CloseAbsent(a)
             \/ UNCHANGED <<row, status>> /\ Live' = Live
  <2>. SUFFICES ASSUME ~WriteFinding(a), ~CloseAbsent(a)
                PROVE  UNCHANGED <<row, status>> /\ Live' = Live
    OBVIOUS
  <2>1. UNCHANGED <<row, status>>
    BY <1>3 DEF Step, Walk, SkipEngine, SkipDoneUnit, RunEngine, UpsertCandidate,
       IngestDone, FinishUnit, ReadFinding, MarkConfirmed, ListPending, Promote,
       SelectAbsent, table
  <2>2. pc[a] # "idle" /\ \E label \in Busy : pc' = [pc EXCEPT ![a] = label]
    BY <1>3 DEF Step, Walk, SkipEngine, SkipDoneUnit, RunEngine, UpsertCandidate,
       IngestDone, FinishUnit, ReadFinding, MarkConfirmed, ListPending, Promote,
       SelectAbsent, NextEngine, Goto, Busy
  <2>3. Live' = Live
    BY <2>2 DEF Live, Busy, IInv, TypeOK
  <2>. QED  BY <2>1, <2>3
<1>4. ASSUME NEW a \in Assessment, WriteFinding(a)
      PROVE  Promise!Report(a, hit[a]) /\ hit[a] \in Finding
  BY <1>4, ReportPromised DEF WriteFinding, IInv, WorkerInv
<1>5. ASSUME NEW a \in Assessment, CloseAbsent(a)
      PROVE  \E f \in Finding : Promise!Close(a, f)
  BY <1>5, ClosePromised
<1>6. ASSUME NEW u \in Triager, TriageWrite(u)
      PROVE  \E f \in Finding : Promise!Triage(f)
  BY <1>6, TriagePromised
<1>7. ASSUME (\E u \in Triager : TriageRead(u)) \/ Edit \/ UNCHANGED vars
      PROVE  UNCHANGED <<row, status>> /\ Live' = Live
  BY <1>7 DEF TriageRead, Edit, vars, table, worker, Live
<1>. QED  BY <1>1, <1>2, <1>3, <1>4, <1>5, <1>6, <1>7, <1>8
          DEF Next, InsertConflict, Promise!Next, Promise!vars

LEMMA ClosingInvariance == Spec => [](ClosingInv /\ AskedInv)
<1>1. Init => ClosingInv /\ AskedInv
  BY DEF Init, ClosingInv, AskedInv
<1>. QED  BY <1>1, ClosingStep, AskedStep, Invariance, PTL DEF Spec

\* A finding that was confirmed or dismissed leaves that state by triage, or
\* is closed by a scan that has not seen it, and by nothing else: no engine
\* that reports it takes the triage back, although the scans write back rows
\* they read before it (upsert_finding in store.rs).
THEOREM TriageStands == Spec => TriageOverruled
<1>. DEFINE A == \A f \in Finding :
                   row[f].state \in {"confirmed", "dismissed"}
                   /\ row'[f].state # row[f].state => Triaged(f) \/ ClosedUnseen(f)
<1>1. IInv /\ ClosingInv /\ [Next]_vars => [A]_vars
  <2>. SUFFICES ASSUME IInv, ClosingInv, Next, NEW f \in Finding,
                       row[f].state \in {"confirmed", "dismissed"},
                       row'[f].state # row[f].state
                PROVE  Triaged(f) \/ ClosedUnseen(f)
    OBVIOUS
  <2>1. ASSUME NEW a \in Assessment, WriteFinding(a)
        PROVE  FALSE
    BY <2>1, WriteEffect
  <2>2. ASSUME NEW a \in Assessment, CloseAbsent(a)
        PROVE  ClosedUnseen(f)
    <3>1. f \in todo[a] /\ row'[f].state = "verified_fixed"
      BY <2>2, CloseEffect
    <3>2. pc[a] = "close" /\ row[f].seen # a
      BY <2>2, <3>1 DEF CloseAbsent, ClosingInv
    <3>. QED  BY <3>1, <3>2 DEF ClosedUnseen
  <2>3. ASSUME NEW u \in Triager, TriageWrite(u)
        PROVE  Triaged(f)
    <3>1. tri[u] # None /\ tri'[u] = None
      BY <2>3 DEF TriageWrite, IInv, TypeOK
    <3>2. tri[u].f = f
      BY <2>3, TriagedRow
    <3>. QED  BY <3>1, <3>2 DEF Triaged
  <2>. QED  BY <2>1, <2>2, <2>3, RowChanges
<1>2. Spec => [][A]_vars
  BY <1>1, ClosingInvariance, Invariance, PTL DEF Spec
<1>. QED  BY <1>2 DEF TriageOverruled

\* The findings table keeps the promise of FindingLedger: to a reader every
\* report, closing and triage is one step, though each reads before it writes
\* (upsert_finding, close_absent_findings_except and triage_finding in store.rs).
THEOREM ImplementsPromise == Spec => LedgerPromise
<1>1. Init => Promise!Init
  BY DEF Init, Live, Promise!Init, Promise!Unknown, NoRow
<1>. QED
  BY <1>1, PromiseStep, ClosingInvariance, Invariance, PTL
     DEF Spec, LedgerPromise, Promise!Spec

\* What follows from the promise alone.
LEMMA FindingTypes == Promise!Spec => []Promise!TypeOK
<1>1. Promise!Init => Promise!TypeOK
  BY DEF Promise!Init, Promise!TypeOK
<1>2. Promise!TypeOK /\ [Promise!Next]_(Promise!vars) => Promise!TypeOK'
  <2>. SUFFICES ASSUME Promise!TypeOK, [Promise!Next]_(Promise!vars)
                PROVE  Promise!TypeOK'
    OBVIOUS
  <2>. USE DEF Promise!TypeOK
  <2>1. ASSUME NEW a \in Assessment,
               Promise!Start(a) \/ Promise!Cancel(a) \/ Promise!End(a)
        PROVE  Promise!TypeOK'
    BY <2>1 DEF Promise!Start, Promise!Cancel, Promise!End
  <2>2. ASSUME NEW f \in Finding, Promise!Triage(f)
        PROVE  Promise!TypeOK'
    <3>1. PICK to \in Promise!State, why \in {"none", "false_positive"}, m \in BOOLEAN :
             row' = [row EXCEPT ![f].state = to, ![f].reason = why, ![f].mark = m]
      BY <2>2 DEF Promise!Triage
    <3>. DEFINE new == [row[f] EXCEPT !.state = to, !.reason = why, !.mark = m]
    <3>2. row[f] \in Promise!Known
      BY <2>2 DEF Promise!Triage
    <3>3. new \in Promise!Known
      BY <3>2 DEF Promise!Known
    <3>4. row' = [row EXCEPT ![f] = new]
      BY <3>1
    <3>. HIDE DEF new
    <3>. QED  BY <2>2, <3>3, <3>4 DEF Promise!Triage
  <2>3. ASSUME NEW f \in Finding, NEW a \in Assessment, Promise!Report(a, f)
        PROVE  Promise!TypeOK'
    BY <2>3 DEF Promise!Report, Promise!Known, Promise!Unknown, Promise!Reopens, Promise!State
  <2>4. ASSUME NEW f \in Finding, NEW a \in Assessment, Promise!Close(a, f)
        PROVE  Promise!TypeOK'
    BY <2>4 DEF Promise!Close, Promise!Known, Promise!Unknown, Promise!State
  <2>. QED  BY <2>1, <2>2, <2>3, <2>4 DEF Promise!Next, Promise!vars
<1>. QED  BY <1>1, <1>2, PTL DEF Promise!Spec

Fits(entry) ==
    /\ entry.reason = "absent_from_scan" => entry.state = "verified_fixed"
    /\ entry.reason = "false_positive" => entry.state = "dismissed"

\* What a step of the promise leaves of a finding.
LEMMA PromisedRow ==
  ASSUME Promise!TypeOK, Promise!Next, NEW f \in Finding, row'[f] # row[f]
  PROVE  /\ row'[f] \in Promise!Known
         /\ \/ Fits(row'[f])
            \/ row'[f].state = row[f].state /\ row'[f].reason = row[f].reason
         /\ row'[f].seen # row[f].seen => row'[f].seen \in Live
<1>. USE DEF Promise!TypeOK
<1>1. ASSUME NEW a \in Assessment,
             Promise!Start(a) \/ Promise!Cancel(a) \/ Promise!End(a)
      PROVE  FALSE
  BY <1>1 DEF Promise!Start, Promise!Cancel, Promise!End
<1>2. CASE Promise!Triage(f)
  <2>1. PICK to \in Promise!State, why \in {"none", "false_positive"}, m \in BOOLEAN :
           /\ why = "false_positive" => to = "dismissed" /\ m
           /\ row' = [row EXCEPT ![f].state = to, ![f].reason = why, ![f].mark = m]
    BY <1>2 DEF Promise!Triage
  <2>. DEFINE new == [row[f] EXCEPT !.state = to, !.reason = why, !.mark = m]
  <2>2. row[f] \in Promise!Known
    BY <1>2 DEF Promise!Triage
  <2>3. /\ new \in Promise!Known /\ new.seen = row[f].seen
        /\ new.state = to /\ new.reason = why
    BY <2>2 DEF Promise!Known
  <2>4. row'[f] = new
    BY <2>1
  <2>5. /\ row'[f] \in Promise!Known /\ row'[f].seen = row[f].seen
        /\ row'[f].state = to /\ row'[f].reason = why
    BY <2>3, <2>4
  <2>6. /\ why \in {"none", "false_positive"}
        /\ why = "false_positive" => to = "dismissed"
    BY <2>1
  <2>. QED  BY <2>5, <2>6 DEF Fits
<1>3. ASSUME NEW a \in Assessment, Promise!Report(a, f)
      PROVE  /\ row'[f] \in Promise!Known /\ row'[f].seen = a /\ a \in Live
             /\ \/ row'[f].state = "open" /\ row'[f].reason = "none"
                \/ row'[f].state = row[f].state /\ row'[f].reason = row[f].reason
  BY <1>3 DEF Promise!Report, Promise!Known, Promise!Unknown, Promise!Reopens, Promise!State
<1>4. ASSUME NEW a \in Assessment, Promise!Close(a, f)
      PROVE  /\ row'[f] \in Promise!Known /\ row'[f].seen = a /\ a \in Live
             /\ row'[f].state = "verified_fixed" /\ row'[f].reason = "absent_from_scan"
  BY <1>4 DEF Promise!Close, Promise!Known, Promise!Unknown, Promise!State
<1>5. ASSUME NEW g \in Finding, g # f,
             Promise!Triage(g) \/ \E a \in Assessment : Promise!Report(a, g) \/ Promise!Close(a, g)
      PROVE  FALSE
  <2>1. CASE Promise!Triage(g)
    <3>1. PICK to \in Promise!State, why \in {"none", "false_positive"}, m \in BOOLEAN :
             row' = [row EXCEPT ![g].state = to, ![g].reason = why, ![g].mark = m]
      BY <2>1 DEF Promise!Triage
    <3>. QED  BY <1>5, <3>1
  <2>2. ASSUME NEW a \in Assessment, Promise!Report(a, g) \/ Promise!Close(a, g)
        PROVE  FALSE
    BY <1>5, <2>2 DEF Promise!Report, Promise!Close
  <2>. QED  BY <1>5, <2>1, <2>2
<1>. QED  BY <1>1, <1>2, <1>3, <1>4, <1>5 DEF Promise!Next, Fits

\* The reason shown with a finding is the reason of its state: false positives
\* are dismissed, what is absent is fixed (state_reason in store.rs).
THEOREM ReasonsFit == Spec => []Promise!ReasonFitsState
<1>1. Promise!Init => Promise!ReasonFitsState
  BY DEF Promise!Init, Promise!ReasonFitsState, Promise!Unknown
<1>2. /\ Promise!TypeOK /\ Promise!ReasonFitsState /\ [Promise!Next]_(Promise!vars)
      => Promise!ReasonFitsState'
  <2>. SUFFICES ASSUME Promise!TypeOK, Promise!ReasonFitsState, Promise!Next,
                       NEW f \in Finding, row'[f] # row[f]
                PROVE  /\ row'[f].reason = "absent_from_scan" =>
                             row'[f].state = "verified_fixed"
                       /\ row'[f].reason = "false_positive" =>
                             row'[f].state = "dismissed"
    BY DEF Promise!ReasonFitsState, Promise!vars
  <2>. QED  BY PromisedRow DEF Promise!ReasonFitsState, Fits
<1>3. Promise!Spec => []Promise!ReasonFitsState
  BY <1>1, <1>2, FindingTypes, PTL DEF Promise!Spec
<1>. QED  BY <1>3, ImplementsPromise DEF LedgerPromise

\* No finding is ever deleted.
THEOREM FindingsStay == Spec => Promise!NeverDeleted
<1>. DEFINE A == \A f \in Finding :
                   row[f] # Promise!Unknown => row'[f] # Promise!Unknown
<1>1. Promise!TypeOK /\ [Promise!Next]_(Promise!vars) => [A]_(Promise!vars)
  <2>. SUFFICES ASSUME Promise!TypeOK, Promise!Next, NEW f \in Finding,
                       row[f] # Promise!Unknown, row'[f] # row[f]
                PROVE  row'[f] # Promise!Unknown
    BY DEF Promise!vars
  <2>1. row'[f].state \in Promise!State
    BY PromisedRow DEF Promise!Known
  <2>. QED  BY <2>1 DEF Promise!State, Promise!Unknown
<1>2. Promise!Spec => [][A]_(Promise!vars)
  BY <1>1, FindingTypes, PTL DEF Promise!Spec
<1>. QED  BY <1>2, ImplementsPromise DEF LedgerPromise, Promise!NeverDeleted

\* A scan that has completed puts its name on no finding any more, and is
\* never taken up again; one that was cancelled may still report and close
\* until its worker looks at its flag (cancel_scan and finish_assessment).
THEOREM EndedScansAreSilent ==
  Spec => Promise!CompletedIsSilent /\ Promise!CompletedIsFinal
<1>. DEFINE WorksOn == \A a \in Live : status[a] \in {"running", "stopped"}
            A == \A f \in Finding, a \in Assessment :
                   row'[f].seen = a /\ row[f].seen # a =>
                     status[a] \notin {"none", "completed"}
            B == \A a \in Assessment :
                   status[a] = "completed" => status'[a] = "completed"
<1>1. Promise!Init => WorksOn
  BY DEF Promise!Init
<1>2. Promise!TypeOK /\ WorksOn /\ [Promise!Next]_(Promise!vars) => WorksOn'
  <2>. SUFFICES ASSUME Promise!TypeOK, WorksOn, [Promise!Next]_(Promise!vars),
                       NEW a \in Assessment, a \in Live'
                PROVE  status'[a] \in {"running", "stopped"}
    BY DEF Live
  <2>. USE DEF Promise!TypeOK
  <2>1. ASSUME NEW b \in Assessment,
               Promise!Start(b) \/ Promise!Cancel(b) \/ Promise!End(b)
        PROVE  status'[a] \in {"running", "stopped"}
    BY <2>1 DEF Promise!Start, Promise!Cancel, Promise!End
  <2>2. ASSUME UNCHANGED <<status, Live>>
        PROVE  status'[a] \in {"running", "stopped"}
    BY <2>2
  <2>3. ASSUME NEW f \in Finding,
               Promise!Triage(f) \/ \E b \in Assessment :
                  Promise!Report(b, f) \/ Promise!Close(b, f)
        PROVE  UNCHANGED <<status, Live>>
    BY <2>3 DEF Promise!Triage, Promise!Report, Promise!Close
  <2>. QED  BY <2>1, <2>2, <2>3 DEF Promise!Next, Promise!vars
<1>3. Promise!TypeOK /\ WorksOn /\ [Promise!Next]_(Promise!vars) =>
         [A]_(Promise!vars) /\ [B]_(Promise!vars)
  <2>1. ASSUME Promise!TypeOK, WorksOn, Promise!Next, NEW f \in Finding,
               NEW a \in Assessment, row'[f].seen = a, row[f].seen # a
        PROVE  status[a] \notin {"none", "completed"}
    <3>1. a \in Live
      BY <2>1, PromisedRow
    <3>. QED  BY <2>1, <3>1
  <2>2. ASSUME Promise!TypeOK, WorksOn, Promise!Next, NEW a \in Assessment,
               status[a] = "completed"
        PROVE  status'[a] = "completed"
    <3>1. a \notin Live
      BY <2>2
    <3>2. ASSUME NEW b \in Assessment,
                 Promise!Start(b) \/ Promise!Cancel(b) \/ Promise!End(b)
          PROVE  status'[a] = "completed"
      BY <2>2, <3>1, <3>2 DEF Promise!Start, Promise!Cancel, Promise!End, Promise!TypeOK
    <3>3. ASSUME NEW f \in Finding,
                 Promise!Triage(f) \/ \E b \in Assessment :
                    Promise!Report(b, f) \/ Promise!Close(b, f)
          PROVE  status' = status
      BY <3>3 DEF Promise!Triage, Promise!Report, Promise!Close
    <3>. QED  BY <2>2, <3>2, <3>3 DEF Promise!Next
  <2>. HIDE DEF WorksOn
  <2>. QED  BY <2>1, <2>2
<1>4. Promise!Spec => [][A]_(Promise!vars) /\ [][B]_(Promise!vars)
  <2>. HIDE DEF WorksOn, A, B
  <2>. QED  BY <1>1, <1>2, <1>3, FindingTypes, PTL DEF Promise!Spec
<1>. QED
  BY <1>4, ImplementsPromise
     DEF LedgerPromise, Promise!CompletedIsSilent, Promise!CompletedIsFinal
-----------------------------------------------------------------------------
(* What is safe in "every pending hit is promoted".  A worker only goes      *)
(* forward, whatever the others do: to its next engine, to a later part of   *)
(* this one, to the next hit in its hands, or to the next of the three       *)
(* statements that put the hit on the ledger.  And until its end, a pending  *)
(* hit is in its hands or still to be listed.                                *)

PartLeft == [idle |-> 0, walk |-> 4, engine |-> 3, ingest |-> 2, read |-> 2,
             write |-> 2, mark |-> 2, promote |-> 2, engineDone |-> 1, close |-> 1]
StepLeft == [idle |-> 0, walk |-> 0, engine |-> 0, ingest |-> 0, read |-> 3,
             write |-> 2, mark |-> 1, promote |-> 0, engineDone |-> 0, close |-> 0]

\* A smaller set of hits, or the same with less to do for the one in hand.
FewerHits(a) ==
    \/ todo'[a] \subseteq todo[a] /\ todo'[a] # todo[a]
    \/ todo'[a] = todo[a] /\ StepLeft[pc'[a]] < StepLeft[pc[a]]

WorkerNears(a) ==
    \/ at[a] < at'[a] /\ at'[a] <= Len(Engines) + 1
    \/ /\ at'[a] = at[a]
       /\ \/ PartLeft[pc'[a]] < PartLeft[pc[a]]
          \/ PartLeft[pc'[a]] = PartLeft[pc[a]] /\ FewerHits(a)

\* A worker that is under way is left alone by a step, ended, or brought
\* nearer to its end: by no other scan, edit or triage is it sent back.
WorkersGoForward ==
    [][\A a \in Assessment : pc[a] # "idle" =>
         \/ UNCHANGED <<pc[a], at[a], todo[a]>>
         \/ pc'[a] = "idle"
         \/ WorkerNears(a)]_vars

\* A hit that waits in the queue of a scan at work will be listed, or is in
\* the worker's hands (confirm_pending_candidates).
PendingInReach ==
    \A a \in Assessment : \A f \in Pending(a) : pc[a] # "idle" =>
       \/ pc[a] \in {"walk", "engine"} \/ at[a] <= Len(Engines)
       \/ f \in todo[a]
       \/ pc[a] \in {"read", "write", "mark"} /\ f = hit[a]
-----------------------------------------------------------------------------
\* The next engine, or past the last one.
LEMMA NextEngineNears ==
  ASSUME IInv, NEW a \in Assessment, NextEngine(a), at[a] <= Len(Engines)
  PROVE  WorkerNears(a)
<1>1. at[a] \in 1..(Len(Engines) + 1) /\ at'[a] = at[a] + 1
  BY DEF NextEngine, IInv, TypeOK
<1>. QED  BY <1>1, EnginesFact DEF WorkerNears

\* A later part of the engine, or of the scan.
LEMMA PartNears ==
  ASSUME IInv, NEW a \in Assessment,
         Walk(a) \/ RunEngine(a) \/ IngestDone(a) \/ ListPending(a) \/ SelectAbsent(a)
  PROVE  WorkerNears(a)
<1>1. at' = at
  BY DEF Walk, RunEngine, IngestDone, ListPending, SelectAbsent
<1>2. PartLeft[pc'[a]] < PartLeft[pc[a]]
  BY DEF Walk, RunEngine, IngestDone, ListPending, SelectAbsent, Goto, IInv, TypeOK, PartLeft
<1>. QED  BY <1>1, <1>2 DEF WorkerNears

\* The next hit.
LEMMA HitNears ==
  ASSUME IInv, NEW a \in Assessment,
         UpsertCandidate(a) \/ Promote(a) \/ CloseAbsent(a)
  PROVE  WorkerNears(a)
<1>1. at' = at
  BY DEF UpsertCandidate, Promote, CloseAbsent
<1>2. PartLeft[pc'[a]] = PartLeft[pc[a]]
  <2>1. pc \in [Assessment -> {"idle"} \cup Busy]
    BY DEF IInv, TypeOK
  <2>2. CASE UpsertCandidate(a)
    BY <2>1, <2>2 DEF UpsertCandidate, Goto, PartLeft
  <2>3. CASE Promote(a)
    BY <2>1, <2>3 DEF Promote, Goto, PartLeft
  <2>4. CASE CloseAbsent(a)
    BY <2>4 DEF CloseAbsent
  <2>. QED  BY <2>2, <2>3, <2>4
<1>3. PICK f \in todo[a] : todo' = [todo EXCEPT ![a] = @ \ {f}]
  BY DEF UpsertCandidate, Promote, CloseAbsent
<1>4. todo'[a] = todo[a] \ {f}
  BY <1>3 DEF IInv, TypeOK
<1>. QED  BY <1>1, <1>2, <1>4 DEF WorkerNears, FewerHits

\* The next statement for the hit in hand.
LEMMA StatementNears ==
  ASSUME IInv, NEW a \in Assessment,
         ReadFinding(a) \/ WriteFinding(a) \/ MarkConfirmed(a)
  PROVE  WorkerNears(a)
<1>1. at' = at /\ todo' = todo
  BY DEF ReadFinding, WriteFinding, MarkConfirmed
<1>2. /\ PartLeft[pc'[a]] = PartLeft[pc[a]]
      /\ StepLeft[pc'[a]] < StepLeft[pc[a]]
  BY DEF ReadFinding, WriteFinding, MarkConfirmed, Goto, IInv, TypeOK, PartLeft, StepLeft
<1>. QED  BY <1>1, <1>2 DEF WorkerNears, FewerHits

LEMMA StepNears ==
  ASSUME IInv, NEW a \in Assessment, Step(a)
  PROVE  pc'[a] = "idle" \/ WorkerNears(a)
<1>1. CASE SkipEngine(a) \/ SkipDoneUnit(a)
  BY <1>1, NextEngineNears DEF SkipEngine, SkipDoneUnit
<1>2. CASE FinishUnit(a)
  BY <1>2, NextEngineNears DEF FinishUnit, IInv, WorkerInv
<1>3. CASE InsertConflict(a) \/ Complete(a)
  BY <1>3 DEF InsertConflict, Stop, Complete, Leave, Goto, IInv, TypeOK
<1>. QED
  BY <1>1, <1>2, <1>3, PartNears, HitNears, StatementNears DEF Step

\* No step of another scan, an edit or a triage sends a worker back, and its
\* own take it nearer to its end (scan.rs, run_scan).
THEOREM ScansGoForward == Spec => WorkersGoForward
<1>1. ASSUME IInv, Next, NEW a \in Assessment, pc[a] # "idle"
      PROVE  UNCHANGED <<pc[a], at[a], todo[a]>> \/ pc'[a] = "idle" \/ WorkerNears(a)
  <2>1. ASSUME NEW b \in Assessment,
               StartNew(b) \/ StartResume(b) \/ Stop(b) \/ Step(b), a # b
        PROVE  UNCHANGED <<pc[a], at[a], todo[a]>>
    BY <1>1, <2>1, OthersStill DEF Still
  <2>2. ~StartNew(a) /\ ~StartResume(a)
    BY <1>1 DEF StartNew, StartResume, IInv, WorkerInv
  <2>3. CASE Stop(a)
    BY <2>3, <1>1 DEF Stop, Leave, Goto, IInv, TypeOK
  <2>4. CASE Step(a)
    BY <2>4, <1>1, StepNears
  <2>5. CASE \/ \E b \in Assessment : Cancel(b)
             \/ Edit \/ \E u \in Triager : TriageRead(u) \/ TriageWrite(u)
    BY <2>5 DEF Cancel, Edit, TriageRead, TriageWrite, worker
  <2>. QED  BY <1>1, <2>1, <2>2, <2>3, <2>4, <2>5 DEF Next
<1>2. IInv /\ [Next]_vars =>
        [\A a \in Assessment : pc[a] # "idle" =>
            \/ UNCHANGED <<pc[a], at[a], todo[a]>>
            \/ pc'[a] = "idle"
            \/ WorkerNears(a)]_vars
  BY <1>1
<1>. QED  BY <1>2, Invariance, PTL DEF Spec, WorkersGoForward

\* No pending hit of a scan at work falls out of its worker's reach, however
\* often the scan was stopped and resumed (scan.rs, confirm_pending_candidates).
THEOREM NoneOutOfReach == Spec => []PendingInReach
<1>1. IInv => PendingInReach
  <2>. SUFFICES ASSUME IInv, NEW a \in Assessment, NEW f \in Pending(a),
                       pc[a] \notin {"idle", "walk", "engine"},
                       ~(at[a] <= Len(Engines))
                PROVE  f \in todo[a] \/ (pc[a] \in {"read", "write", "mark"} /\ f = hit[a])
    BY DEF PendingInReach
  <2>1. pc[a] \in {"promote", "read", "write", "mark"}
    BY DEF IInv, TypeOK, WorkerInv, PendingInv, Busy
  <2>2. at[a] > Len(Engines)
    BY EnginesFact DEF IInv, TypeOK
  <2>. QED  BY <2>1, <2>2 DEF IInv, PendingInv
<1>. QED  BY <1>1, Invariance, PTL
=============================================================================
