----------------------------- MODULE ScanLedger -----------------------------
(***************************************************************************)
(* How scans of one engagement write the findings ledger: the work units   *)
(* that let a stopped scan resume, the candidates an engine's hits become, *)
(* the findings they are promoted to, the closing of findings a scan did   *)
(* not see, and the triage a person or Jev does meanwhile                  *)
(* (crates/achilles-store/src/scan.rs run_engines and store.rs).           *)
(*                                                                         *)
(* A step is one SQL statement, or statements on rows only the worker of   *)
(* that assessment touches.  An assessment has one worker at a time here;  *)
(* ScanLifecycle shows when the code has two.  A cancel marks the row at   *)
(* once, and the worker goes on until it looks at its flag.                *)
(***************************************************************************)
EXTENDS Naturals, Sequences, FiniteSets

CONSTANTS
    Assessment, Finding, Triager,
    Category,    \* the engine that reports each finding
    Engines,     \* the engines of a scan, in the order they run
    Modes,       \* "quick" and "diff" scans
    Extras,      \* optional engines the requests ask for
    Verdicts,    \* the states a triager may ask for
    Offline,     \* whether the advisory services may be out of reach
    MaxLive,     \* bound on scans of the engagement at the same time
    MaxResumes,  \* bound on resumed scans
    MaxEdits,    \* bound on changes to the working tree
    None

ASSUME LedgerAssumption ==
    /\ Engines \in Seq({"secrets", "history", "sast", "literals", "delta",
                        "surfaces", "harden", "sca"})
    /\ Category \in [Finding -> {Engines[i] : i \in DOMAIN Engines}]
    /\ Modes \subseteq {"quick", "diff"}
    /\ Verdicts \subseteq {"open", "confirmed", "dismissed", "verified_fixed"}
    /\ Offline \in BOOLEAN
    /\ MaxLive \in Nat /\ MaxResumes \in Nat /\ MaxEdits \in Nat
    /\ None \notin Assessment

VARIABLES
    tree,     \* findings whose cause is in the working tree
    steady,   \* history: those in it ever since a worker's walk
    ever,     \* history: those in it at some moment since
    edits,
    row,      \* the findings table, by fingerprint
    cand,     \* candidates.status, by assessment and fingerprint
    unit,     \* work_units, by assessment and engine
    status,   \* assessments.status; all that a resume takes are "stopped"
    mode,     \* the mode each scan was asked for
    pc, at,   \* where each worker is: a label, and the engine it is at
    snap,     \* the tree each worker walked
    scope,    \* the findings of the files its filtered engines look at
    todo,     \* hits still to ingest, or findings still to close
    hit,      \* the hit in hand
    old,      \* the row upsert_finding read for it
    tri,      \* the request each triager has in flight
    resumes

table == <<row, cand, unit, status>>
worker == <<mode, pc, at, snap, scope, todo, hit, old>>
files == <<tree, steady, ever, edits>>
vars == <<files, table, worker, tri, resumes>>
-----------------------------------------------------------------------------
State == {"open", "confirmed", "dismissed", "verified_fixed"}
Reason == {"none", "false_positive", "absent_from_scan"}
NoRow == [state |-> "none", seen |-> None, reason |-> "none", mark |-> FALSE]
Row == [state : State, seen : Assessment, reason : Reason, mark : BOOLEAN]
Digest == [mode : Modes, tree : SUBSET Finding]
NoUnit == [st |-> "none", digest |-> None]
UnitStatus == {"running", "pending", "done"}

Optional == {"literals", "delta"}
Filtered == {"secrets", "sast", "literals", "surfaces", "harden"}
Unkeyed == {"sca"}

\* Engines that ask git: what they report is not in the walked files, and
\* the digest of their unit does not cover it.
Outside == {"history", "delta"}

EngineSet == {Engines[i] : i \in DOMAIN Engines}
Busy == {"walk", "engine", "ingest", "read", "write", "mark", "engineDone",
         "promote", "close"}

TypeOK ==
    /\ tree \subseteq Finding /\ edits \in 0..MaxEdits
    /\ steady \in [Assessment -> SUBSET Finding]
    /\ ever \in [Assessment -> SUBSET Finding]
    /\ row \in [Finding -> Row \cup {NoRow}]
    /\ cand \in [Assessment -> [Finding -> {"none", "pending", "confirmed"}]]
    /\ unit \in [Assessment -> [EngineSet ->
                   [st : UnitStatus, digest : Digest] \cup {NoUnit}]]
    /\ status \in [Assessment -> {"none", "running", "stopped", "completed"}]
    /\ mode \in [Assessment -> Modes]
    /\ pc \in [Assessment -> {"idle"} \cup Busy]
    /\ at \in [Assessment -> 1..(Len(Engines) + 1)]
    /\ snap \in [Assessment -> SUBSET Finding]
    /\ scope \in [Assessment -> SUBSET Finding]
    /\ todo \in [Assessment -> SUBSET Finding]
    /\ hit \in [Assessment -> Finding \cup {None}]
    /\ old \in [Assessment -> Row \cup {NoRow}]
    /\ tri \in [Triager -> {None} \cup [f : Finding, to : State,
                   why : {"none", "false_positive"}, mark : BOOLEAN]]
    /\ resumes \in 0..MaxResumes

Init ==
    /\ tree \in SUBSET Finding /\ edits = 0
    /\ steady = [a \in Assessment |-> {}]
    /\ ever = [a \in Assessment |-> {}]
    /\ row = [f \in Finding |-> NoRow]
    /\ cand = [a \in Assessment |-> [f \in Finding |-> "none"]]
    /\ unit = [a \in Assessment |-> [e \in EngineSet |-> NoUnit]]
    /\ status = [a \in Assessment |-> "none"]
    /\ mode \in [Assessment -> Modes]
    /\ pc = [a \in Assessment |-> "idle"]
    /\ at = [a \in Assessment |-> 1]
    /\ snap = [a \in Assessment |-> {}]
    /\ scope = [a \in Assessment |-> {}]
    /\ todo = [a \in Assessment |-> {}]
    /\ hit = [a \in Assessment |-> None]
    /\ old = [a \in Assessment |-> NoRow]
    /\ tri = [u \in Triager |-> None]
    /\ resumes = 0
-----------------------------------------------------------------------------
Goto(a, label) == pc' = [pc EXCEPT ![a] = label]
Engine(a) == Engines[at[a]]

\* The engines a scan goes through: the optional ones on request, history
\* only when it is not limited to a diff.
Skipped(a) ==
    (Optional \ Extras) \cup (IF mode[a] = "diff" THEN {"history"} ELSE {})

\* What an engine that runs reports.  It opens the walked files again, so it
\* sees what they hold by now; a finding new since the walk may be in a file
\* the walk did not list.  A filtered engine opens the files in scope only,
\* and dependency findings need the advisory services to answer.
Reports(a, e) ==
    LET there == {f \in tree : Category[f] = e
                               /\ (e \in Filtered => f \in scope[a])}
        sure  == IF e \in Unkeyed /\ Offline THEN {} ELSE there \cap snap[a]
    IN  {hits \in SUBSET there : sure \subseteq hits}

\* Mutant: the digest leaves out the tree.
DigestOfMode(a) == [mode |-> mode[a], tree |-> {}]

\* The input digest of a work unit: the options and the walked files.
InputDigest(a) ==
    [mode |-> mode[a], tree |-> {f \in snap[a] : Category[f] \notin Outside}]

\* The worker moves to its next engine, or past the last one.
NextEngine(a) ==
    /\ at' = [at EXCEPT ![a] = @ + 1]
    /\ Goto(a, "engine")
-----------------------------------------------------------------------------
(* Starting, stopping, resuming *)

\* The scans with a worker, whatever their row says.
Live == {a \in Assessment : pc[a] # "idle"}

\* create_assessment, and the worker up to its walk.
StartNew(a) ==
    /\ status[a] = "none"
    /\ Cardinality(Live) < MaxLive
    /\ status' = [status EXCEPT ![a] = "running"]
    /\ Goto(a, "walk")
    /\ UNCHANGED <<files, row, cand, unit, mode, at, snap, scope, todo,
                   hit, old, tri, resumes>>

\* reopen_assessment and reclaim_stale_units, unless the old worker is still
\* registered; the mode is the new request's.
StartResume(a) ==
    /\ status[a] = "stopped" /\ pc[a] = "idle"
    /\ Cardinality(Live) < MaxLive
    /\ resumes < MaxResumes
    /\ resumes' = resumes + 1
    /\ \E m \in Modes : mode' = [mode EXCEPT ![a] = m]
    /\ status' = [status EXCEPT ![a] = "running"]
    /\ unit' = [unit EXCEPT ![a] = [e \in EngineSet |->
                  IF unit[a][e].st = "running"
                  THEN [unit[a][e] EXCEPT !.st = "pending"]
                  ELSE unit[a][e]]]
    /\ Goto(a, "walk")
    /\ UNCHANGED <<files, row, cand, at, snap, scope, todo, hit,
                   old, tri>>

\* The worker returns, and its locals with it.
Leave(a) ==
    /\ Goto(a, "idle")
    /\ at' = [at EXCEPT ![a] = 1]
    /\ snap' = [snap EXCEPT ![a] = {}]
    /\ scope' = [scope EXCEPT ![a] = {}]
    /\ todo' = [todo EXCEPT ![a] = {}]
    /\ hit' = [hit EXCEPT ![a] = None]
    /\ old' = [old EXCEPT ![a] = NoRow]

\* cancel_scan marks the row; the worker, raised flag or not, is where it was.
Cancel(a) ==
    /\ status[a] = "running"
    /\ status' = [status EXCEPT ![a] = "stopped"]
    /\ UNCHANGED <<files, row, cand, unit, worker, tri, resumes>>

\* A raised flag, a cap, an error or a crash ends the worker between two
\* statements.  An engine that notices leaves its unit pending or in error,
\* which a resume takes alike; a crash leaves it running.
Stop(a) ==
    /\ pc[a] \in Busy
    /\ status' = [status EXCEPT ![a] = "stopped"]
    /\ \/ UNCHANGED unit
       \/ /\ pc[a] \in {"ingest", "read", "write", "mark", "engineDone"}
          /\ at[a] <= Len(Engines)
          /\ Engine(a) \notin Unkeyed
          /\ unit' = [unit EXCEPT ![a][Engine(a)].st = "pending"]
    /\ Leave(a)
    /\ UNCHANGED <<files, row, cand, mode, tri, resumes>>

\* Somebody edits the files of the workspace.
Edit ==
    /\ edits < MaxEdits
    /\ edits' = edits + 1
    /\ tree' \in (SUBSET Finding) \ {tree}
    /\ steady' = [a \in Assessment |-> steady[a] \cap tree']
    /\ ever' = [a \in Assessment |->
                  IF a \in Live THEN ever[a] \cup tree' ELSE ever[a]]
    /\ UNCHANGED <<table, worker, tri, resumes>>
-----------------------------------------------------------------------------
(* Walking the tree and running the engines *)

\* One walk lists the files and takes the digest of their contents; a diff
\* scan asks git for the changed ones.
Walk(a) ==
    /\ pc[a] = "walk"
    /\ snap' = [snap EXCEPT ![a] = tree]
    /\ \E changed \in SUBSET Finding :
          /\ mode[a] # "diff" => changed = Finding
          /\ scope' = [scope EXCEPT ![a] = changed]
    /\ steady' = [steady EXCEPT ![a] = tree]
    /\ ever' = [ever EXCEPT ![a] = tree]
    /\ Goto(a, "engine")
    /\ UNCHANGED <<tree, edits, table, mode, at, todo, hit, old, tri, resumes>>

SkipEngine(a) ==
    /\ pc[a] = "engine" /\ at[a] <= Len(Engines)
    /\ Engine(a) \in Skipped(a)
    /\ NextEngine(a)
    /\ UNCHANGED <<files, table, mode, snap, scope, todo, hit, old, tri,
                   resumes>>

\* begin_work_unit answers Skip: the unit is done for the same input.
UnitDone(a, e) ==
    /\ unit[a][e].st = "done"
    /\ unit[a][e].digest = InputDigest(a)

SkipDoneUnit(a) ==
    /\ pc[a] = "engine" /\ at[a] <= Len(Engines)
    /\ Engine(a) \notin Skipped(a) \cup Unkeyed
    /\ UnitDone(a, Engine(a))
    /\ NextEngine(a)
    /\ UNCHANGED <<files, table, mode, snap, scope, todo, hit, old, tri,
                   resumes>>

\* begin_work_unit answers Run, and the engine reports its hits.
RunEngine(a) ==
    /\ pc[a] = "engine" /\ at[a] <= Len(Engines)
    /\ Engine(a) \notin Skipped(a)
    /\ IF Engine(a) \in Unkeyed THEN UNCHANGED unit
       ELSE /\ ~UnitDone(a, Engine(a))
            /\ unit' = [unit EXCEPT ![a][Engine(a)] =
                          [st |-> "running", digest |-> InputDigest(a)]]
    /\ \E hits \in Reports(a, Engine(a)) : todo' = [todo EXCEPT ![a] = hits]
    /\ Goto(a, "ingest")
    /\ UNCHANGED <<files, row, cand, status, mode, at, snap, scope, hit,
                   old, tri, resumes>>

\* Mutant: a hit is taken as confirmed before its finding is written.
RecordConfirmed(status0) == "confirmed"

\* upsert_candidate: a new hit is pending, a known one keeps its status.
Record(status0) == IF status0 = "none" THEN "pending" ELSE status0

UpsertCandidate(a) ==
    /\ pc[a] = "ingest"
    /\ \E f \in todo[a] :
          /\ cand' = [cand EXCEPT ![a][f] = Record(@)]
          /\ hit' = [hit EXCEPT ![a] = f]
          /\ todo' = [todo EXCEPT ![a] = @ \ {f}]
    /\ Goto(a, "read")
    /\ UNCHANGED <<files, row, unit, status, mode, at, snap, scope, old,
                   tri, resumes>>

IngestDone(a) ==
    /\ pc[a] = "ingest" /\ todo[a] = {}
    /\ Goto(a, "engineDone")
    /\ UNCHANGED <<files, table, mode, at, snap, scope, todo, hit, old,
                   tri, resumes>>

\* finish_work_unit marks the unit done once its hits are in.
FinishUnit(a) ==
    /\ pc[a] = "engineDone"
    /\ unit' = IF Engine(a) \in Unkeyed THEN unit
               ELSE [unit EXCEPT ![a][Engine(a)].st = "done"]
    /\ NextEngine(a)
    /\ UNCHANGED <<files, row, cand, status, mode, snap, scope, todo,
                   hit, old, tri, resumes>>
-----------------------------------------------------------------------------
(* confirm_candidate: upsert_finding reads, then writes, then the candidate *)
(* is marked.                                                               *)

ReadFinding(a) ==
    /\ pc[a] = "read"
    /\ old' = [old EXCEPT ![a] = row[hit[a]]]
    /\ Goto(a, "write")
    /\ UNCHANGED <<files, table, mode, at, snap, scope, todo, hit, tri,
                   resumes>>

\* Mutant: the UPDATE decides on the state that was read.
SeenAgainAsRead(now, read, a) ==
    [state  |-> IF read.state = "verified_fixed" THEN "open" ELSE read.state,
     reason |-> IF read.state = "verified_fixed" THEN "none" ELSE read.reason,
     seen   |-> a,
     mark   |-> read.mark]

\* Mutant: a fixed finding stays fixed when it is seen again.
SeenButFixed(now, read, a) ==
    [state  |-> now.state, reason |-> now.reason, seen |-> a, mark |-> read.mark]

\* The UPDATE decides on the state the row has by then, but writes the
\* evidence merged from the row that was read.
SeenAgain(now, read, a) ==
    [state  |-> IF now.state = "verified_fixed" THEN "open" ELSE now.state,
     reason |-> IF now.state = "verified_fixed" THEN "none" ELSE now.reason,
     seen   |-> a,
     mark   |-> read.mark]

FirstSeen(a) ==
    [state |-> "open", reason |-> "none", seen |-> a, mark |-> FALSE]

WriteFinding(a) ==
    /\ pc[a] = "write"
    /\ LET f == hit[a] IN
       /\ old[a] = NoRow => row[f] = NoRow
       /\ row' = [row EXCEPT ![f] = IF old[a] = NoRow THEN FirstSeen(a)
                                    ELSE SeenAgain(@, old[a], a)]
    /\ old' = [old EXCEPT ![a] = NoRow]
    /\ Goto(a, "mark")
    /\ UNCHANGED <<files, cand, unit, status, mode, at, snap, scope,
                   todo, hit, tri, resumes>>

\* The row was inserted by another scan since it was read: the UNIQUE
\* constraint fails the INSERT, and with it the scan.
InsertConflict(a) ==
    /\ pc[a] = "write"
    /\ old[a] = NoRow /\ row[hit[a]] # NoRow
    /\ Stop(a)

\* Back to ingesting the engine's hits, or to promoting the leftovers.
MarkConfirmed(a) ==
    /\ pc[a] = "mark"
    /\ cand' = [cand EXCEPT ![a][hit[a]] = "confirmed"]
    /\ hit' = [hit EXCEPT ![a] = None]
    /\ old' = [old EXCEPT ![a] = NoRow]
    /\ Goto(a, IF at[a] <= Len(Engines) THEN "ingest" ELSE "promote")
    /\ UNCHANGED <<files, row, unit, status, mode, at, snap, scope, todo,
                   tri, resumes>>
-----------------------------------------------------------------------------
(* The end of a scan *)

\* confirm_pending_candidates lists what is pending.
Pending(a) == {f \in Finding : cand[a][f] = "pending"}

ListPending(a) ==
    /\ pc[a] = "engine" /\ at[a] > Len(Engines)
    /\ todo' = [todo EXCEPT ![a] = Pending(a)]
    /\ Goto(a, "promote")
    /\ UNCHANGED <<files, table, mode, at, snap, scope, hit, old, tri,
                   resumes>>

Promote(a) ==
    /\ pc[a] = "promote"
    /\ \E f \in todo[a] :
          /\ hit' = [hit EXCEPT ![a] = f]
          /\ todo' = [todo EXCEPT ![a] = @ \ {f}]
    /\ Goto(a, "read")
    /\ UNCHANGED <<files, table, mode, at, snap, scope, old, tri,
                   resumes>>

\* Mutant: findings seen by this scan are closed too.
AbsentOrSeen(a) ==
    {f \in Finding : row[f].state \in {"open", "confirmed"}
                     /\ Category[f] \notin Skipped(a)}

\* The SELECT of close_absent_findings_except, without the categories of
\* engines that did not run.
Absent(a) ==
    {f \in Finding : /\ row[f].state \in {"open", "confirmed"}
                     /\ row[f].seen # a
                     /\ Category[f] \notin Skipped(a)}

SelectAbsent(a) ==
    /\ pc[a] = "promote" /\ todo[a] = {}
    /\ todo' = [todo EXCEPT ![a] = Absent(a)]
    /\ Goto(a, "close")
    /\ UNCHANGED <<files, table, mode, at, snap, scope, hit, old, tri,
                   resumes>>

\* Its UPDATE, by id, of each row that was selected.
CloseAbsent(a) ==
    /\ pc[a] = "close"
    /\ \E f \in todo[a] :
          /\ row' = [row EXCEPT ![f].state = "verified_fixed",
                                ![f].reason = "absent_from_scan",
                                ![f].seen = a]
          /\ todo' = [todo EXCEPT ![a] = @ \ {f}]
    /\ UNCHANGED <<files, cand, unit, status, mode, pc, at, snap, scope,
                   hit, old, tri, resumes>>

\* Mutant: the verdict does not look at the row it is written over.
FinishOverCancel(status0) == "completed"

\* finish_assessment: a row that was cancelled meanwhile stays so.
FinishCompleted(status0) == IF status0 = "running" THEN "completed" ELSE status0

Complete(a) ==
    /\ pc[a] = "close" /\ todo[a] = {}
    /\ status' = [status EXCEPT ![a] = FinishCompleted(@)]
    /\ Leave(a)
    /\ UNCHANGED <<files, row, cand, unit, mode, tri, resumes>>
-----------------------------------------------------------------------------
(* triage_finding_with_source: reads the finding, then writes it by id *)

TriageRead(u) ==
    /\ tri[u] = None
    /\ \E f \in Finding, to \in Verdicts, why \in {"none", "false_positive"} :
          /\ row[f] # NoRow
          /\ why = "false_positive" => to = "dismissed"
          /\ tri' = [tri EXCEPT ![u] = [f |-> f, to |-> to, why |-> why,
                                        mark |-> row[f].mark]]
    /\ UNCHANGED <<files, table, worker, resumes>>

\* The mark that goes with a dismissal as false positive.
Mark(request) ==
    \/ request.to = "dismissed" /\ request.why = "false_positive"
    \/ request.to = "dismissed" /\ request.mark

TriageWrite(u) ==
    /\ tri[u] # None
    /\ row' = [row EXCEPT ![tri[u].f].state = tri[u].to,
                          ![tri[u].f].reason = tri[u].why,
                          ![tri[u].f].mark = Mark(tri[u])]
    /\ tri' = [tri EXCEPT ![u] = None]
    /\ UNCHANGED <<files, cand, unit, status, worker, resumes>>
-----------------------------------------------------------------------------
Step(a) ==
    \/ Walk(a) \/ SkipEngine(a) \/ SkipDoneUnit(a) \/ RunEngine(a)
    \/ UpsertCandidate(a) \/ IngestDone(a) \/ FinishUnit(a)
    \/ ReadFinding(a) \/ WriteFinding(a) \/ InsertConflict(a)
    \/ MarkConfirmed(a) \/ ListPending(a) \/ Promote(a) \/ SelectAbsent(a)
    \/ CloseAbsent(a) \/ Complete(a)

Next ==
    \/ \E a \in Assessment :
          StartNew(a) \/ StartResume(a) \/ Cancel(a) \/ Stop(a) \/ Step(a)
    \/ \E u \in Triager : TriageRead(u) \/ TriageWrite(u)
    \/ Edit

Spec == Init /\ [][Next]_vars
-----------------------------------------------------------------------------
(* Properties *)

\* What a reader of the findings table may rely on, whatever scans overlap,
\* are cancelled under their workers, stop and resume beside triage
\* (store.rs:1603-1676, scan.rs:505-512).
Promise == INSTANCE FindingLedger WITH atWork <- Live
LedgerPromise == Promise!Spec

\* A completed scan has put everything on the ledger that stayed in the tree
\* since its walk, whatever stops, resumes, overlapping scans and crashes
\* came before: no unit is skipped, and no hit left pending, that should not
\* be ("Engine hits must stay on the ledger", scan.rs:1394).  Of the engines
\* that ask git it is not true: their units can be skipped for another input.
NothingSwallowed ==
    \A a \in Assessment : status[a] = "completed" /\ mode[a] = "quick" =>
       \A f \in steady[a] : Category[f] \notin Skipped(a) \cup Outside =>
          cand[a][f] = "confirmed" /\ row[f] # NoRow

\* A completed scan leaves no candidate in the review queue, and a candidate
\* is marked confirmed only when its finding is on the ledger, even if the
\* scan was cut between the two and resumed.
HitsOnLedger ==
    \A a \in Assessment :
       /\ status[a] = "completed" => Pending(a) = {}
       /\ \A f \in Finding : cand[a][f] = "confirmed" => row[f] # NoRow

Triaged(f) == \E u \in Triager : tri[u] # None /\ tri[u].f = f /\ tri'[u] = None

\* The closing of a scan that has not seen the finding.
ClosedUnseen(f) ==
    \E a \in Assessment :
       /\ pc[a] = "close" /\ f \in todo[a] /\ row[f].seen # a
       /\ row'[f].state = "verified_fixed"

\* A finding that was confirmed or dismissed leaves that state in two ways
\* only: by triage, or closed as absent by a scan that has not seen it.  An
\* engine that reports it leaves the state, although it read the row before
\* the triage (the CASE in upsert_finding's UPDATE).  The second way takes
\* dismissals too, made after the scan's SELECT (DismissedStaysDismissed).
TriageOverruled ==
    [][\A f \in Finding :
         row[f].state \in {"confirmed", "dismissed"}
         /\ row'[f].state # row[f].state => Triaged(f) \/ ClosedUnseen(f)]_vars

\* A scan writes verified_fixed for absence only when the finding did leave
\* the tree at some moment since the scan's walk ("treated as gone from the
\* tree", store.rs:1603).
CloseOnlyGone ==
    [][\A a \in Assessment, f \in Finding :
         row'[f] # row[f] /\ row'[f].reason = "absent_from_scan"
                          /\ row'[f].seen = a /\ pc[a] = "close"
           => f \notin steady[a]]_vars

\* When a scan completes, what the ledger holds open is what is in the tree:
\* everything that stayed in it since the walk, nothing that was never in it.
\* True of full scans one after the other, with nobody triaging.
LedgerMatchesTree ==
    [][\A a \in Assessment :
         status[a] = "running" /\ status'[a] = "completed" =>
           LET Open == {f \in Finding : row[f].state = "open"}
           IN  steady[a] \subseteq Open /\ Open \subseteq ever[a]]_vars

-----------------------------------------------------------------------------
(* What the repository says of the program, and its code does not keep *)

\* "Open/confirmed findings not seen on this assessment are treated as gone"
\* (store.rs:1603): no scan turns a dismissed finding into a fixed one.
DismissedStaysDismissed ==
    [][\A f \in Finding :
         row[f].state = "dismissed" /\ row'[f].state = "verified_fixed" =>
           Triaged(f)]_vars

\* "Engine hits must stay on the ledger" (scan.rs:1394), those of the engines
\* that ask git too.
NothingSwallowedAtAll ==
    \A a \in Assessment : status[a] = "completed" /\ mode[a] = "quick" =>
       \A f \in steady[a] : Category[f] \notin Skipped(a) => row[f] # NoRow

\* A finding dismissed as a false positive carries the mark that says so
\* ("Keep a user false-positive mark when engines re-upsert", investigate.rs).
FalsePositiveMarkKept ==
    \A f \in Finding : row[f].reason = "false_positive" => row[f].mark
=============================================================================
