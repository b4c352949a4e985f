# Achilles, verified: the scan engine, its ledger and the agent runtime

This directory holds TLA+ models of the two halves of the repository: the AppSec
scan engine of `crates/achilles-store` with the ledger it writes, and the agent
runtime of `crates/goose` it is built on. Seven components are modelled, checked
with TLC and proved about with TLAPS. Paths below are relative to the
repository's source; `scan.rs`, `store.rs` and `agent.rs` are
`crates/achilles-store/src/scan.rs`, `.../store.rs` and `.../engines/agent.rs`,
the others are under `crates/goose/src`.

Contents: [1 the system](#1-the-system), [2 modules](#2-modules-and-what-they-translate),
[3 runs](#3-runs), [4 counterexamples](#4-where-the-code-does-not-keep-what-is-said-of-it),
[5 proofs](#5-proofs), [6 limits](#6-what-is-only-model-checked-and-what-is-left-out),
[7 plan](#7-plan). `PROJECT.json` lists the same in a form tools can read: every
definition with the lines it translates, every run with its properties, every
property with a mutant of the model that breaks it, and the hazards of the code.

## 1 The system

The desktop server (`crates/goose`) and any number of command-line processes
open the same SQLite ledger; each also runs agents, one per session, whose
conversations are in the session store. A *scan* is a row of
`assessments` and a tokio task, its *worker*.

| component | state it keeps | operations | what is hard | what makes it correct |
|---|---|---|---|---|
| scan lifecycle (`scan.rs`) | `assessments.status`; per process a map from assessment to abort and pause flags | `start_scan` (new, resume), `gate`, `cancel_scan`, `pause_scan`, the worker's verdict | check and registration are awaits apart; the map is per process, the row is not; verdicts are written after the worker unregistered | a verdict stands until a resume, a completed row is final, a live row has a worker, a cancel ends its worker |
| findings ledger (`store.rs`, `run_engines`) | `findings`, `candidates`, `work_units` | `begin/finish_work_unit`, `upsert_candidate`, `confirm_candidate`, `upsert_finding`, `close_absent_findings_except`, `triage_finding_with_source` | reads and writes of a row are separate statements; scans overlap, stop anywhere and resume while files change | no hit is lost, only findings that left the tree are closed, no scan undoes a triage |
| review pool (`agent.rs`) | a semaphore, one task per review, `evidence_json` of each finding | `run`, `review_one`, `set_finding_verdict`, `record_jev_verdict` | permits of reviews that fail, sleep or are cancelled; evidence read and written back whole by several writers | two agreeing passes or a person decide, no candidate is lost, the pool drains |
| engines (`engines/*.rs`) | none between scans (intel cache apart) | walk, digest, report hits | they read files after the walk took the digest; diff mode and missing services make them see less | what they report is in the tree, and a unit is skipped only for the same input |
| abort and budget (`engines/abort.rs`, `budget.rs`) | a flag with a `Notify`; a deadline and a sum | `cancel`, `race`, `check`, `add_cost` | a wake-up between check and wait; completions in flight when the cap is reached | a waiter is woken, nothing is sent after a cancel, a cap is overshot by one completion per worker |
| agent state machine (`agents/state_machine/`) | the persisted conversation; steer queue, goal, cancellation token; the active prompt of a session | the pipeline of operations, the effects of a step, `run`, the cancel hook; start and end of a prompt | effects are stored one by one and a crash may fall between any two; approvals, steers and cancellations come at any time; a call that is let go may still take effect; the mode is read twice | nothing unapproved runs, nothing is called or answered twice, the turn budget holds, a steer is lost with its prompt only, every run ends |
| older reply loop, extensions, confirmations (`agents/agent.rs`, `tool_confirmation_router.rs`) | conversation, extension clients, pending confirmations | reply loop, tool dispatch, subagents | cancellation mid-call, answers that come late | each tool request gets one response |
| elicitation (`action_required_manager.rs`, `elicitation.rs`) | pending requests with a oneshot each, the stream of a tool call | ask and wait, claim, submit, time out, drop | the timeout races an answer that has claimed the request; the answer is stored between claim and submit | one recorded answer, one outcome, and everybody is told the same |
| agent manager (`execution/manager.rs`, `orchestrator.rs`) | LRU of agents, creation locks, cancel tokens | get or create, evict, remove, interrupt, register | locks are pruned while others wait for them; tokens are removed by session, not by owner | one builder per session, a running reply can be interrupted, nobody waits for ever |
| scheduler (`scheduler.rs`) | job map, cron tasks, running tasks, jobs file | add, update, pause, remove, run, kill, list, load | the mutex is given back between looking, changing and writing; the file is written in place; the future of a `run_now` may be dropped; listings synchronise the map with a file read earlier | the running flag has a run, the file catches up, each job fires, no job is lost |
| gateway pairing (`gateway/pairing.rs`) | pending codes in a configuration file | issue, consume | load, edit and save without a lock | a code pairs once |
| ACP server, CLI, MCP servers, providers, configuration, UI | request state, HTTP | routing, I/O, text | little ordering of their own | out of scope (section 6) |

How they meet: the ACP server and the CLI call `start_scan`, `cancel_scan` and
`pause_scan`. The worker runs the engines; each engine's hits go through
`upsert_candidate` and `confirm_candidate` to the ledger. In Investigate and
Deep scans the review pool then works on the findings of this assessment, and
after it the worker promotes what is still pending and closes what it has not
seen. People and Jev triage the same rows at any time. Nothing but single SQL
statements is atomic: the store opens no transaction on these paths.

On the agent side, a message to a session first gets the session's agent from
the agent manager, which registers the reply's cancel token; the reply runs the
state machine on the stored conversation until it yields. A tool call in it may
ask the person through an elicitation, answered by the ACP server or the CLI
while the call waits. The scheduler starts sessions of its own from cron tasks.
The four meet at interfaces a free choice stands for here: a reply of
`AgentManager` ends whenever `AgentTurn` says a run does, a tool call of
`AgentTurn` takes any time, as one that waits in `Elicitation` does.

## 2 Modules and what they translate

```
AssessmentRow       <-- RowPromise  (refinement) -- ScanLifecycle --> ScanLifecycle_proofs
FindingLedger       <-- LedgerPromise (refinement) - ScanLedger   --> ScanLedger_proofs
ElicitationPromise  <-- PromiseKept (refinement) -- Elicitation   --> Elicitation_proofs
ToolCall            <-- CallsPromise (refinement) - AgentTurn     --> AgentTurn_proofs
ReviewPool   --> ReviewPool_proofs        AgentManager --> AgentManager_proofs
Scheduler    --> Scheduler_proofs         ScanStop     --> ScanStop_proofs
MC<module> instantiates each component for TLC
```

In all of them a step is what the code does between two awaits: one SQL
statement or one section of a mutex, or the synchronous code after one.

**AssessmentRow** is the abstract specification: what the status column
promises to every reader, whoever writes it. A row is created running, steered
between running and paused, decided once, and reopened unless completed.

**ScanLifecycle** is `start_scan`, the worker, `cancel_scan` and `pause_scan`.
`status` is the column; `control` the process-local map of `scan_controls()`;
`cancel` and `pause` the two flags of each run's `ScanControl`; `pc`, `target`,
`saw`, `passed`, `outcome` the locals of `start_scan` and of its task; `call` the
request each client has in flight between reading the row, touching the flag
and storing the status. `StartNew`, `ResumeRead`, `ResumeCheck`,
`ResumeReopen`, `Register` are the awaits of `start_scan`, `AbandonStart` an
error or a dropped future among them, `DropWaiter` is `CancelOnDrop`.
`GateBudget`, `GateCancelled`, `GatePass`, `GateWake`, `GateUnpause` are `gate`;
`EngineDone`, `EngineStopped`, `EngineFailed` how an engine returns;
`FinishCompleted`, `Unregister`, `RecordStop` the end of the worker, in the
order the code has: the verdict of a failed or stopped run is written *after*
the control is gone, and nobody looks whether that write succeeded (`let _ =`): a
worker may end "unrecorded". `FinishAssessment`, `SetLiveStatus`, `ReopenAssessment`
are the three guarded UPDATEs. `Crash` ends a process with its map and tasks.

**FindingLedger** is the abstract specification of the findings table: a row, once
there, is never deleted; a scan reports and closes only while it has a worker, be
its row cancelled or not; none closes what it has seen last itself; a report reopens
only what was fixed; the rest is triage, which is one step there.

**ScanLedger** is the same worker seen from the tables. `row` is a finding's state,
`last_seen_assessment_id`, reason and false-positive mark; `cand` and `unit` the
candidates and work units; `tree` the findings whose cause is in the files now, `snap`
the tree a worker walked, `scope` what a diff scan opens. `steady` and `ever` are
history: what has been in the tree ever since a worker's walk, and at some moment
since. The lifecycle shrinks to running/stopped/completed and one worker per
assessment (section 4 tells when the code has two); row and worker are apart: `Cancel`
is `cancel_scan`, which marks the row while the worker goes on to its next gate or
failing write, and `Live` are the scans that have a worker. A unit is keyed by a
digest of the walked files and the options (`InputDigest`); the engines in `Outside`
(history, delta) ask git, whose answer is not in the digest. `Reports` is the
abstraction of an engine: it opens the walked files again, so it must report what was
there at the walk and still is, and may report what has come since. `ReadFinding` and
`WriteFinding` are the SELECT and the UPDATE or INSERT of `upsert_finding`: the
UPDATE's CASE looks at the row of that moment, the evidence it writes was merged from
the row read. `InsertConflict` is the UNIQUE constraint. `Stop` ends a worker between
any two statements, leaving its unit as the code would: running after a crash, pending
or error after a cancel or an engine's failure. The hits of the dependency scan go
through the ledger twice in the code, before and after enrichment; the second pass
upserts rows the first has written and is one with it here.

**ReviewPool** is `agent::run` with `review_one`. `spawner` is the loop that
takes a permit per job, `pc` and `op` say where a review is and which of its
three writes (investigator, validator, state) it is at; `seen` is the row a
writer has read. `ReadRow` and `WriteRow` are the two statements of
`set_finding_verdict` and `triage_finding_with_source`; `WriteFailed`,
`SettleFailed` and `AnswerFailed` the error paths, with what each does next.
`OtherRead` and `OtherWrite` are a person's triage and `record_jev_verdict`.
What the model reads before it answers is left to its verdict.

**ScanStop** is `Abort` with the `Notify` of tokio behind it, the pause that the
gate and the workers poll, and `ScanBudget` as the workers of the pool share it.
`SetFlag` and `NotifyWaiters` are the two statements of `cancel`, which run on the
thread of a client (`request_cancel_flag`, then `ClearPause`, under the mutex of
the control map) or of a dropped waiter (`CancelOnDrop`, without it) between any
two steps of a poll: `Create`, `Check` and
`Listen` are `cancelled()` up to its await, `Ask` the second branch of the biased
`select!`. `snap` is the count of `notify_waiters` a `Notified` remembers,
`listening` its place in the list of waiters, and `awake` says that the task
will be polled again: without it, it is not, and that is where a lost wake-up
would hang. A scan first makes its requests, one at a time, then runs the pool,
where `AddCost` and `CheckCost` are the two sections of the mutex in `add_cost` and
a worker goes on to its next completion only from `CheckCost`. Costs are whole
units of money; a completion whose provider tells no cost adds 0. `Notify` itself
and the servers (`Respond`) are external. The deadline of the budget, and what
pause and cancel do to the rows and the reviews, are in ScanLifecycle and
ReviewPool.

**ElicitationPromise** is what the asking server, the person and the
conversation may rely on: an answer is recorded at most once, never after the
server was told something else, and what the server is told is that answer.

**Elicitation** is `ActionRequiredManager` with
`complete_elicitation_with_message` and the streams of the extension manager.
`pending`, `tx` and `guard` are an entry of the map, the `response_tx` inside it
and its mutex; `chan` is the oneshot; `stream` and `reg` the action-required
stream of a tool call and the sender registered for it, which a spawned task
takes away some time after the drop. `AskInsert`, `AskLookup`, `AskSend`,
`Receive`, `Expire`, `AfterTimeout`, `Return` are `request_and_wait`, `Abandon`
its future dropped; `Find`, `Claim`, `AddMessage`, `SubmitTake`, `SubmitSend` the
answer, which holds the entry's mutex from the claim over the write to the
conversation until it has taken `tx`. A responder of another session is refused.

**AgentManager** is `get_or_create_agent_with_runtime_context` as the orchestrator's
`send_message` calls it, then registration of the cancel token, the reply and its end,
beside `remove_session_if_loaded` and `cancel_session`. A lock is named after the
caller that made it, so that two locks of one session can be told apart; `arc` says
who has a clone, and `Prune` looks at the count of clones as `prune_creation_lock`
does. `Register` refuses a busy session, and `EndReply` takes the token of the session
whoever registered it, as `unregister_cancel_token` does. Which session is least
recently used is left open, and the guard and the clone are dropped in one step.

**ToolCall** is what the loop promises of a tool request: it is made once, decided
once by the person, answered once, its tool is called only while permitted and
not answered, and a call takes effect once at most, which may be after the answer:
dropping the future of a call does not stop the server or the child process.

**AgentTurn** is the machine of `agents/state_machine`: `step` tries the
operations in the pipeline's order, `apply` persists the effects of the one that
applies, one by one. The conversation is what the operations ask of it: the
requests, marks, questions and answers since the kickoff message, the kind and
the visibility of the last message, and the counts (`turns`, `denials`,
`attempts`) the code recomputes from the messages. `PastSteer` to `PastTools` are
"the operations before this one do not apply". Every persisted effect has its
action (`Mark`, `Ask`, `PersistSteer`, `PersistReply`, `AnswerCommand`,
`BeginWork`), so that `StoreFails` and `Crash` may come after any of them.
`ListTools` and `Dispatch` are apart because the mode is read again between
them. A call, its effect and its result are apart too: `out` are the calls that
are out, `TakeEffect` and `ToolReturns` what becomes of them; a cancelled run lets
them go (`LetGo`), answers them as interrupted (`CollectResults`), and `LateEffect`
is what `stray` calls may still do. The client may confirm while no effects are
being stored, and cancel at any time. A prompt of the ACP server is around each run:
`Start` is `start_active_run`, `AcceptSteer` the check of `require_active_run` and
`SendSteer` the queueing some awaits later, `EndPrompt` is `clear_active_run`, which
drops the queue (`discarded`); its two sections of mutexes are one step.

**Scheduler** is `Scheduler` with the cron tasks of the internal scheduler.
`jobs` is the map, `file` the jobs file, `tasks` what is registered, `running`
the map of tokens. A run is a cron task that fires (`Fire`, `Mark`) or a
`run_now`; both then persist the mark, insert the token, execute, unmark and
persist again. A request is a chain of the sections of the mutex the code
takes: `Add`, `Register`, `Insert`, `Persist`; `Update`, `Replace`, `Renew`,
`Swap`, `Persist`; `Kill`, `CancelRun`, `Clear`, `Persist`; and a listing
(`List` to `Listed`). `NotPersisted` is a write that fails after the map was
changed; since `fs::write` truncates, a failing write leaves the file as it was or
one that cannot be parsed (`FailWrite`, `written`), and so does a process that ends
in a write. `RunDropped` is a `run_now` whose future is dropped, as when the turn is
cancelled whose tool call it is: the mark stays, and `left` has its job.
`RequestDropped` is the same of the other requests, `cut` has the jobs they were at.
`Restart` is the end of the process and `load_jobs_from_storage` of what it finds,
which is no job at all where the file is torn.
`ListAlone` lets listings run only while no other request does: section 4 tells
what happens otherwise.

`MC*.tla` give the constants values TLC can enumerate. An operator with a
comment "Mutant:" is a wrong version of the definition after it, kept to show
that a property is about something; no specification uses it.

## 3 Runs

All of `PROJECT.json`'s passing runs finish without error; between them every
action of every module fires. Deadlock is not checked: a system whose scans
are done and whose clients are idle does stop.

| run | distinct states | shows |
|---|---|---|
| `lifecycle_safety` | 2.10 million | `TypeOK`, `LiveRowHasWorker`, `ControlIsLiveTask`, and that the lifecycle implements `AssessmentRow` (`RowPromise`), with two overlapping starts or resumes of one assessment, a client and a crash |
| `ledger_resume` | 2.52 million | that the ledger implements `FindingLedger` (`LedgerPromise`), `NothingSwallowed`, `HitsOnLedger`, `TriageOverruled` with two overlapping scans, a cancel, a stop and a resume at any statement, an edit of the tree and a person |
| `ledger_sequential` | 2.29 million | `CloseOnlyGone`, `LedgerMatchesTree` with three full scans one after the other and two edits, of a secret and a vulnerable dependency |
| `review_safety` | 2.06 million | `CandidateOnLedger`, `TwoPassesDecide` with a review of a finding and one of a leftover candidate of the same finding, a person and Jev |
| `review_pool` | 262 thousand | `CancelEndsPool`, `UnpausedPoolEnds` with one permit for two jobs, a pause, a cancel and failing writes |
| `elicitation` | 54 thousand | that the manager implements `ElicitationPromise` (`PromiseKept`), `ToldTheTruth`, `QuestionEnds`, `AnswerEnds` with two questions of one tool call, two responders and one of another session |
| `agents` | 518 thousand | `OneBuilder`, `ReplyReachable`, `AgentArrives` with three callers for one session and one for another, room for one agent, a removal, interrupts and failing builds |
| `turn` | 2.21 million | that the loop implements `ToolCall` (`CallsPromise`), `NothingUnapproved`, `ExecutedOnce`, `BudgetHolds`, `SteersKept`, `LeavesOnlyQuestions` with a request to ask about, a free one and an unknown one, a steer, goals, a retry, a cancellation, late effects and a fault at any effect |
| `turn_ends` | 808 thousand | `RunEnds` for the same turn with the mode fixed |
| `scheduler` | 994 thousand | `FlagHasRun`, `MapReachesFile`, `JobFires`, `NothingLost` with one job, two clients, two runs at once, two requests, a fault (a write that fails or tears the file, a dropped run or request) and a restart |
| `stop` | 476 thousand | `CancelEndsScan`, `NothingAfterCancel`, `OvershootBounded` with two requests that may never be answered, two cancels at once, pauses before and after them, two workers, three jobs of two passes and two turns, and a cap that two completions can pass |
| `ledger_diff_closes` | until violated | `CloseOnlyGone` does not hold of diff scans (section 4) |

*Bounds.* One assessment is enough for the lifecycle: rows, flags and guards are per
assessment, and a run works on one. Two runs give every race of a run with the one
before it, and one gate before the last is enough to be paused, cancelled and stopped
inside and outside an engine (`Gates`). The ledger's rows are independent of each
other but for the set to close; two findings of two engines make one engine skippable
while the other is not. Three scans (`ledger_sequential`) are needed for a finding to
come, go and come back. One edit puts a change between any two statements of a scan;
`MaxEdits`, `MaxResumes`, `MaxLive`, `MaxCrashes`, `MaxPauses` and `MaxTriage` are the
only bounds in guards of the scan engine. A question and a rival for its mutex are all
an elicitation can meet; the second question shares the stream. Room for one agent
makes every build for the other session evict, with three callers one may build, one
wait and one come back. Two turns are needed for a tool and what the model says of it,
and `MaxRetries`, `BlockCap`, `MaxMessages`, `MaxSteers`, `MaxFaults` and
`MaxSwitches` of one each put one retry, denial, steer, fault or mode switch anywhere
in it (`turn`; the mode switches between runs, section 4 has the other case;
`turn_ends` leaves the switch out, since one between runs takes no step of a run). In
`stop`, two requests put a cancel before, inside and between two races, and two
workers with completions of 0 to 2 pass a cap of 3 at any step of each other
(`MaxFetches`, `MaxJobs`, `MaxPauses`). Jobs of the scheduler meet in the file only:
one job, two runs and two clients give every race on an entry, and two requests every
pair of add, update, pause, kill, removal and listing, on a job of an earlier process
or none (`MaxRequests`; three requests pass too, with 5.4 million states in a quarter
of an hour). Symmetry is used over assessments and over the runs, callers and tasks of
the scheduler, in runs without liveness.

*Fairness.* `ReviewPool`: weak fairness of the spawner and of each review
(`Spawner`, `Review`): tokio polls a spawned task until it returns, the pause loop is
a poll every 50 ms, SQLite statements return, and a model call returns an answer or
an error. Cancels, pauses and triage are under no fairness. A pool left paused for
ever may stay there, which is why `UnpausedPoolEnds` assumes `<>[]~pause`. The
lifecycle and the ledger are checked for safety only, over a worker that may stop
anywhere.
`Elicitation`: ready tasks run, a timer fires, `add_message` returns (`Asker`,
`Answerer`). `AgentManager`: a caller that asks for an agent is polled, and
building one ends (`GetAgent`); no reply need ever end, nor any removal. Weak
fairness is enough for a mutex, since the holder frees it.
`AgentTurn`: weak fairness of the machine as a whole (`Machine`): it is one task,
and the provider, tools, checks and hooks answer or time out. `ScanStop`: a task
that was woken is polled, a thread inside `cancel` finishes it, completions end;
no server need ever answer (`Respond` has no fairness). Answers of people,
steers, cancellations and faults are under no fairness anywhere.

## 4 Where the code does not keep what is said of it

One run ends in a counterexample to something the repository says of itself;
`PROJECT.json` quotes the line. `ledger_diff_closes` (`CloseOnlyGone`): a diff
scan closes, as absent, findings in files it did not open.

More configurations are kept for the same modules; each gives a counterexample
of its own, most within seconds:

| configuration | property | what happens |
|---|---|---|
| `lifecycle_second_worker.cfg` | `OneWorker` | the check that no worker is running looks at the map of its own process, and registration is several awaits later: an assessment gets two workers |
| `lifecycle_cancel_lost.cfg` | `CancelDelivered` | a cancel from another process marks the row cancelled while the worker goes on; its own verdict then changes nothing, which is proved |
| `lifecycle_stale_verdict.cfg` | `FinishedIsCompleted` | a worker that has unregistered writes its verdict over the run that resumed it |
| `ledger_resume_closes.cfg` | `CloseOnlyGone` | a resumed scan skips finished units, whose findings a newer scan has seen since; it closes them |
| `ledger_offline_closes.cfg` | `CloseOnlyGone` | advisory services that do not answer look like no finding |
| `ledger_overlap_closes.cfg` | `CloseOnlyGone` | of two scans at once, the one that saw a finding first closes it |
| `ledger_stale_digest.cfg` | `NothingSwallowed` | a file changed between walk and engine and restored before the resume: the unit counts as done |
| `ledger_stale_history.cfg` | `NothingSwallowedAtAll` | the git log changes between two runs of a scan and the files do not: the history engine's unit is skipped for another input |
| `ledger_close_over_triage.cfg` | `DismissedStaysDismissed` | a dismissal between SELECT and UPDATE of the closing becomes verified_fixed, and the next hit opens it |
| `ledger_mark_lost.cfg` | `FalsePositiveMarkKept` | an engine writes back evidence without the mark set since it read |
| `review_jev_lost_pass.cfg` | `EvidenceBacksReview` | Jev's verdict, written from evidence read earlier, erases a pass; the finding is decided all the same, though the doc of `record_jev_verdict` says that the passes are unaffected (`store.rs:1488-1490`) |
| `agents_one_reply.cfg` | `OneReply` | a removal and the end of the removed reply free the token of the next one: two replies of one session at once |
| `turn_mode_switch.cfg` | `NothingUnapproved` | the mode is chat when tool_approval looks and approve when tools are dispatched: they run unasked |
| `turn_steer_discarded.cfg` | `SteersPickedUp` | a run ends before it takes a steer that was acknowledged, or one is queued after it ended: `clear_active_run` drops the queue |
| `scheduler_torn_file.cfg` | `JobsSurvive` | a process ends in the middle of `fs::write`: the next one finds a file it cannot parse and starts with no jobs |
| `scheduler_dropped_run.cfg` | `MarkHasRun` | a `run_now` is dropped between its mark and its unmark: the job stays marked until a restart |
| `scheduler_listing.cfg` | `NothingLost` | a listing that read the file before an add drops the added job from the map, and the next write from the file |
| `scheduler_kill.cfg` | `KillCancels` | a kill between the mark and the token reports success, and the run goes on |

The passing runs leave these cases out by their bounds, or their properties name
them, and say so: `CloseOnlyGone` and `LedgerMatchesTree` are checked for full scans
one after the other, `NothingSwallowed` for one edit and the engines whose input is
the walked files, `NothingUnapproved` with the mode stable while tools are listed,
the scheduler with listings alone. `TriageOverruled` lets a closing take a triage,
`ReplyReachable` lets a reply lose its token to the end of one that a removal cut
off, `SteersKept` counts the steers dropped with their prompt, `LiveRowHasWorker`
excuses a worker whose last write failed, `FlagHasRun` and `MapReachesFile` the job
of a dropped `run_now`, `JobFires` that of a dropped update, and `NothingLost` a
process that found its file torn. Each says that nothing else has the same effect.

## 5 Proofs

`tlapm` checks all eight proof modules from nothing (10097 obligations). They hold for
every value of the constants under the modules' `ASSUME`s: which process a run lives
in, that no worker is also a triager, that categories are engines of the scan, that
there is a permit and finitely many jobs, which session a caller wants and a tool call
belongs to, which requests are to be asked about, that the pool has finitely many
permits and the cap is positive. None of them bounds the runs, scans, clients,
findings, callers, requests, faults or crashes. Some theorems name an assumption more,
and section 4 shows for each that it is needed: `ApprovedOnly` and `ImplementsCall`
that the mode does not change between the listing and the dispatch of tools;
`NothingIsLost`, `FlagsHaveRuns` and `FileCatchesUp` that listings run alone;
`KeyedFindingsStay` and `NoneSwallowed` that no edit brings back a tree a unit was
recorded for (`NoTreeBack`), the second also that the advisory services are in reach;
`ClosesOnlyGone` and `LedgerMatches` full scans that neither overlap nor are resumed
(`OneAtATime`), the second also that nobody triages and that each finding has an
engine that runs.

* **ScanLifecycle_proofs.** `TypeCorrect`, `NoOrphanRow` (`LiveRowHasWorker`),
  `ControlsAreLive` (`ControlIsLiveTask`), `ImplementsRow` (`RowPromise`:
  initial states map to initial states, every step to a step of `AssessmentRow`
  or a stutter). From the last one and the abstract specification follow
  `CompletedStaysCompleted` and `VerdictStands`. `LiveRowHasWorker` and
  `ControlIsLiveTask` are inductive with one addition, `WorkerInv`: a worker
  in an engine has engines left, one that is stopping has an outcome, and one
  that is recording has a verdict to write that is not completed. Without it a
  step of an arbitrary state could record "none", or a second completion.
  `RunsAreBounded` (`RunsGoForward`): the natural number `RunLeft` falls with every
  move of a run, so it ends after at most `9 * Gates + 12` of them.
* **ScanLedger_proofs.** `LedgerTypes`, `HitsStay` (`HitsOnLedger`), `TriageStands`
  (`TriageOverruled`). The invariant adds what the worker's locals mean. `WorkerInv`:
  a row that is running has its worker (not the other way round: a cancelled one may),
  and a worker's label, its engine and its unit agree. `KnownInv`: a row that was
  read, or asked to be triaged, is never gone, and a candidate is marked only once its
  finding exists. `PendingInv`: from the listing on, what is still pending is in
  `todo` or in hand. The last part needs that only the worker itself touches the
  candidates of its assessment. `KeyedFindingsStay` adds what a unit stands for:
  whatever a done unit was recorded for and has stayed in the tree is a candidate
  (`UnitInv`), so is what the engine at work reports, or it is yet to ingest
  (`HandInv`), and what the engines passed have reported (`PassInv`). Edits may be any
  number; an engine that runs while the tree differs from its digest records the
  digest all the same, and what makes the unit's skipping safe later is that this tree
  does not come back. `NoneSwallowed` (`NothingSwallowed`) is the same of every
  finding. `ImplementsPromise` (`LedgerPromise`) needs two facts more: what is to be
  closed is on the ledger and was not last seen by the scan that closes it
  (`ClosingInv`), and a triager gives "false positive" as the reason of a dismissal
  only (`AskedInv`). From the refinement alone follow `ReasonsFit` and
  `EndedScansAreSilent`. `ClosesOnlyGone` (`CloseOnlyGone`) follows another line, for
  any number of edits: while a scan runs no other does (`OneLive`), so what it has
  confirmed is still the last it has seen (`SeenInv`), and what was steady since the
  walk has been confirmed by the time of the closing (`SteadyInv`, from `FreshInv`).
  `LedgerMatches` (`LedgerMatchesTree`) adds that what is queued or opened was in the
  tree since the walk (`EverInv`) and what is confirmed is open (`OpenInv`).
  `ScansGoForward` and `NoneOutOfReach` say that a pending candidate is promoted
  unless its scan is stopped, as far as it is no question of fairness: each step of a
  worker lowers what it has left, and a pending hit is in its hands or still to be
  listed.
* **ReviewPool_proofs.** `TypeCorrect`, `CandidatesKept` (`CandidateOnLedger`),
  `TwoPasses` (`TwoPassesDecide`). `DecisionInv` says
  that a review about to write a state has two agreeing verdicts, and that a
  candidate out of the queue is past the settling of its review; `RequestInv`
  that whoever is about to write has a row to write.
  `PoolNeverStuck` (`PermitsComeBack`), `QuietAfterReturn` and `ReviewsEnd` are the
  safe half of the pool's draining: the spawner waits only while jobs are queued
  and a review runs that will free a permit (`SpawnerInv`), it returns with none
  running, and each step of a review lowers what it has left to do, given that it
  is in its second pass whenever the first is decided (`PassInv`).
* **Elicitation_proofs.** `TypeCorrect`, `ResponderToldTruth` (`ToldTheTruth`),
  `KeepsPromise` (`PromiseKept`: every step is a step of `ElicitationPromise` or
  a stutter), `ReturnedForgotten` (an entry is gone when its question has
  returned). The invariant: `GuardInv`, who holds an entry's mutex is between
  its claim and its submit, and the other way round; `TargetInv` and
  `HeldInv`, while it is held `tx` is there and the receiver has not been told
  anything, whatever the timer does; `RecordInv` and `OneInv`, what is recorded
  is from the one responder that is past its claim; `ResultInv`, what a question
  returned was in its channel. `NobodyStuck` (`WaitsAreServed`) and `GoOnward`: who
  waits for the mutex, the channel or the stream waits for one that is at work,
  and nobody is sent back a step.
* **AgentManager_proofs.** `TypeCorrect` (with the bound on the cache),
  `BuilderAlone` (`OneBuilder`), `LocksShared` (whoever has a clone has the lock
  in the map), `RepliesReachable` (`ReplyReachable`). `CloneInv` says who has a
  clone and `HolderInv` who is inside a mutex: a prune finds a clone of every
  caller that is at work, so the lock stays. `UncachedInv`: a session somebody
  builds for is not cached, since only its builder would put it there.
  `NoDeadlock` (`WaitsForWorker`) and `GoForward`: whoever holds a creation lock is
  building or storing (`HeldInv`), and no caller is sent back a step.
* **AgentTurn_proofs.** `TypeCorrect`, `ApprovedOnly`, `RunOnce`, `BudgetKept`,
  `SteersSafe`, `OnlyQuestionsLeft`. `EffectInv` ties the effects in memory to where
  the run is, `ReplyInv` says that what is being answered has no answer yet, `AskInv`
  that a question's mark is stored before it, `BatchInv` that what is dispatched was
  allowed (it needs the stable mode), `RunInv` that an effect, the ones that calls let
  go may still have included, is matched by a response, a result in hand or a fault,
  `CallInv` that calls are matched by turns, `HookInv` that the end of a turn leaves
  only what waits for an answer. Over the same invariant `ImplementsCall`
  (`CallsPromise`) maps each step to one of `ToolCall` or a stutter, with `Abroad`,
  the calls that are out or were let go, for its `calls`. `CallsPermitted` follows
  from it; `RepliedOnce` and `AnsweredStays`, two more of its consequences, are proved
  without the stable mode. `RunsEnd` (`EachStepNears`) is the safe half of `RunEnds`:
  every step of the machine ends the run or lowers one lexicographic order: steers,
  attempts left, turns left, open requests, marks to be made, the end of the turn, the
  stage of the step. `StageInv` says what must hold between two stages for it, as that
  a turn is left when the model is called.
* **Scheduler_proofs.** `TypeCorrect`, `JobsFire` (`JobFires`, beside listings too),
  `NothingIsLost` (`NothingLost`). `JobFires` rests on the uuids: those of entries, of
  callers and of a listing's drops are different (`DistinctInv`, `PrivateInv`,
  `OldInv`), so that removing one task never takes another job's; `ReplaceInv`,
  `DropInv` and `PendingInv` say what a request about to remove or to register knows
  of the entry. `NothingLost` adds that a listing alone finds the map as the file was
  (`StoredInv`, `AloneInv`, `FoundInv`, `DroppingInv`). The file has a stored job
  whenever it was written whole (`written`). `FlagsHaveRuns` (`FlagHasRun`) and
  `FileCatchesUp` (`MapReachesFile`) come over the same invariant, as long as no write
  has failed and no request was dropped. Map and file know the same jobs (`KeyInv`),
  and the same of each (`FileInv`), unless a run or a request is on its way to write
  the file, or a dropped `run_now` has left its mark to the next write (`OnItsWay`); a
  listing that runs alone therefore finds nothing to add or drop (`SyncInv`). A set
  flag belongs to a run that has yet to unmark it (`FlagInv`).
* **ScanStop_proofs.** `TypeCorrect`, `NothingSentLate` (`NothingAfterCancel`),
  `OvershootOfOneEach` (`OvershootBounded`). Whoever has passed the check of the
  flag has a `Notified` from before the first `notify_waiters` (`SnapInv`), and a
  cancel that has returned has made one (`CancelNotified`): the next poll ends
  the race. `SpendInv` counts the price of every completion in flight as spent;
  a worker starts one only below the cap, where all of them fit (`RoomForAll`).
  `NoLostWakeUp` (`WakeUpKept`): a race that waits after a cancel is scheduled, or
  the cancel has still to wake it (`WakeInv`). `CancelNearsEnd`
  (`CancelWindsDown`): from then on every step lowers what the race, the cancels or
  the workers have left, and none raises the rest.

Each invariant was checked with TLC before it was proved. A proof has one step
per action and a step below it per conjunct the action can disturb; the last
step of each temporal theorem combines them with PTL.

## 6 What is only model-checked, and what is left out

Only model-checked: the liveness properties (`CancelEndsPool`, `UnpausedPoolEnds`,
`CancelEndsScan`, `QuestionEnds`, `AnswerEnds`, `AgentArrives`, `RunEnds`), since
fairness and ENABLED are out of the prover's reach. Their safe half is proved for
each: nobody waits for one that will not move, and what is left to do falls with every
step of those who move. What TLC adds is that under the fairness of section 3 they do
move. Every safety property of a passing run is a theorem. The type invariants of
ScanLedger, Elicitation, AgentTurn, Scheduler and ScanStop are proved and in no run.

Panics are left out everywhere: a task that panics writes no verdict, which is the
`unrecorded` end of ScanLifecycle without its registration being taken back. Left
out of the modelled components: the `stats` column (`set_phase`,
`merge_stats`), finding events, coverage and handles, which no decision reads;
severities, titles and locations of findings; suppressions (a suppressed hit is
never reported). In the review pool, the unit reviews of a Deep scan and the
turns inside one verdict.

In `AgentTurn`, the operations of the pipeline that add context or change its text
(turn context, compaction of messages and of tool pairs), the commands bang shell,
doctor, project, skill, recipe and the queries of `/goal`, "always allow", tools run
by a frontend, and slash commands in steers. The machine is the one
`GOOSE_STATE_MACHINE` switches on. The ACP server stops polling a run at the first
event after a cancel (`acp/server.rs:1828`), which drops the effects that are left
just as a failing store does: it is a case of `StoreFails`, and counts as a fault. In
`Elicitation`, the channel of a stream has no bound; the code's holds eight questions,
and a ninth would wait for room before its timeout starts. In `AgentManager`, a caller
whose future is dropped in the middle of a build. In `Scheduler`, `schedule_recipe`,
recipe files and sessions, what `execute_job` does, and a second process on the same
file.

Hazards of this code outside the list of `PROJECT.json`, which no property
covers:

* a pause that arrives while the worker leaves another (`scan.rs:122`), and between the two sections of a tick
  (`scheduler.rs:351`);
* a review that began before a person dismissed the finding settles it after
  (`agent.rs:617`), and a leftover candidate is dismissed without the passes in
  its evidence (`agent.rs:631`): no line of the code says otherwise;
* a finding fixed between the stop and the resume of a scan that had seen it
  stays open until the next scan (`store.rs:1622`);
* the stats column and the events of findings are written after, or beside,
  what they tell of (`store.rs:725`, `store.rs:1676`);
* of two workers of one assessment, the first to end marks done a unit the other
  still runs: `finish_work_unit` does not compare `locked_by_run_id`
  (`store.rs:1285`; `lifecycle_second_worker.cfg` shows how there can be two);
* a kill between the mark and the insertion of the token reports success and the
  run goes on (`scheduler.rs:954`, `scheduler_kill.cfg`);
* the entry of a question whose tool call was dropped, and a creation lock in use
  at an eviction, stay in their maps (`action_required_manager.rs:108`,
  `execution/manager.rs:297`);
* the inference goes on while one request of a batch waits for its confirmation
  (`ops_tool_approval.rs:250`);
* a `run_now` whose mark cannot be written leaves the flag (`scheduler.rs:811`; in the
  model, but the scheduler's properties stop at a write that failed), of two adds of
  one id a task stays behind (`scheduler.rs:497`), a job that cannot be loaded is
  erased by the next write (`scheduler.rs:620`), the recipe of a refused duplicate
  overwrites the first (`acp/server/schedule.rs:195`);
* confirmations of dropped or repeated tasks (`tool_confirmation_router.rs:23`) and
  pairing codes consumed at the same time (`gateway/pairing.rs:120`).

Not to be modelled: engine pattern tables, HTTP providers, local inference, text
assembly (prompts, recipes, hints), the user interface, deployment and
documentation; they have no protocol of their own, and what they return is a
free choice wherever a model calls them. They are by far the larger part of the
source.

## 7 Plan

Done: lifecycle and its abstract row, ledger and its abstract findings, review
pool, elicitation and its promise, agent manager, agent state machine with its
tool calls, scheduler, abort handle and budget;
their proofs.

1. **Two workers on the ledger**: ScanLedger with the lifecycle's runs in place
   of one worker per assessment, for `finish_work_unit`, which does not compare
   `locked_by_run_id`.
2. The **older reply loop** with the tool confirmation router.
3. **Pairing store**, the **finding-event chain**, and the **stats** column:
   three small modules of read-modify-write without a lock.
4. The unit reviews of a Deep scan in ReviewPool; the download manager.

Theorems to come: the same for the modules of this list; a refinement for the
scheduler, whose map, file and tasks one abstract table of jobs would do for.
