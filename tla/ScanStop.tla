------------------------------ MODULE ScanStop ------------------------------
(***************************************************************************)
(* How a scan is stopped from outside while it waits for others: a cancel  *)
(* that races the HTTP request in flight (Abort: a flag and a tokio        *)
(* Notify), a pause that its gate and its workers poll, and a spending cap *)
(* that the workers of the AI pool share (ScanBudget).  The scan first     *)
(* makes its requests, one after the other, then runs the pool.            *)
(***************************************************************************)
EXTENDS Integers, FiniteSets

CONSTANTS Canceller,   \* calls of Abort::cancel
          Client,      \* those of request_cancel_flag, the others CancelOnDrop's
          MaxPauses,   \* bound: pauses and resumes
          MaxFetches,  \* bound: requests of the engines before the pool
          Worker,      \* the permits of the pool
          MaxJobs,     \* bound: reviews
          MaxTurns,    \* completions in one pass of the agent loop
          MaxCost,     \* max_cost_usd, in the smallest unit of money
          Price        \* what one completion costs at most

ASSUME StopAssumption ==
    /\ Client \subseteq Canceller
    /\ MaxPauses \in Nat /\ MaxFetches \in Nat /\ MaxJobs \in Nat
    /\ MaxTurns \in Nat \ {0} /\ MaxCost \in Nat \ {0} /\ Price \in Nat
    /\ IsFiniteSet(Worker)

VARIABLES
    flag,       \* Abort::flag
    epoch,      \* calls of notify_waiters so far
    kpc,        \* where each canceller is
    pause,      \* ScanControl::pause
    pauses,
    at,         \* where the scan is, in a poll of the race or outside
    snap,       \* the epoch in which the Notified was created
    listening,  \* the Notified is in the list of waiters
    awake,      \* the task is scheduled to be polled
    request,    \* the request in flight
    late,       \* this poll began after a cancel had returned
    fetches,
    spent,      \* spent_usd
    wpc, pass, turn, jobs
abort == <<flag, epoch, kpc>>
hold == <<pause, pauses>>
race == <<at, snap, listening, awake, request, late, fetches>>
pool == <<spent, wpc, pass, turn, jobs>>
vars == <<abort, hold, race, pool>>
-----------------------------------------------------------------------------
TypeOK ==
    /\ flag \in BOOLEAN
    /\ epoch \in Nat
    /\ kpc \in [Canceller -> {"idle", "stored", "notified", "returned"}]
    /\ pause \in BOOLEAN /\ pauses \in 0..MaxPauses
    /\ at \in {"next", "create", "check", "listen", "ask", "parked",
              "gate", "pool", "over"}
    /\ snap \in Nat
    /\ listening \in BOOLEAN /\ awake \in BOOLEAN /\ late \in BOOLEAN
    /\ request \in {"none", "unsent", "sent", "answered"}
    /\ fetches \in 0..MaxFetches
    /\ spent \in Nat
    /\ wpc \in [Worker -> {"free", "begin", "call", "paid"}]
    /\ pass \in [Worker -> 1..2]
    /\ turn \in [Worker -> 0..MaxTurns]
    /\ jobs \in 0..MaxJobs

Init ==
    /\ flag = FALSE /\ epoch = 0
    /\ kpc = [k \in Canceller |-> "idle"]
    /\ pause = FALSE /\ pauses = 0
    /\ at = "next" /\ snap = 0
    /\ listening = FALSE /\ awake = FALSE /\ late = FALSE
    /\ request = "none" /\ fetches = 0
    /\ spent = 0
    /\ wpc = [w \in Worker |-> "free"]
    /\ pass = [w \in Worker |-> 1] /\ turn = [w \in Worker |-> 0]
    /\ jobs = MaxJobs
-----------------------------------------------------------------------------
(* Cancel and pause: statements on threads of their own *)

\* Clients hold the mutex of the control map.
MapFree == \A k \in Client : kpc[k] \notin {"stored", "notified"}

SetFlag(k) ==
    /\ kpc[k] = "idle"
    /\ k \in Client => MapFree
    /\ flag' = TRUE
    /\ kpc' = [kpc EXCEPT ![k] = "stored"]
    /\ UNCHANGED <<epoch, hold, race, pool>>

\* The end of Abort::cancel.
NotifyWaiters(k) ==
    /\ kpc[k] = "stored"
    /\ epoch' = epoch + 1
    /\ awake' = (awake \/ listening)
    /\ listening' = FALSE
    /\ kpc' = [kpc EXCEPT ![k] = IF k \in Client THEN "notified" ELSE "returned"]
    /\ UNCHANGED <<flag, hold, at, snap, request, late, fetches, pool>>

CancelReturned == \E k \in Canceller : kpc[k] \in {"notified", "returned"}

\* The end of request_cancel_flag.
ClearPause(k) ==
    /\ kpc[k] = "notified"
    /\ pause' = FALSE
    /\ kpc' = [kpc EXCEPT ![k] = "returned"]
    /\ UNCHANGED <<flag, epoch, pauses, race, pool>>

\* set_pause_flag, before or after a cancel.
SetPause ==
    /\ MapFree /\ pauses < MaxPauses
    /\ pause' = ~pause
    /\ pauses' = pauses + 1
    /\ UNCHANGED <<abort, race, pool>>
-----------------------------------------------------------------------------
(* abort::http: a poll of Abort::race asks the abort first, then the request *)

Fetch ==
    /\ at = "next" /\ fetches < MaxFetches
    /\ at' = "create"
    /\ fetches' = fetches + 1
    /\ request' = "unsent"
    /\ late' = CancelReturned
    /\ UNCHANGED <<snap, listening, awake, abort, hold, pool>>

\* Abort::cancelled, the first poll: the Notified is there before the flag is
\* read, and a notify_waiters from then on is not missed.
Create ==
    /\ at = "create"
    /\ at' = "check"
    /\ snap' = epoch
    /\ UNCHANGED <<listening, awake, request, late, fetches, abort, hold, pool>>

\* The future of the request is dropped, its connection with it, and the
\* engine hands Cancelled up to the end of the scan.
Drop == /\ at' = "over"
        /\ request' = "none"
        /\ listening' = FALSE

\* Mutant: the flag is not looked at.
CheckNothing ==
    /\ at = "check"
    /\ at' = "listen" /\ UNCHANGED <<request, listening>>
    /\ UNCHANGED <<snap, awake, late, fetches, abort, hold, pool>>

Check ==
    /\ at = "check"
    /\ \/ flag /\ Drop
       \/ ~flag /\ at' = "listen" /\ UNCHANGED <<request, listening>>
    /\ UNCHANGED <<snap, awake, late, fetches, abort, hold, pool>>

\* Mutant: the Notified is created after the flag was read, when it is awaited.
ListenAfresh ==
    /\ at = "listen"
    /\ \/ snap # epoch /\ request # "unsent" /\ Drop /\ UNCHANGED snap
       \/ /\ snap = epoch \/ request = "unsent"
          /\ at' = "ask" /\ listening' = TRUE /\ snap' = epoch /\ UNCHANGED request
    /\ UNCHANGED <<awake, late, fetches, abort, hold, pool>>

\* The poll of the Notified, which enters the list of waiters.
Listen ==
    /\ at = "listen"
    /\ \/ snap # epoch /\ Drop
       \/ snap = epoch /\ at' = "ask" /\ listening' = TRUE /\ UNCHANGED request
    /\ UNCHANGED <<snap, awake, late, fetches, abort, hold, pool>>

\* The poll of the request, which sends it.  A response or an error ends the
\* race, and the Notified is dropped.
Ask ==
    /\ at = "ask"
    /\ \/ /\ request = "answered"
          /\ at' = "next" /\ request' = "none" /\ listening' = FALSE
       \/ /\ request # "answered"
          /\ at' = "parked" /\ request' = "sent" /\ UNCHANGED listening
    /\ UNCHANGED <<snap, awake, late, fetches, abort, hold, pool>>

\* The server answers, or never does.
Respond ==
    /\ request = "sent"
    /\ request' = "answered"
    /\ awake' = TRUE
    /\ UNCHANGED <<at, snap, listening, late, fetches, abort, hold, pool>>

Wake ==
    /\ at = "parked" /\ awake
    /\ awake' = FALSE
    /\ at' = "listen"
    /\ late' = CancelReturned
    /\ UNCHANGED <<snap, listening, request, fetches, abort, hold, pool>>
-----------------------------------------------------------------------------
(* agent::run: its workers share the budget *)

\* Mutant: the cap itself may still be spent.
OverLate == spent > MaxCost

Over == spent >= MaxCost

\* The gate before the pool.  A paused scan sleeps in it and looks at the
\* abort, the budget and the pause every 50 ms.
ReachGate ==
    /\ at = "next" /\ at' = "gate"
    /\ UNCHANGED <<snap, listening, awake, request, late, fetches, abort, hold, pool>>

Gate ==
    /\ at = "gate"
    /\ \/ (flag \/ Over) /\ at' = "over"
       \/ ~flag /\ ~Over /\ ~pause /\ at' = "pool"
    /\ UNCHANGED <<snap, listening, awake, request, late, fetches, abort, hold, pool>>

Spawn(w) ==
    /\ at = "pool" /\ ~flag /\ jobs > 0 /\ wpc[w] = "free"
    /\ jobs' = jobs - 1
    /\ wpc' = [wpc EXCEPT ![w] = "begin"]
    /\ UNCHANGED <<spent, pass, turn, abort, hold, race>>

\* wait_pause ends.  A job whose scan was cancelled or whose budget is spent is
\* skipped.
BeginJob(w) ==
    /\ wpc[w] = "begin"
    /\ flag \/ ~pause
    /\ wpc' = [wpc EXCEPT ![w] = IF flag \/ Over THEN "free" ELSE "call"]
    /\ pass' = [pass EXCEPT ![w] = 1]
    /\ turn' = [turn EXCEPT ![w] = 0]
    /\ UNCHANGED <<spent, jobs, abort, hold, race>>

\* The completion returns and add_cost adds what it cost, if the provider says.
AddCost(w) ==
    /\ wpc[w] = "call"
    /\ \E p \in 0..Price : spent' = spent + p
    /\ wpc' = [wpc EXCEPT ![w] = "paid"]
    /\ turn' = [turn EXCEPT ![w] = @ + 1]
    /\ UNCHANGED <<pass, jobs, abort, hold, race>>

\* The completion fails.
CallFails(w) ==
    /\ wpc[w] = "call"
    /\ wpc' = [wpc EXCEPT ![w] = "free"]
    /\ UNCHANGED <<spent, pass, turn, jobs, abort, hold, race>>

\* The check in add_cost takes the lock anew.  Within the budget the loop goes
\* on to its next turn, or from the investigator's verdict to the validator's
\* pass.  A job ends over budget, out of turns, decided, with the findings of
\* its unit or when its verdict cannot be written.
CheckCost(w) ==
    /\ wpc[w] = "paid"
    /\ \/ /\ ~Over /\ turn[w] < MaxTurns
          /\ wpc' = [wpc EXCEPT ![w] = "call"]
          /\ UNCHANGED <<pass, turn>>
       \/ /\ ~Over /\ pass[w] = 1
          /\ wpc' = [wpc EXCEPT ![w] = "call"]
          /\ pass' = [pass EXCEPT ![w] = 2]
          /\ turn' = [turn EXCEPT ![w] = 0]
       \/ /\ wpc' = [wpc EXCEPT ![w] = "free"]
          /\ UNCHANGED <<pass, turn>>
    /\ UNCHANGED <<spent, jobs, abort, hold, race>>

JoinAll ==
    /\ at = "pool"
    /\ flag \/ jobs = 0
    /\ \A w \in Worker : wpc[w] = "free"
    /\ at' = "over"
    /\ UNCHANGED <<snap, listening, awake, request, late, fetches, abort, hold, pool>>
-----------------------------------------------------------------------------
Poll == Create \/ Check \/ Listen \/ Ask \/ Wake
Work(w) == BeginJob(w) \/ AddCost(w) \/ CallFails(w) \/ CheckCost(w)

Next ==
    \/ \E k \in Canceller : SetFlag(k) \/ NotifyWaiters(k) \/ ClearPause(k)
    \/ SetPause
    \/ Fetch \/ Poll \/ Respond \/ ReachGate \/ Gate \/ JoinAll
    \/ \E w \in Worker : Spawn(w) \/ Work(w)

Spec == Init /\ [][Next]_vars

\* A thread in cancel finishes it, a task that is scheduled is polled, and a
\* completion ends, with the provider's timeout if need be.  No server need
\* ever answer a request, and nobody need cancel, pause or resume.
FairSpec ==
    /\ Spec
    /\ WF_vars(Poll) /\ WF_vars(Fetch \/ ReachGate) /\ WF_vars(Gate) /\ WF_vars(JoinAll)
    /\ \A k \in Canceller : WF_vars(NotifyWaiters(k))
    /\ \A w \in Worker : WF_vars(Spawn(w)) /\ WF_vars(Work(w))
-----------------------------------------------------------------------------
\* A cancelled scan ends, whatever the server of its request does and whoever
\* pauses it: no wake-up is lost between the creation of the Notified, the read
\* of the flag and the wait (abort.rs:50-56), and a pause is left for the cancel
\* (scan.rs:111, agent.rs:365).
CancelEndsScan == flag ~> at = "over"

\* Once a cancel has returned, no poll of the race sends a request or takes
\* its answer, even one that came before the cancel: the branches of the
\* select are biased (abort.rs:59-65).
NothingAfterCancel == late => at # "ask"

\* The cap is passed by no more than the completions that the workers had in
\* flight when it was reached, one each (budget.rs:51, agent_loop.rs:69).
OvershootBounded == spent < MaxCost + Cardinality(Worker) * Price
=============================================================================
