-------------------------- MODULE ScanStop_proofs --------------------------
(* After a cancel no request is sent, and the cap is passed by what was in *)
(* flight at most, for any cancels, requests, workers, jobs and prices.    *)
EXTENDS ScanStop, FiniteSetTheorems, TLAPS

-----------------------------------------------------------------------------
(* Who waits for the Notified has read the flag before any cancel, and then *)
(* nobody had been notified; so once a cancel has returned, the epoch of    *)
(* its Notified is over.                                                    *)

NoEarlyNotify == ~flag => epoch = 0

CancelNotified == CancelReturned => epoch > 0

StoredFlag == \A k \in Canceller : kpc[k] # "idle" => flag

SnapInv == /\ at = "check" => snap <= epoch
           /\ at \in {"listen", "ask", "parked"} => snap = 0

LateInv == late => CancelReturned /\ at # "ask"

RaceInv == NoEarlyNotify /\ CancelNotified /\ StoredFlag /\ SnapInv /\ LateInv

(* A worker in a completion may still spend the price of it, and has seen   *)
(* the budget not yet spent.                                                *)
InFlight == {w \in Worker : wpc[w] = "call"}

SpendInv ==
    spent + Price * Cardinality(InFlight) < MaxCost + Price * Cardinality(Worker)

TurnInv == \A w \in Worker : wpc[w] = "call" => turn[w] < MaxTurns

IInv == TypeOK /\ RaceInv /\ TurnInv /\ SpendInv

-----------------------------------------------------------------------------
LEMMA Scaled ==
  ASSUME NEW a \in Nat, NEW b \in Nat, a <= b
  PROVE  Price * a <= Price * b
<1>1. PICK d \in Nat : b = a + d
  <2>1. b - a \in Nat /\ b = a + (b - a)
    OBVIOUS
  <2>. QED  BY <2>1
<1>2. Price \in Nat /\ Price * d \in Nat
  BY StopAssumption
<1>3. Price * b = Price * a + Price * d
  BY <1>1, <1>2
<1>4. Price * a \in Nat /\ Price * b \in Nat
  BY <1>2
<1>. QED  BY <1>2, <1>3, <1>4

LEMMA Flying ==
  /\ IsFiniteSet(InFlight)
  /\ Cardinality(InFlight) \in Nat
  /\ Cardinality(Worker) \in Nat
  /\ Cardinality(InFlight) <= Cardinality(Worker)
<1>1. InFlight \subseteq Worker
  BY DEF InFlight
<1>. QED  BY <1>1, StopAssumption, FS_Subset, FS_CardinalityType

\* Within the budget all the workers may be in flight.
LEMMA RoomForAll ==
  ASSUME NEW s \in Nat, s < MaxCost, NEW flying \in SUBSET Worker
  PROVE  s + Price * Cardinality(flying) < MaxCost + Price * Cardinality(Worker)
<1>1. /\ Cardinality(flying) \in Nat /\ Cardinality(Worker) \in Nat
      /\ Cardinality(flying) <= Cardinality(Worker)
  BY StopAssumption, FS_Subset, FS_CardinalityType
<1>2. Price * Cardinality(flying) <= Price * Cardinality(Worker)
  BY <1>1, Scaled
<1>3. /\ Price * Cardinality(flying) \in Nat
      /\ Price * Cardinality(Worker) \in Nat
  BY <1>1, StopAssumption
<1>. QED  BY <1>2, <1>3, StopAssumption

LEMMA InitInv == Init => IInv
<1>. SUFFICES ASSUME Init PROVE IInv
  OBVIOUS
<1>1. TypeOK
  <2>1. jobs \in 0..MaxJobs /\ fetches \in 0..MaxFetches /\ pauses \in 0..MaxPauses
    BY StopAssumption DEF Init
  <2>2. /\ pass \in [Worker -> 1..2]
        /\ turn \in [Worker -> 0..MaxTurns]
    BY StopAssumption DEF Init
  <2>3. /\ kpc \in [Canceller -> {"idle", "stored", "notified", "returned"}]
        /\ wpc \in [Worker -> {"free", "begin", "call", "paid"}]
    BY DEF Init
  <2>. QED  BY <2>1, <2>2, <2>3 DEF Init, TypeOK
<1>2. RaceInv
  BY DEF Init, RaceInv, NoEarlyNotify, CancelNotified, StoredFlag, SnapInv,
         LateInv, CancelReturned
<1>3. TurnInv
  BY DEF Init, TurnInv
<1>4. SpendInv
  BY RoomForAll, StopAssumption DEF Init, SpendInv, InFlight
<1>. QED  BY <1>1, <1>2, <1>3, <1>4 DEF IInv
-----------------------------------------------------------------------------
(* The steps of the cancellers and of the race *)

LEMMA SetFlagInv ==
  ASSUME IInv, NEW k \in Canceller, SetFlag(k)
  PROVE  TypeOK' /\ RaceInv'
<1>. USE DEF IInv, TypeOK, SetFlag, hold, race, pool
<1>1. TypeOK'
  OBVIOUS
<1>2. CancelReturned' <=> CancelReturned
  BY DEF CancelReturned
<1>. QED  BY <1>1, <1>2 DEF RaceInv, NoEarlyNotify, CancelNotified, StoredFlag,
                           SnapInv, LateInv

LEMMA NotifyInv ==
  ASSUME IInv, NEW k \in Canceller, NotifyWaiters(k)
  PROVE  TypeOK' /\ RaceInv'
<1>1. PICK there \in {"notified", "returned"} : kpc' = [kpc EXCEPT ![k] = there]
  BY DEF NotifyWaiters
<1>2. /\ epoch' = epoch + 1 /\ listening' = FALSE
      /\ awake' \in BOOLEAN
      /\ kpc[k] = "stored"
  BY Zenon DEF NotifyWaiters
<1>3. /\ flag' = flag /\ at' = at /\ snap' = snap /\ request' = request
      /\ late' = late /\ fetches' = fetches /\ spent' = spent /\ wpc' = wpc
      /\ pass' = pass /\ turn' = turn /\ jobs' = jobs
      /\ pause' = pause /\ pauses' = pauses
  BY Zenon DEF NotifyWaiters, hold, pool
<1>4. TypeOK'
  <2>1. kpc' \in [Canceller -> {"idle", "stored", "notified", "returned"}]
    BY <1>1 DEF IInv, TypeOK
  <2>2. epoch' \in Nat
    BY <1>2 DEF IInv, TypeOK
  <2>3. listening' \in BOOLEAN
    BY <1>2, Zenon
  <2>. QED  BY <1>2, <1>3, <2>1, <2>2, <2>3, Zenon DEF IInv, TypeOK
<1>. USE DEF IInv, TypeOK
<1>5. CancelReturned'
  BY <1>1 DEF CancelReturned
<1>6. NoEarlyNotify' /\ CancelNotified' /\ StoredFlag'
  BY <1>1, <1>2, <1>3 DEF RaceInv, NoEarlyNotify, CancelNotified, StoredFlag
<1>7. SnapInv' /\ LateInv'
  BY <1>2, <1>3, <1>5 DEF RaceInv, SnapInv, LateInv
<1>. QED  BY <1>4, <1>6, <1>7 DEF RaceInv

\* A pause that is set or cleared, after a cancel too.
LEMMA HoldInv ==
  ASSUME IInv, SetPause \/ \E k \in Canceller : ClearPause(k)
  PROVE  TypeOK' /\ RaceInv'
<1>. USE DEF IInv, TypeOK, race, pool, abort
<1>1. CASE SetPause
  <2>1. pauses' \in 0..MaxPauses /\ pause' \in BOOLEAN
    BY <1>1, StopAssumption DEF SetPause
  <2>. QED  BY <1>1, <2>1 DEF SetPause, RaceInv, NoEarlyNotify, CancelNotified,
               StoredFlag, SnapInv, LateInv, CancelReturned
<1>2. ASSUME NEW k \in Canceller, ClearPause(k)
      PROVE  TypeOK' /\ RaceInv'
  <2>1. TypeOK'
    BY <1>2 DEF ClearPause
  <2>2. CancelReturned' <=> CancelReturned
    BY <1>2 DEF ClearPause, CancelReturned
  <2>. QED  BY <1>2, <2>1, <2>2 DEF ClearPause, RaceInv, NoEarlyNotify,
               CancelNotified, StoredFlag, SnapInv, LateInv
<1>. QED  BY <1>1, <1>2

RaceStep == Fetch \/ Poll \/ Respond \/ ReachGate \/ Gate \/ JoinAll

LEMMA RaceStepInv ==
  ASSUME IInv, RaceStep
  PROVE  TypeOK' /\ RaceInv'
<1>1. UNCHANGED abort /\ (CancelReturned' <=> CancelReturned)
  BY DEF RaceStep, Poll, Fetch, Create, Check, Listen, Ask, Wake, Respond,
         ReachGate, Gate, JoinAll, abort, CancelReturned
<1>2. NoEarlyNotify' /\ CancelNotified' /\ StoredFlag'
  BY <1>1 DEF IInv, RaceInv, NoEarlyNotify, CancelNotified, StoredFlag, abort
<1>. USE DEF IInv, TypeOK, abort, hold, pool
<1>a. CancelReturned \in BOOLEAN
  BY DEF CancelReturned
<1>3. CASE Fetch
  <2>1. TypeOK'
    <3>1. fetches' \in 0..MaxFetches
      BY <1>3, StopAssumption DEF Fetch
    <3>2. late' \in BOOLEAN
      BY <1>a, <1>3 DEF Fetch
    <3>. QED  BY <1>3, <3>1, <3>2 DEF Fetch
  <2>. QED  BY <2>1, <1>1, <1>2, <1>3 DEF Fetch, RaceInv, SnapInv, LateInv
<1>4. CASE Create
  BY <1>1, <1>2, <1>4 DEF Create, RaceInv, SnapInv, LateInv
<1>5. CASE Check
  <2>1. CASE flag /\ Drop
    BY <1>1, <1>2, <1>5, <2>1 DEF Check, Drop, RaceInv, SnapInv, LateInv
  <2>2. CASE ~flag /\ at' = "listen" /\ UNCHANGED <<request, listening>>
    <3>1. snap = 0
      BY <1>5, <2>2 DEF Check, RaceInv, SnapInv, NoEarlyNotify
    <3>2. ~late
      BY <2>2 DEF RaceInv, LateInv, CancelReturned, StoredFlag
    <3>. QED  BY <1>1, <1>2, <1>5, <2>2, <3>1, <3>2 DEF Check, RaceInv, SnapInv, LateInv
  <2>. QED  BY <1>5, <2>1, <2>2 DEF Check
<1>6. CASE Listen
  <2>1. CASE snap # epoch /\ Drop
    BY <1>1, <1>2, <1>6, <2>1 DEF Listen, Drop, RaceInv, SnapInv, LateInv
  <2>2. CASE snap = epoch /\ at' = "ask" /\ listening' = TRUE /\ UNCHANGED request
    <3>1. snap = 0 /\ ~late
      BY <1>6, <2>2 DEF Listen, RaceInv, SnapInv, LateInv, CancelNotified
    <3>. QED  BY <1>1, <1>2, <1>6, <2>2, <3>1 DEF Listen, RaceInv, SnapInv, LateInv
  <2>. QED  BY <1>6, <2>1, <2>2 DEF Listen
<1>7. CASE Ask
  BY <1>1, <1>2, <1>7 DEF Ask, RaceInv, SnapInv, LateInv
<1>8. CASE Respond
  BY <1>1, <1>2, <1>8 DEF Respond, RaceInv, SnapInv, LateInv
<1>9. CASE Wake
  <2>1. late' \in BOOLEAN
    BY <1>a, <1>9 DEF Wake
  <2>. QED  BY <2>1, <1>1, <1>2, <1>9 DEF Wake, RaceInv, SnapInv, LateInv
<1>10. CASE ReachGate \/ Gate
  BY <1>1, <1>2, <1>10 DEF ReachGate, Gate, RaceInv, SnapInv, LateInv
<1>11. CASE JoinAll
  BY <1>1, <1>2, <1>11 DEF JoinAll, RaceInv, SnapInv, LateInv
<1>. QED  BY <1>3, <1>4, <1>5, <1>6, <1>7, <1>8, <1>9, <1>10, <1>11
          DEF RaceStep, Poll

\* None of them touches the pool.
LEMMA PoolKept ==
  ASSUME IInv, UNCHANGED pool
  PROVE  TurnInv' /\ SpendInv'
<1>1. InFlight' = InFlight
  BY DEF pool, InFlight
<1>. QED  BY <1>1 DEF IInv, TurnInv, SpendInv, pool
-----------------------------------------------------------------------------
(* The steps of the workers *)

LEMMA RaceKept ==
  ASSUME IInv, UNCHANGED <<abort, race>>
  PROVE  RaceInv'
BY DEF IInv, RaceInv, NoEarlyNotify, CancelNotified, StoredFlag, SnapInv,
       LateInv, CancelReturned, abort, race

WorkerStep(w) == Spawn(w) \/ BeginJob(w) \/ AddCost(w) \/ CallFails(w) \/ CheckCost(w)

LEMMA WorkerTypes ==
  ASSUME IInv, NEW w \in Worker, WorkerStep(w)
  PROVE  TypeOK' /\ TurnInv' /\ UNCHANGED <<abort, race>>
<1>. USE DEF IInv, TypeOK, TurnInv, abort, hold, race
<1>1. CASE Spawn(w)
  <2>1. jobs' \in 0..MaxJobs
    BY <1>1, StopAssumption DEF Spawn
  <2>. QED  BY <1>1, <2>1 DEF Spawn
<1>2. CASE BeginJob(w)
  BY <1>2, StopAssumption DEF BeginJob
<1>3. CASE AddCost(w)
  <2>1. PICK p \in 0..Price : spent' = spent + p
    BY <1>3 DEF AddCost
  <2>2. spent' \in Nat
    BY <2>1, StopAssumption
  <2>3. turn' \in [Worker -> 0..MaxTurns]
    BY <1>3, StopAssumption DEF AddCost
  <2>. QED  BY <1>3, <2>2, <2>3 DEF AddCost
<1>4. CASE CallFails(w)
  BY <1>4 DEF CallFails
<1>5. CASE CheckCost(w)
  BY <1>5, StopAssumption DEF CheckCost
<1>. QED  BY <1>1, <1>2, <1>3, <1>4, <1>5 DEF WorkerStep

\* A worker that does not begin a completion leaves no more in flight.
LEMMA NoMoreInFlight ==
  ASSUME IInv, UNCHANGED spent, InFlight' \subseteq InFlight
  PROVE  SpendInv'
<1>1. /\ Cardinality(InFlight') \in Nat
      /\ Cardinality(InFlight') <= Cardinality(InFlight)
  BY Flying, FS_Subset, FS_CardinalityType
<1>2. Price * Cardinality(InFlight') <= Price * Cardinality(InFlight)
  BY <1>1, Flying, Scaled
<1>3. /\ Price * Cardinality(InFlight') \in Nat
      /\ Price * Cardinality(InFlight) \in Nat
      /\ Price * Cardinality(Worker) \in Nat
  BY <1>1, Flying, StopAssumption
<1>. QED  BY <1>2, <1>3, StopAssumption DEF IInv, TypeOK, SpendInv

LEMMA WorkerSpends ==
  ASSUME IInv, NEW w \in Worker, WorkerStep(w)
  PROVE  SpendInv'
<1>. wpc \in [Worker -> {"free", "begin", "call", "paid"}] /\ spent \in Nat
  BY DEF IInv, TypeOK
<1>1. CASE Spawn(w) \/ CallFails(w)
  <2>1. InFlight' \subseteq InFlight
    BY <1>1 DEF Spawn, CallFails, InFlight
  <2>. QED  BY <1>1, <2>1, NoMoreInFlight DEF Spawn, CallFails
<1>2. CASE BeginJob(w) \/ CheckCost(w)
  <2>1. CASE spent < MaxCost
    <3>1. spent' = spent
      BY <1>2 DEF BeginJob, CheckCost
    <3>2. InFlight' \subseteq Worker
      BY DEF InFlight
    <3>3. spent' + Price * Cardinality(InFlight') < MaxCost + Price * Cardinality(Worker)
      BY <2>1, <3>1, <3>2, RoomForAll
    <3>. QED  BY <3>3 DEF SpendInv
  <2>2. CASE ~(spent < MaxCost)
    <3>1. Over
      BY <2>2, StopAssumption DEF Over
    <3>2. InFlight' \subseteq InFlight /\ UNCHANGED spent
      BY <1>2, <3>1 DEF BeginJob, CheckCost, InFlight
    <3>. QED  BY <3>2, NoMoreInFlight
  <2>. QED  BY <2>1, <2>2
<1>3. CASE AddCost(w)
  <2>1. PICK p \in 0..Price : spent' = spent + p
    BY <1>3 DEF AddCost
  <2>2. InFlight' = InFlight \ {w} /\ w \in InFlight
    BY <1>3 DEF AddCost, InFlight
  <2>3. Cardinality(InFlight') = Cardinality(InFlight) - 1
    BY <2>2, Flying, FS_RemoveElement
  <2> DEFINE n == Cardinality(InFlight)
  <2>4. n \in Nat /\ n - 1 \in Nat
    BY <2>2, Flying, FS_RemoveElement, FS_CardinalityType, <2>3
  <2>5. Price * (n - 1) + Price = Price * n
    BY <2>4, StopAssumption
  <2>6. /\ Price * n \in Nat /\ Price * (n - 1) \in Nat
        /\ Price * Cardinality(Worker) \in Nat
    BY <2>4, Flying, StopAssumption
  <2>7. spent + Price * n < MaxCost + Price * Cardinality(Worker)
    BY DEF IInv, SpendInv
  <2>8. spent' + Price * (n - 1) < MaxCost + Price * Cardinality(Worker)
    BY <2>1, <2>5, <2>6, <2>7, StopAssumption
  <2>. QED  BY <2>3, <2>8 DEF SpendInv
<1>. QED  BY <1>1, <1>2, <1>3 DEF WorkerStep
-----------------------------------------------------------------------------
LEMMA StepInv == IInv /\ [Next]_vars => IInv'
<1>. SUFFICES ASSUME IInv, [Next]_vars PROVE IInv'
  OBVIOUS
<1>1. ASSUME NEW k \in Canceller, SetFlag(k) \/ NotifyWaiters(k)
      PROVE  IInv'
  <2>1. UNCHANGED pool
    BY <1>1 DEF SetFlag, NotifyWaiters
  <2>. QED  BY <1>1, <2>1, SetFlagInv, NotifyInv, PoolKept DEF IInv
<1>5. CASE SetPause \/ \E k \in Canceller : ClearPause(k)
  <2>1. UNCHANGED pool
    BY <1>5 DEF SetPause, ClearPause
  <2>. QED  BY <1>5, <2>1, HoldInv, PoolKept DEF IInv
<1>2. CASE RaceStep
  <2>1. UNCHANGED pool
    BY <1>2 DEF RaceStep, Poll, Fetch, Create, Check, Listen, Ask, Wake,
                Respond, ReachGate, Gate, JoinAll
  <2>. QED  BY <1>2, <2>1, RaceStepInv, PoolKept DEF IInv
<1>3. ASSUME NEW w \in Worker, WorkerStep(w)
      PROVE  IInv'
  BY <1>3, WorkerTypes, WorkerSpends, RaceKept DEF IInv
<1>4. CASE UNCHANGED vars
  <2>1. UNCHANGED abort /\ UNCHANGED hold /\ UNCHANGED race /\ UNCHANGED pool
    BY <1>4 DEF vars
  <2>2. TypeOK'
    BY <2>1 DEF IInv, TypeOK, abort, hold, race, pool
  <2>. QED  BY <2>1, <2>2, RaceKept, PoolKept DEF IInv
<1>. QED  BY <1>1, <1>2, <1>3, <1>4, <1>5 DEF Next, RaceStep, WorkerStep, Work

LEMMA Inductive == Spec => []IInv
BY InitInv, StepInv, PTL DEF Spec

\* Every variable keeps its type, for any cancellers, workers and bounds.
THEOREM TypeCorrect == Spec => []TypeOK
<1>1. IInv => TypeOK
  BY DEF IInv
<1>. QED  BY <1>1, Inductive, PTL

\* Once a cancel has returned no request is sent and no answer taken
\* (abort.rs, cancelled and race).
THEOREM NothingSentLate == Spec => []NothingAfterCancel
<1>1. IInv => NothingAfterCancel
  BY DEF IInv, RaceInv, LateInv, NothingAfterCancel
<1>. QED  BY <1>1, Inductive, PTL

\* What a scan spends stays below its cap and the price of one completion for
\* each worker (budget.rs, add_cost and check).
THEOREM OvershootOfOneEach == Spec => []OvershootBounded
<1>1. IInv => OvershootBounded
  <2>. SUFFICES ASSUME IInv PROVE OvershootBounded
    OBVIOUS
  <2>1. /\ Price * Cardinality(InFlight) \in Nat
        /\ Price * Cardinality(Worker) \in Nat
        /\ Price * Cardinality(Worker) = Cardinality(Worker) * Price
    BY Flying, StopAssumption
  <2>. QED  BY <2>1, StopAssumption DEF IInv, TypeOK, SpendInv, OvershootBounded
<1>. QED  BY <1>1, Inductive, PTL
-----------------------------------------------------------------------------
(* What is safe in "a cancelled scan ends".  The race that waits has its     *)
(* Notified in the list of waiters, or is scheduled to be polled; and from   *)
(* the cancel on every step of the scan brings its end nearer.               *)

WakeInv ==
    /\ flag /\ epoch = 0 => \E k \in Canceller : kpc[k] = "stored"
    /\ epoch > 0 => ~listening
    /\ at \in {"ask", "parked"} => IF epoch = 0 THEN listening ELSE awake
    /\ request \in {"sent", "answered"} => at \in {"listen", "ask", "parked"}
    /\ at \in {"create", "check", "listen", "ask", "parked"} => request # "none"

LEMMA WakeInit == Init => WakeInv
BY DEF Init, WakeInv

LEMMA WakeStep == IInv /\ WakeInv /\ [Next]_vars => WakeInv'
<1>. SUFFICES ASSUME IInv, WakeInv, [Next]_vars PROVE WakeInv'
  OBVIOUS
<1>. USE DEF WakeInv, IInv, TypeOK
<1>1. ASSUME NEW k \in Canceller, SetFlag(k)
      PROVE  WakeInv'
  <2>1. kpc'[k] = "stored" /\ UNCHANGED race /\ UNCHANGED epoch
    BY <1>1 DEF SetFlag
  <2>. QED  BY <2>1 DEF race
<1>2. ASSUME NEW k \in Canceller, NotifyWaiters(k)
      PROVE  WakeInv'
  <2>1. /\ epoch' = epoch + 1 /\ UNCHANGED at /\ UNCHANGED request
        /\ listening' = FALSE
    BY <1>2 DEF NotifyWaiters
  <2>2. listening \/ awake => awake'
    BY <1>2 DEF NotifyWaiters
  <2>. QED  BY <2>1, <2>2
<1>3. ASSUME NEW k \in Canceller, ClearPause(k)
      PROVE  WakeInv'
  <2>1. \A c \in Canceller : kpc[c] = "stored" => kpc'[c] = "stored"
    BY <1>3 DEF ClearPause
  <2>. QED  BY <1>3, <2>1 DEF ClearPause, race
<1>4. CASE SetPause
  BY <1>4 DEF SetPause, abort, race
<1>5. CASE Fetch \/ Create \/ Respond \/ ReachGate \/ Gate \/ JoinAll
  BY <1>5 DEF Fetch, Create, Respond, ReachGate, Gate, JoinAll, abort
<1>6. CASE Check
  BY <1>6 DEF Check, Drop, abort
<1>7. CASE Listen
  <2>1. snap = 0
    BY <1>7 DEF Listen, RaceInv, SnapInv
  <2>. QED  BY <1>7, <2>1 DEF Listen, Drop, abort
<1>8. CASE Ask \/ Wake
  BY <1>8 DEF Ask, Wake, abort
<1>9. ASSUME NEW w \in Worker, WorkerStep(w)
      PROVE  WakeInv'
  BY <1>9, WorkerTypes DEF abort, race
<1>10. CASE UNCHANGED vars
  BY <1>10 DEF vars, abort, race
<1>. QED  BY <1>1, <1>2, <1>3, <1>4, <1>5, <1>6, <1>7, <1>8, <1>9, <1>10
          DEF Next, Poll, Work, WorkerStep

LEMMA WakeInvariance == Spec => [](IInv /\ WakeInv)
BY WakeInit, WakeStep, Inductive, PTL DEF Spec

\* A race that waits for an answer is woken by every cancel, at whichever
\* point of its poll the cancel came: it is scheduled, or the cancel is still
\* under way (abort.rs, cancelled and cancel).
WakeUpKept ==
    flag /\ at = "parked" => awake \/ \E k \in Canceller : kpc[k] = "stored"

\* No cancel is lost between the race's look at the flag and its going to
\* sleep (abort.rs, cancelled and cancel).
THEOREM NoLostWakeUp == Spec => []WakeUpKept
<1>1. IInv /\ WakeInv => WakeUpKept
  BY DEF WakeInv, WakeUpKept, IInv, TypeOK
<1>. QED  BY <1>1, WakeInvariance, PTL

(* How far the race is from its end: its request, a wake-up that is pending, *)
(* and its place in the poll.                                                *)
Awaited == CASE request = "unsent" -> 12
             [] request = "sent"   -> 6
             [] OTHER              -> 0

Place == CASE at = "listen" -> 2
           [] at = "ask"    -> 1
           [] OTHER         -> 0

Outside == CASE at = "next"             -> 4
             [] at = "create"           -> 3
             [] at = "check"            -> 2
             [] at \in {"gate", "pool"} -> 1
             [] OTHER                   -> 0

Distance ==
    (IF epoch = 0 THEN 4 ELSE 0)
    + IF at \in {"listen", "ask", "parked"}
      THEN 5 + Awaited + (IF awake THEN 3 ELSE 0) + Place
      ELSE Outside

\* The completions a worker may still begin, twice, and its job.
TurnsLeft(w) == IF pass[w] = 1 THEN MaxTurns + MaxTurns - turn[w]
                               ELSE MaxTurns - turn[w]

JobLeft(w) == CASE wpc[w] = "free"  -> 0
                [] wpc[w] = "begin" -> 4 * MaxTurns + 1
                [] wpc[w] = "call"  -> 2 * TurnsLeft(w)
                [] OTHER            -> 2 * TurnsLeft(w) + 1

LEMMA Measures ==
  ASSUME IInv
  PROVE  Distance \in 0..26 /\ \A w \in Worker : JobLeft(w) \in 0..(4 * MaxTurns + 1)
<1>1. Awaited \in {0, 6, 12} /\ Place \in 0..2 /\ Outside \in 0..4
  BY DEF Awaited, Place, Outside
<1>2. Distance \in 0..26
  BY <1>1 DEF Distance
<1>3. ASSUME NEW w \in Worker
      PROVE  JobLeft(w) \in 0..(4 * MaxTurns + 1)
  <2>1. TurnsLeft(w) \in 0..(2 * MaxTurns)
    BY StopAssumption DEF IInv, TypeOK, TurnsLeft
  <2>. QED  BY <2>1, StopAssumption DEF JobLeft
<1>. QED  BY <1>2, <1>3

\* The steps of the race.
LEMMA RaceNears ==
  ASSUME IInv, WakeInv, flag, RaceStep
  PROVE  /\ UNCHANGED pool
         /\ Distance' < Distance
<1>. USE DEF IInv, TypeOK, abort
<1>1. UNCHANGED pool /\ UNCHANGED epoch
  BY DEF RaceStep, Poll, Fetch, Create, Check, Listen, Ask, Wake, Respond,
         ReachGate, Gate, JoinAll
<1>2. ASSUME at \in {"next", "create", "check", "gate", "pool"},
             at' \in {"create", "check", "gate", "over"},
             Outside' < Outside
      PROVE  Distance' < Distance
  BY <1>1, <1>2 DEF Distance, Outside
<1>7. CASE Fetch
  BY <1>2, <1>7 DEF Fetch, Outside
<1>10. CASE Create
  BY <1>2, <1>10 DEF Create, Outside
<1>11. CASE ReachGate
  BY <1>2, <1>11 DEF ReachGate, Outside
<1>8. CASE Check
  BY <1>2, <1>8 DEF Check, Drop, Outside
<1>9. CASE Gate
  BY <1>2, <1>9 DEF Gate, Outside
<1>12. CASE JoinAll
  BY <1>2, <1>12 DEF JoinAll, Outside
<1>3. CASE Listen
  BY <1>1, <1>3 DEF Listen, Drop, Distance, Outside, Awaited, Place
<1>4. CASE Ask
  <2>1. CASE request = "answered"
    BY <1>1, <1>4, <2>1 DEF Ask, Distance, Outside, Awaited, Place
  <2>2. CASE request # "answered"
    <3>1. /\ at = "ask" /\ at' = "parked" /\ request' = "sent" /\ UNCHANGED awake
          /\ request \in {"sent", "unsent"}
      BY <1>4, <2>2 DEF Ask, WakeInv
    <3>2. Awaited' = 6 /\ Awaited \in {6, 12} /\ Place = 1 /\ Place' = 0
      BY <3>1 DEF Awaited, Place
    <3> DEFINE rest == (IF epoch = 0 THEN 4 ELSE 0) + (IF awake THEN 3 ELSE 0)
    <3>3. rest \in 0..7 /\ rest' = rest
      BY <1>1, <3>1
    <3>4. /\ Distance = rest + 5 + Awaited + Place
          /\ Distance' = rest' + 5 + Awaited' + Place'
      BY <3>1, <3>2 DEF Distance
    <3>. HIDE DEF rest
    <3>5. Distance' = rest + 11
      BY <3>2, <3>3, <3>4
    <3>6. Distance \in {rest + 12, rest + 18}
      BY <3>2, <3>3, <3>4
    <3>. QED  BY <1>1, <3>3, <3>5, <3>6
  <2>. QED  BY <2>1, <2>2
<1>5. CASE Wake
  BY <1>1, <1>5 DEF Wake, Distance, Awaited, Place
<1>6. CASE Respond
  <2>1. /\ at \in {"listen", "ask", "parked"} /\ UNCHANGED at
        /\ awake' = TRUE /\ request = "sent" /\ request' = "answered"
    BY <1>6 DEF Respond, WakeInv
  <2>2. Awaited = 6 /\ Awaited' = 0 /\ Place' = Place /\ Place \in 0..2
    BY <2>1 DEF Awaited, Place
  <2>. QED  BY <1>1, <2>1, <2>2 DEF Distance
<1>. QED  BY <1>1, <1>3, <1>4, <1>5, <1>6, <1>7, <1>8, <1>9,
          <1>10, <1>11, <1>12 DEF RaceStep, Poll

\* A notification counts once.
LEMMA CancelNears ==
  ASSUME IInv, WakeInv, flag, NEW k \in Canceller,
         SetFlag(k) \/ NotifyWaiters(k) \/ ClearPause(k)
  PROVE  /\ UNCHANGED pool
         /\ Distance' <= Distance
<1>. USE DEF IInv, TypeOK
<1>1. CASE SetFlag(k) \/ ClearPause(k)
  <2>1. UNCHANGED race /\ UNCHANGED pool /\ UNCHANGED epoch
    BY <1>1 DEF SetFlag, ClearPause, abort
  <2>2. Distance' = Distance
    BY <2>1 DEF race, Distance, Outside, Awaited, Place
  <2>. QED  BY <2>1, <2>2, Measures
<1>2. CASE NotifyWaiters(k)
  <2>1. UNCHANGED pool /\ UNCHANGED at /\ UNCHANGED request /\ epoch' = epoch + 1
    BY <1>2 DEF NotifyWaiters
  <2>2. Awaited' = Awaited /\ Place' = Place /\ Outside' = Outside
    BY <2>1 DEF Awaited, Place, Outside
  <2>3. epoch > 0 => awake' = awake
    BY <1>2 DEF NotifyWaiters, WakeInv
  <2>4. Awaited \in {0, 6, 12} /\ Place \in 0..2 /\ Outside \in 0..4
    BY DEF Awaited, Place, Outside
  <2> DEFINE there == at \in {"listen", "ask", "parked"}
             base == IF there THEN 5 + Awaited + Place ELSE Outside
             woken == IF there /\ awake THEN 3 ELSE 0
             unset == IF epoch = 0 THEN 4 ELSE 0
  <2>5. base \in Nat /\ base' = base
    BY <2>1, <2>2, <2>4
  <2>6. Distance = unset + base + woken /\ Distance' = unset' + base' + woken'
    BY <2>4, <2>2 DEF Distance
  <2>7. /\ woken \in {0, 3} /\ woken' \in {0, 3}
        /\ epoch > 0 => unset = 0 /\ woken' = woken
        /\ epoch = 0 => unset = 4
        /\ unset' = 0
    BY <2>1, <2>3
  <2>. HIDE DEF base, woken, unset
  <2>. QED  BY <2>1, <2>5, <2>6, <2>7
<1>. QED  BY <1>1, <1>2

\* Once cancelled, no job begins, and those that run end.
LEMMA WorkNears ==
  ASSUME IInv, flag, NEW w \in Worker, WorkerStep(w)
  PROVE  /\ Distance' = Distance
         /\ JobLeft(w)' < JobLeft(w)
         /\ \A v \in Worker \ {w} : JobLeft(v)' = JobLeft(v)
<1>. USE DEF IInv, TypeOK
<1>1. UNCHANGED race /\ UNCHANGED epoch
  BY WorkerTypes DEF abort
<1>2. Distance' = Distance
  BY <1>1 DEF race, Distance, Outside, Awaited, Place
<1>3. ASSUME NEW v \in Worker \ {w}
      PROVE  JobLeft(v)' = JobLeft(v)
  <2>1. wpc'[v] = wpc[v] /\ pass'[v] = pass[v] /\ turn'[v] = turn[v]
    BY DEF WorkerStep, Spawn, BeginJob, AddCost, CallFails, CheckCost
  <2>. QED  BY <2>1 DEF JobLeft, TurnsLeft
<1>4. JobLeft(w)' < JobLeft(w)
  <2>a. TurnsLeft(w) \in 0..(2 * MaxTurns)
    BY StopAssumption DEF TurnsLeft
  <2>1. CASE BeginJob(w)
    <3>1. /\ wpc[w] = "begin" /\ wpc'[w] \in {"free", "call"}
          /\ pass'[w] = 1 /\ turn'[w] = 0
      BY <2>1 DEF BeginJob
    <3>2. TurnsLeft(w)' = 2 * MaxTurns
      BY <3>1, StopAssumption DEF TurnsLeft
    <3>. QED  BY <3>1, <3>2, StopAssumption DEF JobLeft
  <2>2. CASE AddCost(w)
    <3>1. /\ wpc[w] = "call" /\ wpc'[w] = "paid"
          /\ turn'[w] = turn[w] + 1 /\ pass'[w] = pass[w]
      BY <2>2 DEF AddCost
    <3>2. TurnsLeft(w)' = TurnsLeft(w) - 1
      BY <3>1, StopAssumption DEF TurnsLeft
    <3>. QED  BY <2>a, <3>1, <3>2, StopAssumption DEF JobLeft
  <2>3. CASE CallFails(w)
    <3>1. wpc[w] = "call" /\ wpc'[w] = "free"
      BY <2>3 DEF CallFails
    <3>2. TurnsLeft(w) > 0
      BY <3>1, StopAssumption DEF TurnInv, TurnsLeft
    <3>. QED  BY <2>a, <3>1, <3>2 DEF JobLeft
  <2>4. CASE CheckCost(w)
    <3>1. wpc[w] = "paid"
      BY <2>4 DEF CheckCost
    <3>2. CASE wpc'[w] = "free"
      BY <2>a, <3>1, <3>2 DEF JobLeft
    <3>3. CASE wpc'[w] = "call" /\ UNCHANGED <<pass, turn>>
      <4>1. TurnsLeft(w)' = TurnsLeft(w)
        BY <3>3 DEF TurnsLeft
      <4>. QED  BY <2>a, <3>1, <3>3, <4>1 DEF JobLeft
    <3>4. CASE wpc'[w] = "call" /\ pass[w] = 1 /\ pass'[w] = 2 /\ turn'[w] = 0
      <4>1. TurnsLeft(w)' = MaxTurns /\ TurnsLeft(w) >= MaxTurns
        BY <3>4, StopAssumption DEF TurnsLeft
      <4>. QED  BY <2>a, <3>1, <3>4, <4>1, StopAssumption DEF JobLeft
    <3>. QED  BY <2>4, <3>2, <3>3, <3>4 DEF CheckCost
  <2>. QED  BY <2>1, <2>2, <2>3, <2>4 DEF WorkerStep, Spawn
<1>. QED  BY <1>2, <1>3, <1>4

\* From a cancel on, every step of the scan, of its request and of its workers
\* brings the end nearer, and nothing else takes it further away: neither
\* cancels nor pauses, nor an answer that comes late (abort.rs, scan.rs,
\* agent.rs).
Nearer == /\ Distance' <= Distance
          /\ \A w \in Worker : JobLeft(w)' <= JobLeft(w)
          /\ \/ UNCHANGED <<at, request, wpc, pass, turn, jobs, spent>>
             \/ Distance' < Distance
             \/ \E w \in Worker : JobLeft(w)' < JobLeft(w)

CancelWindsDown == [][flag => Nearer]_vars

LEMMA PoolStays ==
  ASSUME UNCHANGED pool
  PROVE  \A w \in Worker : JobLeft(w)' = JobLeft(w)
BY DEF pool, JobLeft, TurnsLeft

Measured == Distance \in Nat /\ \A w \in Worker : JobLeft(w) \in Nat

LEMMA MeasuresNat == IInv => Measured
BY Measures DEF Measured

LEMMA NearerStep ==
  ASSUME IInv, WakeInv, [Next]_vars, flag
  PROVE  Nearer
<1>. Distance \in Nat /\ \A w \in Worker : JobLeft(w) \in Nat
  BY Measures
<1>. Distance' \in Nat /\ \A w \in Worker : JobLeft(w)' \in Nat
  <2>1. Measured'
    BY MeasuresNat, StepInv, PTL
  <2>. QED  BY <2>1 DEF Measured
<1>1. CASE RaceStep
  BY <1>1, RaceNears, PoolStays DEF Nearer
<1>2. ASSUME NEW k \in Canceller, SetFlag(k) \/ NotifyWaiters(k) \/ ClearPause(k)
      PROVE  Nearer
  <2>1. UNCHANGED <<at, request>>
    BY <1>2 DEF SetFlag, NotifyWaiters, ClearPause, race
  <2>2. UNCHANGED pool /\ Distance' <= Distance
    BY <1>2, CancelNears
  <2>. QED  BY <2>1, <2>2, PoolStays DEF Nearer, pool
<1>3. CASE SetPause \/ UNCHANGED vars
  <2>1. UNCHANGED race /\ UNCHANGED abort /\ UNCHANGED pool
    BY <1>3 DEF SetPause, vars
  <2>2. Distance' = Distance
    BY <2>1 DEF race, abort, Distance, Outside, Awaited, Place
  <2>. QED  BY <2>1, <2>2, PoolStays DEF Nearer, race, pool
<1>4. ASSUME NEW w \in Worker, WorkerStep(w)
      PROVE  Nearer
  BY <1>4, WorkNears DEF Nearer
<1>. QED  BY <1>1, <1>2, <1>3, <1>4 DEF Next, RaceStep, WorkerStep, Work

\* After a cancel every step of the scan brings its end nearer, so it ends
\* after a bounded number of them (abort.rs; pool.rs, run).
THEOREM CancelNearsEnd == Spec => CancelWindsDown
<1>1. IInv /\ WakeInv /\ [Next]_vars => [flag => Nearer]_vars
  BY NearerStep
<1>. QED  BY <1>1, WakeInvariance, PTL DEF Spec, CancelWindsDown
=============================================================================
