------------------------- MODULE AgentManager_proofs -------------------------
(* Type correctness, one builder per session, the agreement of the locks and *)
(* the reach of interrupts, for any number of sessions, callers and removers *)
(* and any capacity.                                                         *)
EXTENDS AgentManager, FiniteSetTheorems, TLAPS

-----------------------------------------------------------------------------
(* The inductive invariant.  A creation lock is pruned only while nobody has *)
(* a clone, so the callers at work on one session share one mutex, and the   *)
(* mutex lets one of them past the second look into the cache.               *)

Locked == {"recheck", "build", "push", "evicted"}

\* A clone is held from the look into the map to the return.
CloneInv == \A c \in Caller : arc[c] # None <=> pc[c] \in Locked \cup {"wait"}

\* Whoever is past the mutex is the one in it.
HolderInv == \A c \in Caller : pc[c] \in Locked => holder[arc[c]] = c

\* The second look stays true while the agent is built.
UncachedInv == \A c \in Caller : pc[c] \in {"build", "push"} => Wants[c] \notin cache

VictimInv == \A c \in Caller : pc[c] = "evicted" => victim[c] \in Session

IInv == /\ TypeOK /\ CloneInv /\ LocksAgree /\ HolderInv
        /\ UncachedInv /\ VictimInv /\ ReplyReachable

-----------------------------------------------------------------------------
(* The cache stays within its capacity. *)

LEMMA PushBound ==
  ASSUME NEW S, IsFiniteSet(S), Cardinality(S) <= Capacity,
         Cardinality(S) # Capacity, NEW x
  PROVE  IsFiniteSet(S \cup {x}) /\ Cardinality(S \cup {x}) <= Capacity
<1>1. Cardinality(S) \in Nat
  BY FS_CardinalityType
<1>2. IsFiniteSet(S \cup {x}) /\ Cardinality(S \cup {x}) \in {Cardinality(S), Cardinality(S) + 1}
  BY FS_AddElement
<1>. QED  BY <1>1, <1>2, CapacityAssumption

LEMMA ReplaceBound ==
  ASSUME NEW S, IsFiniteSet(S), Cardinality(S) <= Capacity, NEW v \in S, NEW x
  PROVE  /\ IsFiniteSet((S \ {v}) \cup {x})
         /\ Cardinality((S \ {v}) \cup {x}) <= Capacity
<1>1. Cardinality(S) \in Nat
  BY FS_CardinalityType
<1>2. IsFiniteSet(S \ {v}) /\ Cardinality(S \ {v}) = Cardinality(S) - 1
  BY FS_RemoveElement
<1>3. Cardinality(S \ {v}) <= Capacity /\ Cardinality(S \ {v}) # Capacity
  BY <1>1, <1>2, CapacityAssumption
<1>. QED  BY <1>2, <1>3, PushBound

LEMMA PopBound ==
  ASSUME NEW S, IsFiniteSet(S), Cardinality(S) <= Capacity, NEW x
  PROVE  IsFiniteSet(S \ {x}) /\ Cardinality(S \ {x}) <= Capacity
<1>1. Cardinality(S) \in Nat
  BY FS_CardinalityType
<1>2. IsFiniteSet(S \ {x}) /\ Cardinality(S \ {x}) \in {Cardinality(S), Cardinality(S) - 1}
  BY FS_RemoveElement, FS_CardinalityType
<1>. QED  BY <1>1, <1>2, CapacityAssumption

-----------------------------------------------------------------------------
LEMMA InitInv == Init => IInv
<1>1. IsFiniteSet({}) /\ Cardinality({}) = 0
  BY FS_EmptySet
<1>. QED
  BY <1>1, NoneAssumption, WantsAssumption, CapacityAssumption
  DEF Init, IInv, TypeOK, PC, CloneInv, LocksAgree, HolderInv, UncachedInv,
      VictimInv, ReplyReachable, Locked

LEMMA FastPathKeeps ==
  ASSUME IInv, NEW c \in Caller, FastPath(c)
  PROVE  IInv'
<1>. USE NoneAssumption, WantsAssumption DEF FastPath, Goto, cacheVars, tokenVars, IInv
<1>1. TypeOK'
  BY DEF TypeOK, PC, CloneInv, Locked, VictimInv
<1>2. CloneInv'
  BY DEF TypeOK, CloneInv, Locked
<1>3. LocksAgree'
  BY DEF TypeOK, LocksAgree, CloneInv, Locked, InUse
<1>4. HolderInv'
  BY DEF TypeOK, HolderInv, CloneInv, LocksAgree, Locked
<1>5. UncachedInv'
  BY DEF TypeOK, UncachedInv, HolderInv, CloneInv, LocksAgree, Locked
<1>6. VictimInv'
  BY DEF TypeOK, VictimInv
<1>7. ReplyReachable'
  BY DEF TypeOK, ReplyReachable
<1>. QED  BY <1>1, <1>2, <1>3, <1>4, <1>5, <1>6, <1>7

LEMMA CloneLockKeeps ==
  ASSUME IInv, NEW c \in Caller, CloneLock(c)
  PROVE  IInv'
<1>. USE NoneAssumption, WantsAssumption DEF CloneLock, Goto, cacheVars, tokenVars, IInv
<1>1. TypeOK'
  BY DEF TypeOK, PC, CloneInv, Locked, VictimInv
<1>2. CloneInv'
  BY DEF TypeOK, CloneInv, Locked
<1>3. LocksAgree'
  BY DEF TypeOK, LocksAgree, CloneInv, Locked, InUse
<1>4. HolderInv'
  BY DEF TypeOK, HolderInv, CloneInv, LocksAgree, Locked
<1>5. UncachedInv'
  BY DEF TypeOK, UncachedInv, HolderInv, CloneInv, LocksAgree, Locked
<1>6. VictimInv'
  BY DEF TypeOK, VictimInv
<1>7. ReplyReachable'
  BY DEF TypeOK, ReplyReachable
<1>. QED  BY <1>1, <1>2, <1>3, <1>4, <1>5, <1>6, <1>7

LEMMA AcquireKeeps ==
  ASSUME IInv, NEW c \in Caller, Acquire(c)
  PROVE  IInv'
<1>. USE NoneAssumption, WantsAssumption DEF Acquire, Goto, cacheVars, tokenVars, IInv
<1>1. TypeOK'
  BY DEF TypeOK, PC, CloneInv, Locked, VictimInv
<1>2. CloneInv'
  BY DEF TypeOK, CloneInv, Locked
<1>3. LocksAgree'
  BY DEF TypeOK, LocksAgree, CloneInv, Locked, InUse
<1>4. HolderInv'
  BY DEF TypeOK, HolderInv, CloneInv, LocksAgree, Locked
<1>5. UncachedInv'
  BY DEF TypeOK, UncachedInv, HolderInv, CloneInv, LocksAgree, Locked
<1>6. VictimInv'
  BY DEF TypeOK, VictimInv
<1>7. ReplyReachable'
  BY DEF TypeOK, ReplyReachable
<1>. QED  BY <1>1, <1>2, <1>3, <1>4, <1>5, <1>6, <1>7

LEMMA RecheckKeeps ==
  ASSUME IInv, NEW c \in Caller, Recheck(c)
  PROVE  IInv'
<1>. USE NoneAssumption, WantsAssumption DEF Recheck, ReleaseLock, Goto, cacheVars, tokenVars, IInv
<1>1. TypeOK'
  BY DEF TypeOK, PC, CloneInv, Locked, VictimInv
<1>2. CloneInv'
  BY DEF TypeOK, CloneInv, Locked
<1>3. LocksAgree'
  BY DEF TypeOK, LocksAgree, CloneInv, Locked, InUse
<1>4. HolderInv'
  BY DEF TypeOK, HolderInv, CloneInv, LocksAgree, Locked
<1>5. UncachedInv'
  BY DEF TypeOK, UncachedInv, HolderInv, CloneInv, LocksAgree, Locked
<1>6. VictimInv'
  BY DEF TypeOK, VictimInv
<1>7. ReplyReachable'
  BY DEF TypeOK, ReplyReachable
<1>. QED  BY <1>1, <1>2, <1>3, <1>4, <1>5, <1>6, <1>7

LEMMA BuildKeeps ==
  ASSUME IInv, NEW c \in Caller, Build(c)
  PROVE  IInv'
<1>. USE NoneAssumption, WantsAssumption DEF Build, ReleaseLock, Goto, cacheVars, tokenVars, IInv
<1>1. TypeOK'
  BY DEF TypeOK, PC, CloneInv, Locked, VictimInv
<1>2. CloneInv'
  BY DEF TypeOK, CloneInv, Locked
<1>3. LocksAgree'
  BY DEF TypeOK, LocksAgree, CloneInv, Locked, InUse
<1>4. HolderInv'
  BY DEF TypeOK, HolderInv, CloneInv, LocksAgree, Locked
<1>5. UncachedInv'
  BY DEF TypeOK, UncachedInv, HolderInv, CloneInv, LocksAgree, Locked
<1>6. VictimInv'
  BY DEF TypeOK, VictimInv
<1>7. ReplyReachable'
  BY DEF TypeOK, ReplyReachable
<1>. QED  BY <1>1, <1>2, <1>3, <1>4, <1>5, <1>6, <1>7

LEMMA PushKeeps ==
  ASSUME IInv, NEW c \in Caller, Push(c)
  PROVE  IInv'
<1>. USE NoneAssumption, WantsAssumption DEF Push, ReleaseLock, Full, Goto, cacheVars, tokenVars, IInv
<1>1. TypeOK'
  <2>1. IsFiniteSet(cache') /\ Cardinality(cache') <= Capacity
    <3>1. CASE Wants[c] \in cache
      <4>1. cache' = cache
        BY <3>1
      <4>. QED  BY <4>1 DEF TypeOK
    <3>2. CASE Wants[c] \notin cache /\ ~Full
      <4>1. cache' = cache \cup {Wants[c]}
        BY <3>2
      <4>2. Cardinality(cache) # Capacity
        BY <3>2
      <4>. QED  BY <4>1, <4>2, PushBound DEF TypeOK
    <3>3. CASE Wants[c] \notin cache /\ Full
      <4>1. PICK v \in cache : cache' = (cache \ {v}) \cup {Wants[c]}
        BY <3>3
      <4>. QED  BY <4>1, ReplaceBound DEF TypeOK
    <3>. QED  BY <3>1, <3>2, <3>3
  <2>2. cache' \subseteq Session
    BY DEF TypeOK
  <2>3. arc' \in [Caller -> Caller \cup {None}] /\ holder' \in [Caller -> Caller \cup {None}]
    BY DEF TypeOK, CloneInv, Locked
  <2>4. victim' \in [Caller -> Session \cup {None}]
    BY DEF TypeOK
  <2>5. pc' \in [Caller -> PC]
    BY DEF TypeOK, PC
  <2>. QED  BY <2>1, <2>2, <2>3, <2>4, <2>5 DEF TypeOK
<1>2. CloneInv'
  BY DEF TypeOK, CloneInv, Locked
<1>3. LocksAgree'
  BY DEF TypeOK, LocksAgree, CloneInv, Locked, InUse
<1>4. HolderInv'
  BY DEF TypeOK, HolderInv, CloneInv, LocksAgree, Locked
<1>5. UncachedInv'
  BY DEF TypeOK, UncachedInv, HolderInv, CloneInv, LocksAgree, Locked
<1>6. VictimInv'
  BY DEF TypeOK, VictimInv
<1>7. ReplyReachable'
  BY DEF TypeOK, ReplyReachable
<1>. QED  BY <1>1, <1>2, <1>3, <1>4, <1>5, <1>6, <1>7

LEMMA PruneEvictedKeeps ==
  ASSUME IInv, NEW c \in Caller, PruneEvicted(c)
  PROVE  IInv'
<1>. USE NoneAssumption, WantsAssumption DEF PruneEvicted, Prune, ReleaseLock, Goto, cacheVars, tokenVars, IInv
<1>1. TypeOK'
  BY DEF TypeOK, PC, CloneInv, Locked, VictimInv
<1>2. CloneInv'
  BY DEF TypeOK, CloneInv, Locked
<1>3. LocksAgree'
  BY DEF TypeOK, LocksAgree, CloneInv, Locked, InUse
<1>4. HolderInv'
  BY DEF TypeOK, HolderInv, CloneInv, LocksAgree, Locked
<1>5. UncachedInv'
  BY DEF TypeOK, UncachedInv, HolderInv, CloneInv, LocksAgree, Locked
<1>6. VictimInv'
  BY DEF TypeOK, VictimInv
<1>7. ReplyReachable'
  BY DEF TypeOK, ReplyReachable
<1>. QED  BY <1>1, <1>2, <1>3, <1>4, <1>5, <1>6, <1>7

LEMMA PruneFailedKeeps ==
  ASSUME IInv, NEW c \in Caller, PruneFailed(c)
  PROVE  IInv'
<1>. USE NoneAssumption, WantsAssumption DEF PruneFailed, Prune, Goto, cacheVars, tokenVars, IInv
<1>1. TypeOK'
  BY DEF TypeOK, PC, CloneInv, Locked, VictimInv
<1>2. CloneInv'
  BY DEF TypeOK, CloneInv, Locked
<1>3. LocksAgree'
  BY DEF TypeOK, LocksAgree, CloneInv, Locked, InUse
<1>4. HolderInv'
  BY DEF TypeOK, HolderInv, CloneInv, LocksAgree, Locked
<1>5. UncachedInv'
  BY DEF TypeOK, UncachedInv, HolderInv, CloneInv, LocksAgree, Locked
<1>6. VictimInv'
  BY DEF TypeOK, VictimInv
<1>7. ReplyReachable'
  BY DEF TypeOK, ReplyReachable
<1>. QED  BY <1>1, <1>2, <1>3, <1>4, <1>5, <1>6, <1>7

LEMMA RegisterKeeps ==
  ASSUME IInv, NEW c \in Caller, Register(c)
  PROVE  IInv'
<1>. USE NoneAssumption, WantsAssumption DEF Register, Goto, cacheVars, tokenVars, IInv
<1>1. TypeOK'
  BY DEF TypeOK, PC, CloneInv, Locked, VictimInv
<1>2. CloneInv'
  BY DEF TypeOK, CloneInv, Locked
<1>3. LocksAgree'
  BY DEF TypeOK, LocksAgree, CloneInv, Locked, InUse
<1>4. HolderInv'
  BY DEF TypeOK, HolderInv, CloneInv, LocksAgree, Locked
<1>5. UncachedInv'
  BY DEF TypeOK, UncachedInv, HolderInv, CloneInv, LocksAgree, Locked
<1>6. VictimInv'
  BY DEF TypeOK, VictimInv
<1>7. ReplyReachable'
  BY DEF TypeOK, ReplyReachable
<1>. QED  BY <1>1, <1>2, <1>3, <1>4, <1>5, <1>6, <1>7

LEMMA EndReplyKeeps ==
  ASSUME IInv, NEW c \in Caller, EndReply(c)
  PROVE  IInv'
<1>. USE NoneAssumption, WantsAssumption DEF EndReply, Goto, cacheVars, tokenVars, IInv
<1>1. TypeOK'
  BY DEF TypeOK, PC, CloneInv, Locked, VictimInv
<1>2. CloneInv'
  BY DEF TypeOK, CloneInv, Locked
<1>3. LocksAgree'
  BY DEF TypeOK, LocksAgree, CloneInv, Locked, InUse
<1>4. HolderInv'
  BY DEF TypeOK, HolderInv, CloneInv, LocksAgree, Locked
<1>5. UncachedInv'
  BY DEF TypeOK, UncachedInv, HolderInv, CloneInv, LocksAgree, Locked
<1>6. VictimInv'
  BY DEF TypeOK, VictimInv
<1>7. ReplyReachable'
  BY DEF TypeOK, ReplyReachable
<1>. QED  BY <1>1, <1>2, <1>3, <1>4, <1>5, <1>6, <1>7

LEMMA RemoveTokenKeeps ==
  ASSUME IInv, NEW m \in Remover, RemoveToken(m)
  PROVE  IInv'
<1>. USE NoneAssumption, WantsAssumption DEF RemoveToken, Goto, cacheVars, tokenVars, IInv
<1>1. TypeOK'
  BY DEF TypeOK, PC, CloneInv, Locked, VictimInv
<1>2. CloneInv'
  BY DEF TypeOK, CloneInv, Locked
<1>3. LocksAgree'
  BY DEF TypeOK, LocksAgree, CloneInv, Locked, InUse
<1>4. HolderInv'
  BY DEF TypeOK, HolderInv, CloneInv, LocksAgree, Locked
<1>5. UncachedInv'
  BY DEF TypeOK, UncachedInv, HolderInv, CloneInv, LocksAgree, Locked
<1>6. VictimInv'
  BY DEF TypeOK, VictimInv
<1>7. ReplyReachable'
  BY DEF TypeOK, ReplyReachable
<1>. QED  BY <1>1, <1>2, <1>3, <1>4, <1>5, <1>6, <1>7

LEMMA PopKeeps ==
  ASSUME IInv, NEW m \in Remover, Pop(m)
  PROVE  IInv'
<1>. USE NoneAssumption, WantsAssumption DEF Pop, Goto, cacheVars, tokenVars, IInv
<1>1. TypeOK'
  <2>1. IsFiniteSet(cache') /\ Cardinality(cache') <= Capacity
    BY PopBound DEF TypeOK
  <2>. QED  BY <2>1 DEF TypeOK, PC
<1>2. CloneInv'
  BY DEF TypeOK, CloneInv, Locked
<1>3. LocksAgree'
  BY DEF TypeOK, LocksAgree, CloneInv, Locked, InUse
<1>4. HolderInv'
  BY DEF TypeOK, HolderInv, CloneInv, LocksAgree, Locked
<1>5. UncachedInv'
  BY DEF TypeOK, UncachedInv, HolderInv, CloneInv, LocksAgree, Locked
<1>6. VictimInv'
  BY DEF TypeOK, VictimInv
<1>7. ReplyReachable'
  BY DEF TypeOK, ReplyReachable
<1>. QED  BY <1>1, <1>2, <1>3, <1>4, <1>5, <1>6, <1>7

LEMMA PruneRemovedKeeps ==
  ASSUME IInv, NEW m \in Remover, PruneRemoved(m)
  PROVE  IInv'
<1>. USE NoneAssumption, WantsAssumption DEF PruneRemoved, Prune, Goto, cacheVars, tokenVars, IInv
<1>1. TypeOK'
  BY DEF TypeOK, PC, CloneInv, Locked, VictimInv
<1>2. CloneInv'
  BY DEF TypeOK, CloneInv, Locked
<1>3. LocksAgree'
  BY DEF TypeOK, LocksAgree, CloneInv, Locked, InUse
<1>4. HolderInv'
  BY DEF TypeOK, HolderInv, CloneInv, LocksAgree, Locked
<1>5. UncachedInv'
  BY DEF TypeOK, UncachedInv, HolderInv, CloneInv, LocksAgree, Locked
<1>6. VictimInv'
  BY DEF TypeOK, VictimInv
<1>7. ReplyReachable'
  BY DEF TypeOK, ReplyReachable
<1>. QED  BY <1>1, <1>2, <1>3, <1>4, <1>5, <1>6, <1>7

LEMMA InterruptKeeps ==
  ASSUME IInv, NEW s \in Session, Interrupt(s)
  PROVE  IInv'
<1>. USE NoneAssumption, WantsAssumption DEF Interrupt, Goto, cacheVars, tokenVars, IInv
<1>1. TypeOK'
  BY DEF TypeOK, PC, CloneInv, Locked, VictimInv
<1>2. CloneInv'
  BY DEF TypeOK, CloneInv, Locked
<1>3. LocksAgree'
  BY DEF TypeOK, LocksAgree, CloneInv, Locked, InUse
<1>4. HolderInv'
  BY DEF TypeOK, HolderInv, CloneInv, LocksAgree, Locked
<1>5. UncachedInv'
  BY DEF TypeOK, UncachedInv, HolderInv, CloneInv, LocksAgree, Locked
<1>6. VictimInv'
  BY DEF TypeOK, VictimInv
<1>7. ReplyReachable'
  BY DEF TypeOK, ReplyReachable
<1>. QED  BY <1>1, <1>2, <1>3, <1>4, <1>5, <1>6, <1>7

LEMMA StepInv == IInv /\ [Next]_vars => IInv'
<1>. SUFFICES ASSUME IInv, [Next]_vars PROVE IInv'
  OBVIOUS
<1>1. CASE UNCHANGED vars
  BY <1>1 DEF vars, IInv, TypeOK, CloneInv, LocksAgree, HolderInv, UncachedInv,
              VictimInv, ReplyReachable
<1>2. ASSUME NEW c \in Caller, FastPath(c) \/ GetAgent(c) \/ Reply(c)
      PROVE  IInv'
  BY <1>2, FastPathKeeps, CloneLockKeeps, AcquireKeeps, RecheckKeeps, BuildKeeps,
     PushKeeps, PruneEvictedKeeps, PruneFailedKeeps, RegisterKeeps, EndReplyKeeps
  DEF GetAgent, Reply
<1>3. ASSUME NEW s \in Session, Interrupt(s)
      PROVE  IInv'
  BY <1>3, InterruptKeeps
<1>4. ASSUME NEW m \in Remover, RemoveToken(m) \/ Removal(m)
      PROVE  IInv'
  BY <1>4, RemoveTokenKeeps, PopKeeps, PruneRemovedKeeps DEF Removal
<1>. QED  BY <1>1, <1>2, <1>3, <1>4 DEF Next

LEMMA InvHolds == Spec => []IInv
  BY InitInv, StepInv, PTL DEF Spec

-----------------------------------------------------------------------------
\* The cache never exceeds its capacity, and every variable keeps its type.
THEOREM TypeCorrect == Spec => []TypeOK
<1>1. IInv => TypeOK
  BY DEF IInv
<1>. QED  BY InvHolds, <1>1, PTL

\* Callers that want the agent of one session never build it twice: they
\* share a mutex that no removal, eviction or failure takes away from them.
THEOREM BuilderAlone == Spec => []OneBuilder
<1>1. IInv => OneBuilder
  BY WantsAssumption
  DEF IInv, TypeOK, OneBuilder, Building, CloneInv, LocksAgree, HolderInv,
      UncachedInv, Locked
<1>. QED  BY InvHolds, <1>1, PTL

\* Whoever waits for, or works on, a session's agent has the lock that the
\* next caller will find in creation_locks.
THEOREM LocksShared == Spec => []LocksAgree
<1>1. IInv => LocksAgree
  BY DEF IInv
<1>. QED  BY InvHolds, <1>1, PTL

\* A reply has its token registered until it ends or a removal takes it, and
\* loses it otherwise only to the end of a reply that a removal cut off
\* (manager.rs:363).
THEOREM RepliesReachable == Spec => []ReplyReachable
<1>1. IInv => ReplyReachable
  BY DEF IInv
<1>. QED  BY InvHolds, <1>1, PTL
-----------------------------------------------------------------------------
(* What is safe in "nobody waits for ever for an agent".  A creation lock    *)
(* that is held is held by a caller past the wait, so whoever waits, waits   *)
(* for someone who waits for nobody; and every caller is done in a few steps *)
(* of its own, which nobody else can undo.                                   *)

\* The mutex is given back with the clone.
HeldInv ==
    \A l \in Caller : holder[l] # None =>
       pc[holder[l]] \in Locked /\ arc[holder[l]] = l

LEMMA HeldStep == IInv /\ HeldInv /\ [Next]_vars => HeldInv'
<1>. SUFFICES ASSUME IInv, HeldInv, [Next]_vars PROVE HeldInv'
  OBVIOUS
<1>. USE NoneAssumption DEF IInv, TypeOK, HeldInv, Locked
<1>1. ASSUME NEW c \in Caller, FastPath(c) \/ CloneLock(c)
      PROVE  HeldInv'
  BY <1>1 DEF FastPath, CloneLock, Goto
<1>2. ASSUME NEW c \in Caller, Acquire(c)
      PROVE  HeldInv'
  <2>1. arc[c] \in Caller
    BY <1>2 DEF Acquire, CloneInv
  <2>. QED  BY <1>2, <2>1 DEF Acquire, Goto
<1>3. ASSUME NEW c \in Caller, ReleaseLock(c), pc[c] \in Locked,
             \A d \in Caller \ {c} : pc'[d] = pc[d]
      PROVE  HeldInv'
  <2>1. arc[c] \in Caller /\ holder[arc[c]] = c
    BY <1>3 DEF CloneInv, HolderInv
  <2>2. \A l \in Caller : holder'[l] = IF l = arc[c] THEN None ELSE holder[l]
    BY <1>3 DEF ReleaseLock
  <2>3. \A d \in Caller : d # c => arc'[d] = arc[d]
    BY <1>3 DEF ReleaseLock
  <2>4. \A l \in Caller : holder'[l] # None => holder'[l] # c
    BY <2>1, <2>2
  <2>. QED  BY <1>3, <2>2, <2>3, <2>4
<1>4. ASSUME NEW c \in Caller, UNCHANGED <<arc, holder>>,
             pc[c] \notin Locked \/ pc'[c] \in Locked,
             \A d \in Caller \ {c} : pc'[d] = pc[d]
      PROVE  HeldInv'
  BY <1>4
<1>5. ASSUME NEW c \in Caller, Recheck(c) \/ Build(c) \/ Push(c) \/ PruneEvicted(c)
      PROVE  HeldInv'
  <2>1. /\ pc[c] \in Locked
        /\ \A d \in Caller \ {c} : pc'[d] = pc[d]
    BY <1>5 DEF Recheck, Build, Push, PruneEvicted, Goto
  <2>2. ReleaseLock(c) \/ (UNCHANGED <<arc, holder>> /\ pc'[c] \in Locked)
    BY <1>5 DEF Recheck, Build, Push, PruneEvicted, Goto
  <2>. QED  BY <1>3, <1>4, <2>1, <2>2
<1>6. ASSUME NEW c \in Caller, PruneFailed(c) \/ Reply(c)
      PROVE  HeldInv'
  <2>1. /\ pc[c] \notin Locked /\ UNCHANGED <<arc, holder>>
        /\ \A d \in Caller \ {c} : pc'[d] = pc[d]
    BY <1>6 DEF PruneFailed, Reply, Register, EndReply, Goto, cacheVars
  <2>. QED  BY <1>4, <2>1
<1>7. ASSUME \/ UNCHANGED vars \/ \E s \in Session : Interrupt(s)
             \/ \E m \in Remover : RemoveToken(m) \/ Removal(m)
      PROVE  HeldInv'
  <2>1. UNCHANGED <<arc, holder, pc>>
    BY <1>7 DEF vars, Interrupt, RemoveToken, Removal, Pop, PruneRemoved, cacheVars
  <2>. QED  BY <2>1
<1>. QED  BY <1>1, <1>2, <1>5, <1>6, <1>7 DEF Next, GetAgent

LEMMA HeldHolds == Spec => [](IInv /\ HeldInv)
<1>1. Init => HeldInv
  BY NoneAssumption DEF Init, HeldInv
<1>. QED  BY <1>1, HeldStep, InvHolds, PTL DEF Spec

\* Whoever waits for a creation lock waits for a caller that is looking,
\* building or storing the agent, never for one that waits itself
\* (manager.rs, get_or_create_agent_with_runtime_context).
WaitsForWorker ==
    \A c \in Caller : pc[c] = "wait" =>
       holder[arc[c]] = None \/ pc[holder[arc[c]]] \in Locked

\* No two callers ever wait for each other's creation lock: the one that holds
\* it is at work (manager.rs, get_or_create_agent_with_runtime_context).
THEOREM NoDeadlock == Spec => []WaitsForWorker
<1>1. IInv /\ HeldInv => WaitsForWorker
  BY DEF IInv, HeldInv, WaitsForWorker, CloneInv, TypeOK
<1>. QED  BY <1>1, HeldHolds, PTL

\* The steps a caller has left.
StepsLeft ==
    [idle |-> 10, miss |-> 9, wait |-> 8, recheck |-> 7, build |-> 6, push |-> 5,
     evicted |-> 4, prune |-> 3, got |-> 2, reply |-> 1, done |-> 0]

\* A caller only goes forward, whoever removes its session, evicts its agent
\* or interrupts its reply: it is never sent back to build again.
CallersGoForward ==
    [][\A c \in Caller : pc'[c] = pc[c] \/ StepsLeft[pc'[c]] < StepsLeft[pc[c]]]_vars

\* No caller is ever sent back a step by another (manager.rs,
\* get_or_create_agent_with_runtime_context).
THEOREM GoForward == Spec => CallersGoForward
<1>1. ASSUME IInv, [Next]_vars, NEW c \in Caller
      PROVE  pc'[c] = pc[c] \/ StepsLeft[pc'[c]] < StepsLeft[pc[c]]
  <2>. USE <1>1 DEF IInv, TypeOK
  <2>1. ASSUME NEW d \in Caller, FastPath(d) \/ GetAgent(d) \/ Reply(d)
        PROVE  pc'[c] = pc[c] \/ StepsLeft[pc'[c]] < StepsLeft[pc[c]]
    <3>. CASE d # c
      BY <2>1 DEF FastPath, GetAgent, CloneLock, Acquire, Recheck, Build, Push,
                  PruneEvicted, PruneFailed, Reply, Register, EndReply, Goto
    <3>. CASE d = c
      BY <2>1 DEF FastPath, GetAgent, CloneLock, Acquire, Recheck, Build, Push,
                  PruneEvicted, PruneFailed, Reply, Register, EndReply, Goto,
                  StepsLeft
    <3>. QED  OBVIOUS
  <2>2. ASSUME \/ UNCHANGED vars \/ \E s \in Session : Interrupt(s)
               \/ \E m \in Remover : RemoveToken(m) \/ Removal(m)
        PROVE  pc'[c] = pc[c]
    BY <2>2 DEF vars, Interrupt, RemoveToken, Removal, Pop, PruneRemoved
  <2>. QED  BY <2>1, <2>2 DEF Next
<1>2. IInv /\ [Next]_vars =>
        [\A c \in Caller :
           pc'[c] = pc[c] \/ StepsLeft[pc'[c]] < StepsLeft[pc[c]]]_vars
  BY <1>1
<1>. QED  BY <1>2, InvHolds, PTL DEF Spec, CallersGoForward
=============================================================================
