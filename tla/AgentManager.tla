---------------------------- MODULE AgentManager ----------------------------
(***************************************************************************)
(* The AgentManager: a bounded cache of the agents of sessions, creation   *)
(* locks that keep two callers from building the agent of one session at   *)
(* the same time, and the cancel tokens that mark a session busy.  The     *)
(* callers are the orchestrator's send_message: get or create the agent,   *)
(* register a cancel token, reply, unregister.  Beside them sessions are   *)
(* removed (remove_session_if_loaded) and interrupted (cancel_session).    *)
(***************************************************************************)
EXTENDS Naturals, FiniteSets

CONSTANTS Session, Caller, Remover,
          Wants,     \* Wants[c]: the session a caller sends its message to
          Removes,   \* Removes[m]: the session a remover removes
          Capacity,  \* max_sessions of the cache
          None

ASSUME WantsAssumption == /\ Wants \in [Caller -> Session]
                          /\ Removes \in [Remover -> Session]
ASSUME CapacityAssumption == Capacity \in Nat \ {0}
ASSUME NoneAssumption == None \notin Caller /\ None \notin Session

VARIABLES
    cache,      \* the sessions whose agent is in the LRU cache
    lock,       \* lock[s]: the Arc in creation_locks, named after its maker
    arc,        \* arc[c]: the lock of which a caller holds a clone
    holder,     \* holder[l]: the caller inside the mutex l
    token,      \* token[s]: the reply whose cancel token is registered
    cancelled,  \* the replies whose token was cancelled
    removed,    \* history: those whose token a removal took
    pc,         \* where each caller is
    victim,     \* victim[c]: the session its push evicted
    rpc         \* where each remover is
vars == <<cache, lock, arc, holder, token, cancelled, removed, pc, victim, rpc>>

cacheVars == <<cache, lock, arc, holder>>
tokenVars == <<token, cancelled, removed>>

InUse(s) == \E c \in Caller : arc[c] # None /\ arc[c] = lock[s]

PC == {"idle", "miss", "wait", "recheck", "build", "push", "evicted",
       "prune", "got", "reply", "done"}

TypeOK ==
    /\ cache \subseteq Session
    /\ IsFiniteSet(cache) /\ Cardinality(cache) <= Capacity
    /\ lock \in [Session -> Caller \cup {None}]
    /\ arc \in [Caller -> Caller \cup {None}]
    /\ holder \in [Caller -> Caller \cup {None}]
    /\ token \in [Session -> Caller \cup {None}]
    /\ cancelled \subseteq Caller /\ removed \subseteq Caller
    /\ pc \in [Caller -> PC]
    /\ victim \in [Caller -> Session \cup {None}]
    /\ rpc \in [Remover -> {"idle", "pop", "prune", "done"}]

Init ==
    /\ cache = {}
    /\ lock = [s \in Session |-> None]
    /\ arc = [c \in Caller |-> None]
    /\ holder = [c \in Caller |-> None]
    /\ token = [s \in Session |-> None]
    /\ cancelled = {} /\ removed = {}
    /\ pc = [c \in Caller |-> "idle"]
    /\ victim = [c \in Caller |-> None]
    /\ rpc = [m \in Remover |-> "idle"]

Goto(c, where) == pc' = [pc EXCEPT ![c] = where]

Full == Cardinality(cache) = Capacity

-----------------------------------------------------------------------------
(* get_or_create_agent_with_runtime_context *)

FastPath(c) ==
    /\ pc[c] = "idle"
    /\ Goto(c, IF Wants[c] \in cache THEN "got" ELSE "miss")
    /\ UNCHANGED <<cache, lock, arc, holder, tokenVars, victim, rpc>>

CloneLock(c) ==
    LET s == Wants[c]
        l == IF lock[s] = None THEN c ELSE lock[s] IN
    /\ pc[c] = "miss"
    /\ lock' = [lock EXCEPT ![s] = l]
    /\ arc' = [arc EXCEPT ![c] = l]
    /\ Goto(c, "wait")
    /\ UNCHANGED <<cache, holder, tokenVars, victim, rpc>>

Acquire(c) ==
    /\ pc[c] = "wait"
    /\ holder[arc[c]] = None
    /\ holder' = [holder EXCEPT ![arc[c]] = c]
    /\ Goto(c, "recheck")
    /\ UNCHANGED <<cache, lock, arc, tokenVars, victim, rpc>>

\* The guard and the clone go when the function returns.
ReleaseLock(c) ==
    /\ holder' = [holder EXCEPT ![arc[c]] = None]
    /\ arc' = [arc EXCEPT ![c] = None]

Recheck(c) ==
    /\ pc[c] = "recheck"
    /\ \/ /\ Wants[c] \in cache
          /\ ReleaseLock(c)
          /\ Goto(c, "got")
       \/ /\ Wants[c] \notin cache
          /\ Goto(c, "build")
          /\ UNCHANGED <<arc, holder>>
    /\ UNCHANGED <<cache, lock, tokenVars, victim, rpc>>

\* The agent is built: provider, extensions, recipe; update_provider and
\* update_mode may fail, and then the guard and the clone go before the prune.
Build(c) ==
    /\ pc[c] = "build"
    /\ \/ Goto(c, "push") /\ UNCHANGED <<arc, holder>>
       \/ Goto(c, "prune") /\ ReleaseLock(c)
    /\ UNCHANGED <<cache, lock, tokenVars, victim, rpc>>

\* Mutant: put, with a cache that does not evict.
PutUnbounded(c) ==
    /\ pc[c] = "push"
    /\ cache' = cache \cup {Wants[c]}
    /\ ReleaseLock(c)
    /\ Goto(c, "got")
    /\ UNCHANGED <<lock, tokenVars, victim, rpc>>

\* With the cache locked: someone else's agent is taken, or this one goes in.
\* Which session is least recently used is left open.
Push(c) ==
    LET s == Wants[c] IN
    /\ pc[c] = "push"
    /\ \/ /\ s \in cache \/ ~Full
          /\ cache' = cache \cup {s}
          /\ ReleaseLock(c)
          /\ Goto(c, "got")
          /\ UNCHANGED victim
       \/ /\ s \notin cache /\ Full
          /\ \E v \in cache : /\ cache' = (cache \ {v}) \cup {s}
                              /\ victim' = [victim EXCEPT ![c] = v]
          /\ Goto(c, "evicted")
          /\ UNCHANGED <<arc, holder>>
    /\ UNCHANGED <<lock, tokenVars, rpc>>

\* Mutant: the entry goes, whoever still has a clone.
PruneInUse(s) == lock' = [lock EXCEPT ![s] = None]

\* prune_creation_lock: the entry goes when no caller has a clone.
Prune(s) == lock' = [lock EXCEPT ![s] = IF InUse(s) THEN @ ELSE None]

\* Mutant: the path that evicted keeps the guard.
PruneEvictedHolds(c) ==
    /\ pc[c] = "evicted"
    /\ Prune(victim[c])
    /\ victim' = [victim EXCEPT ![c] = None]
    /\ Goto(c, "got")
    /\ UNCHANGED <<cache, arc, holder, tokenVars, rpc>>

PruneEvicted(c) ==
    /\ pc[c] = "evicted"
    /\ Prune(victim[c])
    /\ ReleaseLock(c)
    /\ victim' = [victim EXCEPT ![c] = None]
    /\ Goto(c, "got")
    /\ UNCHANGED <<cache, tokenVars, rpc>>

PruneFailed(c) ==
    /\ pc[c] = "prune"
    /\ Prune(Wants[c])
    /\ Goto(c, "done")
    /\ UNCHANGED <<cache, arc, holder, tokenVars, victim, rpc>>

-----------------------------------------------------------------------------
(* The reply of handle_send_message, and handle_interrupt_agent. *)

\* Mutant: the token is inserted without a look at the one that is there.
RegisterOver(c) ==
    /\ pc[c] = "got"
    /\ token' = [token EXCEPT ![Wants[c]] = c]
    /\ Goto(c, "reply")
    /\ UNCHANGED <<cacheVars, cancelled, removed, victim, rpc>>

\* try_register_cancel_token: busy when the session has a token.
Register(c) ==
    LET s == Wants[c] IN
    /\ pc[c] = "got"
    /\ \/ /\ token[s] = None
          /\ token' = [token EXCEPT ![s] = c]
          /\ Goto(c, "reply")
       \/ /\ token[s] # None
          /\ Goto(c, "done")
          /\ UNCHANGED token
    /\ UNCHANGED <<cacheVars, cancelled, removed, victim, rpc>>

\* The stream ends by itself, by an error or cancelled by the parent; then
\* unregister_cancel_token removes whatever token the session has.
EndReply(c) ==
    /\ pc[c] = "reply"
    /\ token' = [token EXCEPT ![Wants[c]] = None]
    /\ Goto(c, "done")
    /\ UNCHANGED <<cacheVars, cancelled, removed, victim, rpc>>

\* cancel_session
Interrupt(s) ==
    /\ token[s] # None
    /\ cancelled' = cancelled \cup {token[s]}
    /\ UNCHANGED <<cacheVars, token, removed, pc, victim, rpc>>

-----------------------------------------------------------------------------
(* remove_session_if_loaded: three locks, one after the other. *)

RemoveToken(m) ==
    LET s == Removes[m] IN
    /\ rpc[m] = "idle"
    /\ token' = [token EXCEPT ![s] = None]
    /\ cancelled' = cancelled \cup ({token[s]} \ {None})
    /\ removed' = removed \cup ({token[s]} \ {None})
    /\ rpc' = [rpc EXCEPT ![m] = "pop"]
    /\ UNCHANGED <<cacheVars, pc, victim>>

Pop(m) ==
    LET s == Removes[m] IN
    /\ rpc[m] = "pop"
    /\ cache' = cache \ {s}
    /\ rpc' = [rpc EXCEPT ![m] = IF s \in cache THEN "prune" ELSE "done"]
    /\ UNCHANGED <<lock, arc, holder, tokenVars, pc, victim>>

PruneRemoved(m) ==
    /\ rpc[m] = "prune"
    /\ Prune(Removes[m])
    /\ rpc' = [rpc EXCEPT ![m] = "done"]
    /\ UNCHANGED <<cache, arc, holder, tokenVars, pc, victim>>

-----------------------------------------------------------------------------
GetAgent(c) == \/ CloneLock(c) \/ Acquire(c) \/ Recheck(c) \/ Build(c)
               \/ Push(c) \/ PruneEvicted(c) \/ PruneFailed(c)
Reply(c) == Register(c) \/ EndReply(c)
Removal(m) == Pop(m) \/ PruneRemoved(m)

Next == \/ \E c \in Caller : FastPath(c) \/ GetAgent(c) \/ Reply(c)
        \/ \E s \in Session : Interrupt(s)
        \/ \E m \in Remover : RemoveToken(m) \/ Removal(m)

Spec == Init /\ [][Next]_vars

\* Tokio runs every ready task, and building an agent ends.
FairSpec == Spec /\ \A c \in Caller : WF_vars(GetAgent(c))

-----------------------------------------------------------------------------
Building(s) == {c \in Caller : pc[c] \in {"build", "push"} /\ Wants[c] = s}

\* "Concurrent callers for the same session never race into doing the work
\* twice": one builder per session, also while the locks are pruned by
\* failures, evictions and removals, and only for a session without an agent.
OneBuilder ==
    \A s \in Session : /\ \A c, d \in Building(s) : c = d
                       /\ Building(s) # {} => s \notin cache

\* A mutex that is held is one that the holder has a clone of, and whoever
\* waits for a session's agent waits for the lock the next caller would find.
LocksAgree ==
    \A c \in Caller : arc[c] # None => lock[Wants[c]] = arc[c]

\* A reply can be interrupted, and keeps its session busy, until it ends or
\* a removal takes its token, whatever is interrupted, evicted or removed
\* beside it.  There is one other way to lose the token: a removal took that
\* of an earlier reply of the session, and when that reply came to its end it
\* unregistered the token of its successor (manager.rs:363).
ReplyReachable ==
    \A c \in Caller :
       pc[c] = "reply" /\ c \notin removed =>
          \/ token[Wants[c]] = c
          \/ \E d \in removed : Wants[d] = Wants[c] /\ pc[d] = "done"

\* What the busy check is for: one reply per session, unless it was cancelled.
OneReply ==
    \A c, d \in Caller :
       /\ pc[c] = "reply" /\ c \notin cancelled
       /\ pc[d] = "reply" /\ d \notin cancelled
       /\ Wants[c] = Wants[d]
       => c = d

\* Nobody waits for ever for an agent, whoever fails, is evicted or removed.
AgentArrives ==
    \A c \in Caller : pc[c] = "miss" ~> pc[c] \in {"got", "done"}
=============================================================================
