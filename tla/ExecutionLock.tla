---------------------------- MODULE ExecutionLock ----------------------------
(***************************************************************************)
(* The per-run execution lock of backend/app/agent_run_routes.py:          *)
(* _acquire_execution_lock and _release_execution_lock around the body of  *)
(* execute_run_next_step, for one run.  The registry _EXECUTION_LOCKS is   *)
(* only touched under _EXECUTION_LOCK_GUARD, so a guarded block is one     *)
(* step; Lock.acquire and Lock.release happen outside of it and are steps  *)
(* of their own.                                                           *)
(***************************************************************************)
EXTENDS FiniteSets, Naturals

CONSTANTS
    Threads,   \* request threads
    Locks,     \* Lock objects that can exist at the same time
    NoLock     \* the registry has no entry for the run

VARIABLES
    registry,  \* _EXECUTION_LOCKS.get(run_id)
    locked,    \* the Lock objects that are locked
    phase,     \* where each request is
    ref        \* the Lock object each request refers to

vars == <<registry, locked, phase, ref>>

Init ==
    /\ registry = NoLock
    /\ locked = {}
    /\ phase = [t \in Threads |-> "idle"]
    /\ ref = [t \in Threads |-> NoLock]

\* A Lock() that nothing refers to yet.
Fresh == Locks \ ({registry} \cup {ref[t] : t \in Threads})

\* with _EXECUTION_LOCK_GUARD: _EXECUTION_LOCKS.setdefault(run_id, Lock()).
setdefault(t) ==
    /\ phase[t] = "idle"
    /\ \E lock \in IF registry = NoLock THEN Fresh ELSE {registry} :
          registry' = lock /\ ref' = [ref EXCEPT ![t] = lock]
    /\ phase' = [phase EXCEPT ![t] = "asking"]
    /\ UNCHANGED locked

\* Mutant: the request locks whatever the registry holds by now.
AcquireRegistered(t) ==
    /\ phase[t] = "asking" /\ registry \notin locked
    /\ locked' = locked \cup {registry}
    /\ phase' = [phase EXCEPT ![t] = "active"]
    /\ UNCHANGED <<registry, ref>>

\* lock.acquire(blocking=False) succeeds.
acquire(t) ==
    /\ phase[t] = "asking" /\ ref[t] \notin locked
    /\ locked' = locked \cup {ref[t]}
    /\ phase' = [phase EXCEPT ![t] = "active"]
    /\ UNCHANGED <<registry, ref>>

\* lock.acquire(blocking=False) fails: HTTP 409.
refuse(t) ==
    /\ phase[t] = "asking" /\ ref[t] \in locked
    /\ phase' = [phase EXCEPT ![t] = "idle"]
    /\ ref' = [ref EXCEPT ![t] = NoLock]
    /\ UNCHANGED <<registry, locked>>

\* The body of execute-next ended or raised: lock.release().
release(t) ==
    /\ phase[t] = "active"
    /\ locked' = locked \ {ref[t]}
    /\ phase' = [phase EXCEPT ![t] = "leaving"]
    /\ UNCHANGED <<registry, ref>>

\* Mutant: the test before the entry is popped is the wrong way round.
PopIfLocked(t) ==
    /\ phase[t] = "leaving"
    /\ registry' = IF ref[t] \in locked THEN NoLock ELSE registry
    /\ phase' = [phase EXCEPT ![t] = "idle"]
    /\ ref' = [ref EXCEPT ![t] = NoLock]
    /\ UNCHANGED locked

\* with _EXECUTION_LOCK_GUARD: the entry is popped unless the lock is taken.
pop(t) ==
    /\ phase[t] = "leaving"
    /\ registry' = IF ref[t] \in locked THEN registry ELSE NoLock
    /\ phase' = [phase EXCEPT ![t] = "idle"]
    /\ ref' = [ref EXCEPT ![t] = NoLock]
    /\ UNCHANGED locked

Next ==
    \E t \in Threads :
        setdefault(t) \/ acquire(t) \/ refuse(t) \/ release(t) \/ pop(t)

Spec == Init /\ [][Next]_vars

----------------------------------------------------------------------------

\* Every variable has its type.
TypeOK ==
    /\ registry \in Locks \cup {NoLock}
    /\ locked \subseteq Locks
    /\ phase \in [Threads -> {"idle", "asking", "active", "leaving"}]
    /\ ref \in [Threads -> Locks \cup {NoLock}]

\* No entry of _EXECUTION_LOCKS outlives the requests: the registry cannot
\* grow with the number of runs ever executed, however releases, refusals and
\* new requests interleave.
NoLockLeak == (\A t \in Threads : phase[t] = "idle") => registry = NoLock

\* No Lock object stays locked behind the requests' backs: each locked one is
\* owned by exactly one active request.  A run whose lock lost its owner would
\* answer 409 for ever.
LockedHasOwner ==
    \A lock \in locked :
        \E t \in Threads :
            /\ phase[t] = "active" /\ ref[t] = lock
            /\ \A u \in Threads : phase[u] = "active" /\ ref[u] = lock => u = t

\* Code claim: a second request is refused because "Another execution request
\* is already active for this AgentRun".
OneActiveRequest ==
    \A t, u \in Threads : phase[t] = "active" /\ phase[u] = "active" => t = u
=============================================================================
