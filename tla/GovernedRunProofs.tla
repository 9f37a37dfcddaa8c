------------------------- MODULE GovernedRunProofs -------------------------
(***************************************************************************)
(* Proofs about GovernedRun, for any number of requests, Lock objects,     *)
(* steps, actions, attempts and timeouts: the execution lock, the types,   *)
(* and the authorization of every side effect.                             *)
(***************************************************************************)
EXTENDS GovernedRun, AgentRunProofs

----------------------------------------------------------------------------
(* The execution lock.                                                     *)

(* A request refers to a Lock object from setdefault to pop or 409, holds  *)
(* it while it is active, alone, and an entry of the registry is one that  *)
(* a request still refers to.                                              *)
LockInv ==
    /\ Lock!TypeOK
    /\ \A t \in Threads : phase[t] = "idle" <=> ref[t] = NoLock
    /\ \A t \in Threads : phase[t] = "active" => ref[t] \in locked
    /\ \A t, u \in Threads :
          phase[t] = "active" /\ phase[u] = "active" /\ ref[t] = ref[u] => t = u
    /\ \A lock \in locked : \E t \in Threads : phase[t] = "active" /\ ref[t] = lock
    /\ registry # NoLock => \E t \in Threads : ref[t] = registry

\* What the invariant says of the registry and of the locked objects.
LEMMA LockInvUse ==
  ASSUME LockInv
  PROVE  NoLockLeak /\ LockedHasOwner
  <1>1. NoLockLeak
    BY DEF LockInv, NoLockLeak, Lock!NoLockLeak
  <1>2. LockedHasOwner
    BY DEF LockInv, LockedHasOwner, Lock!LockedHasOwner
  <1> QED
    BY <1>1, <1>2

\* Entering: setdefault, and acquire or 409.
LEMMA EnterLock ==
  ASSUME LockInv, NEW t \in Threads,
         Lock!setdefault(t) \/ Lock!acquire(t) \/ Lock!refuse(t)
  PROVE  LockInv'
  <1>0. NoLock \notin Locks
    BY GovernedAssumption
  <1>1. CASE Lock!setdefault(t)
    <2>1. PICK lock \in Locks :
            /\ registry # NoLock => lock = registry
            /\ registry' = lock /\ ref' = [ref EXCEPT ![t] = lock]
            /\ phase[t] = "idle" /\ phase' = [phase EXCEPT ![t] = "asking"]
            /\ locked' = locked
      BY <1>1 DEF Lock!setdefault, Lock!Fresh, LockInv, Lock!TypeOK
    <2>2. Lock!TypeOK'
      BY <2>1 DEF LockInv, Lock!TypeOK
    <2>3. /\ ref'[t] = lock /\ phase'[t] = "asking"
          /\ \A u \in Threads : u # t => ref'[u] = ref[u] /\ phase'[u] = phase[u]
      BY <2>1 DEF LockInv, Lock!TypeOK
    <2> QED
      BY <1>0, <2>1, <2>2, <2>3 DEF LockInv
  <1>2. CASE Lock!acquire(t)
    <2>1. /\ phase[t] = "asking" /\ ref[t] \notin locked
          /\ locked' = locked \cup {ref[t]}
          /\ phase' = [phase EXCEPT ![t] = "active"]
          /\ registry' = registry /\ ref' = ref
      BY <1>2 DEF Lock!acquire
    <2>2. ref[t] \in Locks
      BY <2>1 DEF LockInv, Lock!TypeOK
    <2>3. Lock!TypeOK'
      BY <2>1, <2>2 DEF LockInv, Lock!TypeOK
    <2>4. phase'[t] = "active" /\ \A u \in Threads : u # t => phase'[u] = phase[u]
      BY <2>1 DEF LockInv, Lock!TypeOK
    <2> QED
      BY <2>1, <2>2, <2>3, <2>4 DEF LockInv
  <1>3. CASE Lock!refuse(t)
    <2>1. /\ phase[t] = "asking" /\ ref[t] \in locked
          /\ phase' = [phase EXCEPT ![t] = "idle"]
          /\ ref' = [ref EXCEPT ![t] = NoLock]
          /\ registry' = registry /\ locked' = locked
      BY <1>3 DEF Lock!refuse
    <2>2. Lock!TypeOK'
      BY <2>1 DEF LockInv, Lock!TypeOK
    <2>3. /\ ref'[t] = NoLock /\ phase'[t] = "idle"
          /\ \A u \in Threads : u # t => ref'[u] = ref[u] /\ phase'[u] = phase[u]
      BY <2>1 DEF LockInv, Lock!TypeOK
    <2>4. registry' # NoLock => \E u \in Threads : ref'[u] = registry'
      <3>1. PICK u \in Threads : phase[u] = "active" /\ ref[u] = ref[t]
        BY <2>1 DEF LockInv
      <3> QED
        BY <2>1, <2>3, <3>1 DEF LockInv
    <2> QED
      BY <1>0, <2>1, <2>2, <2>3, <2>4 DEF LockInv
  <1> QED
    BY <1>1, <1>2, <1>3

\* Leaving: release, and pop under the guard.
LEMMA LeaveLock ==
  ASSUME LockInv, NEW t \in Threads, Lock!release(t) \/ Lock!pop(t)
  PROVE  LockInv'
  <1>0. NoLock \notin Locks
    BY GovernedAssumption
  <1>1. CASE Lock!release(t)
    <2>1. /\ phase[t] = "active" /\ locked' = locked \ {ref[t]}
          /\ phase' = [phase EXCEPT ![t] = "leaving"]
          /\ registry' = registry /\ ref' = ref
      BY <1>1 DEF Lock!release
    <2>2. Lock!TypeOK'
      BY <2>1 DEF LockInv, Lock!TypeOK
    <2>3. phase'[t] = "leaving" /\ \A u \in Threads : u # t => phase'[u] = phase[u]
      BY <2>1 DEF LockInv, Lock!TypeOK
    <2> QED
      BY <2>1, <2>2, <2>3 DEF LockInv
  <1>2. CASE Lock!pop(t)
    <2>1. /\ phase[t] = "leaving"
          /\ registry' = IF ref[t] \in locked THEN registry ELSE NoLock
          /\ phase' = [phase EXCEPT ![t] = "idle"]
          /\ ref' = [ref EXCEPT ![t] = NoLock]
          /\ locked' = locked
      BY <1>2 DEF Lock!pop
    <2>2. Lock!TypeOK'
      BY <2>1 DEF LockInv, Lock!TypeOK
    <2>3. /\ ref'[t] = NoLock /\ phase'[t] = "idle"
          /\ \A u \in Threads : u # t => ref'[u] = ref[u] /\ phase'[u] = phase[u]
      BY <2>1 DEF LockInv, Lock!TypeOK
    <2>4. registry' # NoLock => \E u \in Threads : ref'[u] = registry'
      <3> SUFFICES ASSUME ref[t] \in locked, registry # NoLock
                   PROVE  \E u \in Threads : ref'[u] = registry
        BY <2>1
      <3>1. PICK u \in Threads : phase[u] = "active" /\ ref[u] = ref[t]
        BY DEF LockInv
      <3> QED
        BY <2>1, <2>3, <3>1 DEF LockInv
    <2> QED
      BY <1>0, <2>1, <2>2, <2>3, <2>4 DEF LockInv
  <1> QED
    BY <1>1, <1>2

\* The lock does not depend on the rest of the system.
LEMMA LockFrame ==
  ASSUME LockInv, UNCHANGED lockVars
  PROVE  LockInv'
  BY DEF LockInv, Lock!TypeOK, lockVars

\* Every step of the governed run keeps it; a restart empties the registry.
LEMMA LockNext == LockInv /\ [GovernedNext]_governedVars => LockInv'
  <1> SUFFICES ASSUME LockInv, [GovernedNext]_governedVars PROVE LockInv'
    OBVIOUS
  <1>1. ASSUME NEW t \in Threads, RequestStep(t) PROVE LockInv'
    <2>1. CASE enter_request(t)
      BY <2>1, EnterLock DEF enter_request
    <2>2. CASE leave_request(t)
      BY <2>2, LeaveLock DEF leave_request
    <2>3. CASE ~enter_request(t) /\ ~leave_request(t)
      <3>1. UNCHANGED lockVars
        BY <1>1, <2>3
        DEF RequestStep, ensure_run_capability, refuse_request, validate_lease_for_run,
            authorize_action, authorized, acquire_lease, execute_step, late_result,
            release_lease, consume_run_step_actions, Frame
      <3> QED
        BY <3>1, LockFrame
    <2> QED
      BY <2>1, <2>2, <2>3
  <1>2. CASE SupervisorStep \/ TrustStep
    <2>1. UNCHANGED lockVars
      BY <1>2
      DEF SupervisorStep, TrustStep, attach_capability_lease, end_capability_lease,
          record_action_authorization, Frame
    <2> QED
      BY <2>1, LockFrame
  <1>3. CASE Restart
    BY <1>3 DEF Restart, LockInv, Lock!TypeOK
  <1>4. CASE UNCHANGED governedVars
    BY <1>4, LockFrame DEF governedVars
  <1> QED
    BY <1>1, <1>2, <1>3, <1>4 DEF GovernedNext

\* The lock's invariant holds throughout, however many requests overlap.
THEOREM LockInvariance == GovernedSpec => []LockInv
  <1>1. GovernedInit => LockInv
    BY DEF GovernedInit, Lock!Init, LockInv, Lock!TypeOK
  <1> QED
    BY <1>1, LockNext, PTL DEF GovernedSpec

\* No entry of _EXECUTION_LOCKS outlives the requests
\* (_acquire_execution_lock, _release_execution_lock).
THEOREM NoLeak == GovernedSpec => []NoLockLeak
  <1>1. LockInv => NoLockLeak
    BY LockInvUse
  <1> QED
    BY <1>1, LockInvariance, PTL

\* A locked Lock object belongs to exactly one active request, so no run answers
\* 409 for ever (_release_execution_lock).
THEOREM LockOwned == GovernedSpec => []LockedHasOwner
  <1>1. LockInv => LockedHasOwner
    BY LockInvUse
  <1> QED
    BY <1>1, LockInvariance, PTL

----------------------------------------------------------------------------
(* The inductive invariant of the governed run.                            *)

(* The steps before the current one passed; those after it wait, or all of *)
(* them were cancelled.                                                    *)
Placed(d) ==
    LET later == {k \in Steps : k > d.current_step} IN
    /\ \A k \in Steps : k < d.current_step => d.steps[k].status = "SUCCEEDED"
    /\ \/ \A k \in later : d.steps[k].status = "PENDING"
       \/ \A k \in later : d.steps[k].status = "CANCELLED"

(* The current step and its run: a RUNNING step may pass, and a step that  *)
(* may start is not in a run that waits for a human.                       *)
CurrentOK(d) ==
    LET s == d.steps[d.current_step].status IN
    /\ d.status \notin {"ABSENT", "EVALUATING"}
    /\ s = "RUNNING" => d.status = "RUNNING"
    /\ s \in {"READY", "RETRY_WAIT"} => d.status # "NEEDS_HUMAN"

RecordOK(d) == Placed(d) /\ CurrentOK(d)

(* Memory and disk may differ in statuses, never in these.                 *)
SamePlace(d, n) ==
    /\ n.current_step = d.current_step
    /\ \A k \in Steps : n.steps[k].attempt_count = d.steps[k].attempt_count

(* A run that a request has acquired: its lease is live and it can start,  *)
(* or a denial ended it meanwhile.                                         *)
AcquiredRun(d) ==
    \/ /\ d.lease = "live"
       /\ d.status \in {"SCHEDULED", "RUNNING", "RETRY_WAIT", "NEEDS_HUMAN"}
    \/ /\ d.lease = "none" /\ d.status \in TERMINAL_RUN_STATUSES
       /\ d.steps[d.current_step].status \notin {"READY", "RETRY_WAIT", "NEEDS_HUMAN"}

Allowed(acts, k, attempt, n) ==
    \A i \in 1 .. n : acts[<<k, attempt, i>>].decision = "ALLOW"

(* Every RUNNING step is one whose actions were all allowed.               *)
RunningAllowed(acts, d) ==
    \A k \in Steps : d.steps[k].status = "RUNNING" =>
        /\ d.steps[k].attempt_count \in 1 .. AttemptBound
        /\ Allowed(acts, k, d.steps[k].attempt_count, ActionCount[k])

(* The undecided actions are those of the attempt to come.                 *)
Undecided(acts) == {a \in ActionId : acts[a].decision = "REQUIRE_APPROVAL"}
ToCome(a, d) == a[1] = d.current_step /\ a[2] = d.steps[a[1]].attempt_count + 1

(* A run d in memory, its copy c on disk and the decided actions.          *)
DataOK(d, c, acts) ==
    /\ RecordOK(d) /\ RecordOK(c) /\ SamePlace(d, c)
    /\ RunningAllowed(acts, d) /\ RunningAllowed(acts, c)
    /\ \A a \in Undecided(acts) : ToCome(a, d)

(* What holds of a request q of thread th whatever else runs.              *)
RequestOK(q, th, ph, cap) ==
    /\ ph = "active" <=> q.at # "idle"
    /\ th.phase # "idle" => q.at = "execute"
    /\ q.at \in {"attached", "authorize", "execute", "consume"} => cap.status # "none"
    /\ q.at \in {"authorize", "execute", "consume"} =>
          q.attempt >= 1 /\ q.next >= 1 /\ q.timeout \in Timeouts

(* What a request that is alone knows about the run d.                     *)
AloneOK(q, th, d, acts) ==
    /\ q.at \in {"attached", "authorize", "execute"} => q.step = d.current_step
    /\ q.at = "authorize" =>
          /\ q.attempt = d.steps[q.step].attempt_count + 1
          /\ q.next <= ActionCount[q.step] + 1
          /\ Allowed(acts, q.step, q.attempt, q.next - 1)
    /\ q.at = "execute" => Allowed(acts, q.step, q.attempt, ActionCount[q.step])
    /\ q.at = "execute" /\ th.phase # "executing" =>
          q.attempt = d.steps[q.step].attempt_count + 1
    /\ th.phase = "acquired" => AcquiredRun(d)
    /\ th.phase = "executing" =>
          /\ th.step = d.current_step
          /\ q.attempt = d.steps[q.step].attempt_count
          /\ d.steps[q.step].status # "SUCCEEDED"
          /\ Undecided(acts) = {}

SerialInv ==
    /\ \A t, u \in Threads : phase[t] = "active" /\ phase[u] = "active" => t = u
    /\ DataOK(m, disk[Run], actions)
    /\ \A t \in Threads : AloneOK(request[t], thread[t], m, actions)

(* The type invariant, but for the history of the durations.               *)
RecordsOK ==
    /\ TypeOK /\ Lock!TypeOK
    /\ request \in [Threads ->
         [at : {"idle", "start", "attached", "authorize", "execute", "consume", "done"},
          step : Steps, attempt : 0 .. AttemptBound, timeout : Timeouts \cup {0}, next : Nat]]
    /\ holders \subseteq Threads
    /\ lease \in [status : {"none", "ACTIVE", "ENDED"}, strict : BOOLEAN,
                  runtime : 0 .. MaxRuntime, retries : 0 .. MaxRetries]
    /\ actions \in [ActionId ->
         [decision : {"none", "REQUIRE_APPROVAL", "ALLOW", "BLOCK"},
          timeout : Timeouts \cup {0}]]
    /\ consumed \subseteq ActionId

GInv ==
    /\ RecordsOK /\ LockInv
    /\ lease.status = "none" => lease = NoCapability
    /\ \A t \in Threads : RequestOK(request[t], thread[t], phase[t], lease)
    /\ ~raced => SerialInv

----------------------------------------------------------------------------
(* The handlers on one run record.                                         *)

(* n is d after a handler that neither starts nor passes a step.           *)
Moves(d, n) ==
    /\ n \in AgentRunRecord /\ SamePlace(d, n) /\ RecordOK(n)
    /\ \A j \in Steps : n.steps[j].status # d.steps[j].status =>
          d.steps[j].status # "SUCCEEDED" /\ n.steps[j].status \notin {"RUNNING", "SUCCEEDED"}

\* A handler that changes the status of no step but the current one.
LEMMA MovesCurrent ==
  ASSUME NEW d \in AgentRunRecord, NEW n \in AgentRunRecord, RecordOK(d),
         SamePlace(d, n), CurrentOK(n),
         \A j \in Steps : j # d.current_step => n.steps[j].status = d.steps[j].status,
         n.steps[d.current_step].status # d.steps[d.current_step].status =>
            /\ d.steps[d.current_step].status # "SUCCEEDED"
            /\ n.steps[d.current_step].status \notin {"RUNNING", "SUCCEEDED"}
  PROVE  Moves(d, n)
  <1>1. d.current_step \in Steps /\ Steps \subseteq Nat
    BY StepsNonEmpty DEF AgentRunRecord
  <1>2. Placed(n)
    <2>1. /\ \A k \in Steps : k < d.current_step => k # d.current_step
          /\ \A k \in Steps : k > d.current_step => k # d.current_step
      BY <1>1
    <2>2. Placed(d) /\ n.current_step = d.current_step
      BY DEF RecordOK, SamePlace
    <2>3. \A k \in Steps : k # d.current_step => n.steps[k].status = d.steps[k].status
      OBVIOUS
    <2> QED
      BY <2>1, <2>2, <2>3 DEF Placed
  <1> QED
    BY <1>2 DEF Moves, RecordOK

\* transition_step of step k, followed by a change of the run's status, its
\* lease or its flags.
LEMMA StepThenRun ==
  ASSUME NEW d \in AgentRunRecord, NEW k \in Steps, NEW n \in AgentRunRecord,
         NEW target \in AgentRunStepStatus \ {"RUNNING", "SUCCEEDED"},
         RecordOK(d), k = d.current_step, d.steps[k].status # "SUCCEEDED",
         n.current_step = k, CurrentOK(n),
         \A j \in Steps : /\ n.steps[j].status = transition_step(d, k, target).steps[j].status
                          /\ n.steps[j].attempt_count
                               = transition_step(d, k, target).steps[j].attempt_count
  PROVE  Moves(d, n)
  <1> DEFINE x == transition_step(d, k, target)
  <1>1. /\ \A j \in Steps : j # k => x.steps[j] = d.steps[j]
        /\ x.steps[k].status = target
        /\ x.steps[k].attempt_count = d.steps[k].attempt_count
    BY TransitionStep
  <1>2. SamePlace(d, n)
    BY <1>1 DEF SamePlace
  <1> QED
    BY <1>1, <1>2, MovesCurrent

\* Changing neither steps nor current_step.
LEMMA RunOnly ==
  ASSUME NEW d \in AgentRunRecord, NEW n \in AgentRunRecord, RecordOK(d),
         n.current_step = d.current_step, n.steps = d.steps, CurrentOK(n)
  PROVE  Moves(d, n)
  <1>1. SamePlace(d, n)
    BY DEF SamePlace
  <1> QED
    BY <1>1, MovesCurrent

\* A lease that comes, goes or expires.
LEMMA LeaseMoves ==
  ASSUME NEW d \in AgentRunRecord, NEW l \in LeaseState
  PROVE  LET n == WithLease(d, l) IN
         /\ n \in AgentRunRecord
         /\ n.status = d.status /\ n.steps = d.steps /\ n.current_step = d.current_step
         /\ n.lease = l
         /\ RecordOK(d) => Moves(d, n)
  <1> DEFINE n == WithLease(d, l)
  <1>1. /\ n \in AgentRunRecord /\ n.status = d.status /\ n.steps = d.steps
        /\ n.current_step = d.current_step /\ n.lease = l
    BY DEF WithLease, AgentRunRecord, LeaseState
  <1>2. ASSUME RecordOK(d) PROVE Moves(d, n)
    <2> HIDE DEF n
    <2>1. CurrentOK(n)
      BY <1>1, <1>2 DEF RecordOK, CurrentOK
    <2> QED
      BY <1>1, <1>2, <2>1, RunOnly
  <1> QED
    BY <1>1, <1>2

\* _mark_blocked and _mark_needs_human, up to the step and with the run.
LEMMA MarkMoves ==
  ASSUME NEW d \in AgentRunRecord, NEW k \in Steps, NEW target \in {"BLOCKED", "NEEDS_HUMAN"}
  PROVE  LET x == IF d.steps[k].status = target THEN d ELSE transition_step(d, k, target)
             n == transition_run(x, target)
         IN  /\ x \in AgentRunRecord /\ n \in AgentRunRecord
             /\ (RecordOK(d) /\ k = d.current_step
                 /\ can_transition_step(d.steps[k].status, target))
                   => Moves(d, x) /\ Moves(d, n)
  <1> DEFINE x == IF d.steps[k].status = target THEN d ELSE transition_step(d, k, target)
             n == transition_run(x, target)
  <1>1. target \in AgentRunStepStatus \ {"RUNNING", "SUCCEEDED"} /\ target \in AgentRunStatus
    BY DEF AgentRunStepStatus, AgentRunStatus
  <1>2. /\ x \in AgentRunRecord /\ x.status = d.status /\ x.current_step = d.current_step
        /\ x.steps[k].status = target
    BY <1>1, TransitionStep
  <1>3. n \in AgentRunRecord /\ n.status = target /\ n.current_step = x.current_step
        /\ n.steps = x.steps
    BY <1>1, <1>2, TransitionRun
  <1>4. ASSUME RecordOK(d), k = d.current_step,
               can_transition_step(d.steps[k].status, target)
        PROVE  Moves(d, x) /\ Moves(d, n)
    <2>1. d.steps[k].status # "SUCCEEDED"
      BY <1>4 DEF can_transition_step, STEP_TRANSITIONS
    <2>2. CurrentOK(x) /\ CurrentOK(n)
      BY <1>2, <1>3, <1>4 DEF RecordOK, CurrentOK
    <2>3. \A j \in Steps : j # k => x.steps[j] = d.steps[j]
      BY <1>1, TransitionStep
    <2>4. x.steps[k].attempt_count = d.steps[k].attempt_count
      BY <1>1, TransitionStep
    <2> HIDE DEF x
    <2>5. SamePlace(d, x) /\ SamePlace(d, n)
      BY <1>2, <1>3, <2>3, <2>4 DEF SamePlace
    <2> HIDE DEF n
    <2> QED
      BY <1>2, <1>3, <1>4, <2>1, <2>2, <2>3, <2>5, MovesCurrent
  <1> QED
    BY <1>2, <1>3, <1>4

(* A handler that a request which has acquired the run does not notice.    *)
Handled(d, n) == Moves(d, n) /\ (AcquiredRun(d) => AcquiredRun(n))

\* Only the current step can be one that started and has not ended.
LEMMA OpenIsCurrent ==
  ASSUME NEW d \in AgentRunRecord, RecordOK(d), NEW k \in Steps,
         d.steps[k].status \notin {"SUCCEEDED", "PENDING", "CANCELLED"}
  PROVE  k = d.current_step
  <1>1. d.current_step \in Nat /\ k \in Nat
    BY StepsNonEmpty DEF AgentRunRecord
  <1>2. ~(k < d.current_step) /\ ~(k > d.current_step)
    BY DEF RecordOK, Placed
  <1> QED
    BY <1>1, <1>2

\* The end of authorize_run_step, and a reviewer's ALLOW.
LEMMA ReopenedMoves ==
  ASSUME m \in AgentRunRecord, NEW k \in Steps
  PROVE  /\ Reopened(k) \in AgentRunRecord
         /\ RecordOK(m) => Handled(m, Reopened(k))
  <1> DEFINE x == IF m.steps[k].status = "NEEDS_HUMAN" THEN transition_step(m, k, "READY") ELSE m
             n == Reopened(k)
  <1>1. "READY" \in AgentRunStepStatus /\ "SCHEDULED" \in AgentRunStatus
    BY DEF AgentRunStepStatus, AgentRunStatus
  <1>2. /\ x \in AgentRunRecord /\ x.status = m.status /\ x.current_step = m.current_step
        /\ x.lease = m.lease
        /\ \A j \in Steps : j # k => x.steps[j] = m.steps[j]
        /\ x.steps[k].attempt_count = m.steps[k].attempt_count
        /\ x.steps[k].status = IF m.steps[k].status = "NEEDS_HUMAN" THEN "READY"
                               ELSE m.steps[k].status
    BY <1>1, TransitionStep
  <1>3. n = IF m.status = "NEEDS_HUMAN" THEN transition_run(x, "SCHEDULED") ELSE x
    BY DEF Reopened
  <1> HIDE DEF x
  <1>4. /\ n \in AgentRunRecord /\ n.current_step = m.current_step /\ n.lease = m.lease
        /\ n.status = IF m.status = "NEEDS_HUMAN" THEN "SCHEDULED" ELSE m.status
        /\ n.steps = x.steps
    BY <1>1, <1>2, <1>3, TransitionRun DEF TERMINAL_RUN_STATUSES
  <1> HIDE DEF n
  <1>5. ASSUME RecordOK(m) PROVE Handled(m, n)
    <2> USE <1>5
    <2>1. /\ m.current_step \in Steps
          /\ m.steps[k].status = "NEEDS_HUMAN" => k = m.current_step
      BY OpenIsCurrent DEF AgentRunRecord
    <2>2. CurrentOK(n)
      BY <1>2, <1>4, <2>1 DEF RecordOK, CurrentOK
    <2>3. SamePlace(m, n)
      BY <1>2, <1>4 DEF SamePlace
    <2>4. Moves(m, n)
      BY <1>2, <1>4, <2>1, <2>2, <2>3, MovesCurrent
    <2>5. AcquiredRun(m) => AcquiredRun(n)
      BY <1>2, <1>4, <2>1 DEF AcquiredRun, TERMINAL_RUN_STATUSES
    <2> QED
      BY <2>4, <2>5 DEF Handled
  <1> QED
    BY <1>4, <1>5 DEF n

\* A reviewer's denial of an action of the current step.
LEMMA DeniedMoves ==
  ASSUME m \in AgentRunRecord, NEW k \in Steps
  PROVE  /\ Denied(k) \in AgentRunRecord
         /\ RecordOK(m) /\ k = m.current_step => Handled(m, Denied(k))
  <1> DEFINE x == IF m.steps[k].status = "NEEDS_HUMAN" THEN transition_step(m, k, "BLOCKED") ELSE m
             n == Denied(k)
  <1>1. "BLOCKED" \in AgentRunStepStatus /\ "BLOCKED" \in AgentRunStatus
    BY DEF AgentRunStepStatus, AgentRunStatus
  <1>2. /\ x \in AgentRunRecord /\ x.status = m.status /\ x.current_step = m.current_step
        /\ x.lease = m.lease
        /\ \A j \in Steps : j # k => x.steps[j] = m.steps[j]
        /\ x.steps[k].attempt_count = m.steps[k].attempt_count
        /\ x.steps[k].status = IF m.steps[k].status = "NEEDS_HUMAN" THEN "BLOCKED"
                               ELSE m.steps[k].status
    BY <1>1, TransitionStep
  <1>3. n = IF m.status = "NEEDS_HUMAN" THEN transition_run(x, "BLOCKED") ELSE x
    BY DEF Denied
  <1> HIDE DEF x
  <1>4. /\ n \in AgentRunRecord /\ n.current_step = m.current_step
        /\ n.lease = IF m.status = "NEEDS_HUMAN" THEN "none" ELSE m.lease
        /\ n.status = IF m.status = "NEEDS_HUMAN" THEN "BLOCKED" ELSE m.status
        /\ n.steps = x.steps
    BY <1>1, <1>2, <1>3, TransitionRun DEF TERMINAL_RUN_STATUSES
  <1> HIDE DEF n
  <1>5. ASSUME RecordOK(m), k = m.current_step PROVE Handled(m, n)
    <2> USE <1>5
    <2>1. CurrentOK(n)
      BY <1>2, <1>4 DEF RecordOK, CurrentOK
    <2>2. SamePlace(m, n)
      BY <1>2, <1>4 DEF SamePlace
    <2>3. Moves(m, n)
      BY <1>2, <1>4, <2>1, <2>2, MovesCurrent
    <2>4. AcquiredRun(m) => AcquiredRun(n)
      BY <1>2, <1>4 DEF AcquiredRun, TERMINAL_RUN_STATUSES, RecordOK, CurrentOK
    <2> QED
      BY <2>3, <2>4 DEF Handled
  <1> QED
    BY <1>4, <1>5 DEF n

\* A result that did not pass: the step alone, and the step with its run.
LEMMA FailureMoves ==
  ASSUME NEW d \in AgentRunRecord, NEW k \in Steps,
         NEW decision \in VerificationDecision \ {"PASS"}
  PROVE  LET target == FailureTarget(d, k, decision)
             x == transition_step(d, k, target)
             n == ReleaseLease(transition_run(x, target))
         IN  /\ x \in AgentRunRecord /\ n \in AgentRunRecord
             /\ (/\ RecordOK(d) /\ k = d.current_step /\ d.steps[k].status # "SUCCEEDED"
                 /\ can_transition_step(d.steps[k].status, target))
                   => Moves(d, x) /\ Moves(d, n)
  <1> DEFINE target == FailureTarget(d, k, decision)
             x == transition_step(d, k, target)
             r == transition_run(x, target)
             n == ReleaseLease(r)
  <1>1. target \in {"RETRY_WAIT", "NEEDS_HUMAN", "BLOCKED", "FAILED"}
    BY DEF FailureTarget, VerificationDecision
  <1> HIDE DEF target
  <1>2. target \in AgentRunStepStatus /\ target \in AgentRunStatus
    BY <1>1 DEF AgentRunStepStatus, AgentRunStatus
  <1>3. /\ x \in AgentRunRecord /\ x.status = d.status /\ x.current_step = d.current_step
        /\ \A j \in Steps : j # k => x.steps[j] = d.steps[j]
        /\ x.steps[k].attempt_count = d.steps[k].attempt_count
        /\ x.steps[k].status = target
    BY <1>1, <1>2, TransitionStep
  <1> HIDE DEF x
  <1>4. /\ n \in AgentRunRecord /\ n.current_step = d.current_step /\ n.status = target
        /\ n.steps = x.steps
    <2>1. r \in AgentRunRecord /\ r.current_step = x.current_step /\ r.status = target
          /\ r.steps = x.steps
      BY <1>2, <1>3, TransitionRun
    <2> HIDE DEF r
    <2> QED
      BY <1>3, <2>1, Released
  <1> HIDE DEF n
  <1>5. ASSUME RecordOK(d), k = d.current_step, d.steps[k].status # "SUCCEEDED",
               can_transition_step(d.steps[k].status, target)
        PROVE  Moves(d, x) /\ Moves(d, n)
    <2> USE <1>5
    <2>1. d.steps[k].status \in AgentRunStepStatus
      BY DEF AgentRunRecord, AgentRunStep
    <2>2. target = "RETRY_WAIT" => d.status # "NEEDS_HUMAN"
      BY <2>1 DEF can_transition_step, STEP_TRANSITIONS, RecordOK, CurrentOK, AgentRunStepStatus
    <2>3. CurrentOK(x) /\ CurrentOK(n)
      BY <1>1, <1>3, <1>4, <2>2 DEF RecordOK, CurrentOK
    <2>4. SamePlace(d, x) /\ SamePlace(d, n)
      BY <1>3, <1>4 DEF SamePlace
    <2> QED
      BY <1>1, <1>3, <1>4, <2>3, <2>4, MovesCurrent
  <1> QED
    BY <1>3, <1>4, <1>5 DEF n, x, target

\* recover_stale_leases, for a run whose lease has expired.
LEMMA RecoverMoves ==
  ASSUME NEW d \in AgentRunRecord
  PROVE  /\ RecoverRun(d) \in AgentRunRecord
         /\ RecordOK(d) /\ d.lease = "expired" => Handled(d, RecoverRun(d))
  <1> DEFINE k == d.current_step
             target == IF d.steps[k].attempt_count < MaxAttempts
                       THEN "RETRY_WAIT" ELSE "NEEDS_HUMAN"
             x == transition_step(d, k, target)
             y == IF target = "RETRY_WAIT" THEN RetryDue(x, k) ELSE x
             r == IF d.status = "RUNNING" \/ (d.status = "RETRY_WAIT" /\ target = "NEEDS_HUMAN")
                  THEN transition_run(y, target) ELSE y
             n == RecoverRun(d)
  <1>1. k \in Steps /\ target \in AgentRunStepStatus /\ target \in AgentRunStatus
    BY DEF AgentRunRecord, AgentRunStepStatus, AgentRunStatus
  <1>2. target \in {"RETRY_WAIT", "NEEDS_HUMAN"}
    OBVIOUS
  <1>3. n = IF d.steps[k].status = "RUNNING" THEN ReleaseLease(r) ELSE ReleaseLease(d)
    BY DEF RecoverRun
  <1> HIDE DEF target
  <1>4. /\ x \in AgentRunRecord /\ x.status = d.status /\ x.current_step = d.current_step
        /\ \A j \in Steps : j # k => x.steps[j] = d.steps[j]
        /\ x.steps[k].attempt_count = d.steps[k].attempt_count
        /\ x.steps[k].status = target
    BY <1>1, <1>2, TransitionStep
  <1> HIDE DEF x
  <1>5. /\ y \in AgentRunRecord /\ y.status = d.status /\ y.current_step = d.current_step
        /\ \A j \in Steps : j # k => y.steps[j] = d.steps[j]
        /\ y.steps[k].attempt_count = d.steps[k].attempt_count
        /\ y.steps[k].status = target
    BY <1>1, <1>4, SetDue
  <1> HIDE DEF y
  <1>6. /\ r \in AgentRunRecord /\ r.current_step = k /\ r.steps = y.steps
        /\ d.status = "RUNNING" => r.status = target
    BY <1>1, <1>5, TransitionRun
  <1> HIDE DEF r
  <1>7. n \in AgentRunRecord
    BY <1>3, <1>6, Released
  <1>8. ASSUME RecordOK(d), d.lease = "expired" PROVE Handled(d, n)
    <2> USE <1>8
    <2>1. CASE d.steps[k].status = "RUNNING"
      <3>1. d.status = "RUNNING"
        BY <2>1 DEF RecordOK, CurrentOK
      <3>2. n.status = target /\ n.current_step = k /\ n.steps = y.steps
        BY <1>3, <1>6, <2>1, <3>1, Released
      <3> HIDE DEF n
      <3>3. CurrentOK(n)
        BY <1>2, <1>5, <3>2 DEF CurrentOK
      <3>4. SamePlace(d, n)
        BY <1>5, <3>2 DEF SamePlace
      <3> QED
        BY <1>2, <1>5, <1>7, <2>1, <3>2, <3>3, <3>4, MovesCurrent DEF Handled, AcquiredRun
    <2>2. CASE d.steps[k].status # "RUNNING"
      <3>1. n.status = d.status /\ n.current_step = k /\ n.steps = d.steps
        BY <1>3, <2>2, Released
      <3> HIDE DEF n
      <3>2. CurrentOK(n)
        BY <3>1 DEF CurrentOK, RecordOK
      <3> QED
        BY <1>7, <3>1, <3>2, RunOnly DEF Handled, AcquiredRun
    <2> QED
      BY <2>1, <2>2
  <1> QED
    BY <1>7, <1>8 DEF n

\* pause_agent_run, and the flag that a refused pause leaves in memory.
LEMMA PauseMoves ==
  ASSUME NEW d \in AgentRunRecord,
         NEW n \in {pause_agent_run(d), [d EXCEPT !.pause_requested = TRUE]}
  PROVE  /\ n \in AgentRunRecord
         /\ RecordOK(d) /\ Live(d) /\ StepBoundary(d) => Handled(d, n)
  <1> DEFINE x == [d EXCEPT !.pause_requested = TRUE]
  <1>1. /\ x \in AgentRunRecord /\ x.status = d.status /\ x.steps = d.steps
        /\ x.current_step = d.current_step
    BY DEF AgentRunRecord
  <1>2. "PAUSED" \in AgentRunStatus
    BY DEF AgentRunStatus
  <1>3. n = x \/ n = transition_run(x, "PAUSED")
    BY DEF pause_agent_run
  <1> HIDE DEF x
  <1>4. /\ n \in AgentRunRecord /\ n.status \in {d.status, "PAUSED"} /\ n.steps = d.steps
        /\ n.current_step = d.current_step
    BY <1>1, <1>2, <1>3, TransitionRun
  <1>5. ASSUME RecordOK(d), Live(d), StepBoundary(d) PROVE Handled(d, n)
    <2>1. CurrentOK(n)
      BY <1>4, <1>5 DEF RecordOK, CurrentOK, StepBoundary
    <2>2. Moves(d, n)
      BY <1>4, <1>5, <2>1, RunOnly
    <2> QED
      BY <1>5, <2>2 DEF Handled, AcquiredRun, Live, StepBoundary
  <1> QED
    BY <1>4, <1>5

\* resume_agent_run.
LEMMA ResumeMoves ==
  ASSUME NEW d \in AgentRunRecord
  PROVE  /\ resume_agent_run(d) \in AgentRunRecord
         /\ RecordOK(d) /\ d.status \in {"PAUSED", "NEEDS_HUMAN", "RETRY_WAIT"}
               => Handled(d, resume_agent_run(d))
  <1> DEFINE k == d.current_step
             waits == d.steps[k].status \in {"PAUSED", "NEEDS_HUMAN", "RETRY_WAIT"}
             x == IF waits THEN transition_step(d, k, "READY") ELSE d
             y == [x EXCEPT !.pause_requested = FALSE, !.resumes = @ + 1]
             n == resume_agent_run(d)
  <1>1. k \in Steps /\ "READY" \in AgentRunStepStatus /\ "SCHEDULED" \in AgentRunStatus
    BY DEF AgentRunRecord, AgentRunStepStatus, AgentRunStatus
  <1>2. n = transition_run(y, "SCHEDULED")
    BY DEF resume_agent_run
  <1>3. /\ x \in AgentRunRecord /\ x.current_step = k /\ x.lease = d.lease
        /\ \A j \in Steps : j # k => x.steps[j] = d.steps[j]
        /\ x.steps[k].attempt_count = d.steps[k].attempt_count
        /\ x.steps[k].status = IF waits THEN "READY" ELSE d.steps[k].status
    BY <1>1, TransitionStep
  <1> HIDE DEF x
  <1>4. y \in AgentRunRecord /\ y.current_step = k /\ y.lease = d.lease /\ y.steps = x.steps
    <2>1. x.resumes \in Nat
      BY <1>3 DEF AgentRunRecord
    <2>2. x.resumes + 1 \in Nat
      BY <2>1
    <2> HIDE DEF k
    <2> QED
      BY <1>3, <2>2 DEF AgentRunRecord
  <1> HIDE DEF y
  <1>5. /\ n \in AgentRunRecord /\ n.status = "SCHEDULED" /\ n.current_step = k
        /\ n.lease = d.lease /\ n.steps = x.steps
    BY <1>1, <1>2, <1>4, TransitionRun DEF TERMINAL_RUN_STATUSES
  <1> HIDE DEF n
  <1>6. ASSUME RecordOK(d), d.status \in {"PAUSED", "NEEDS_HUMAN", "RETRY_WAIT"}
        PROVE  Handled(d, n)
    <2>1. CurrentOK(n)
      BY <1>3, <1>5, <1>6 DEF RecordOK, CurrentOK
    <2>2. SamePlace(d, n)
      BY <1>3, <1>5 DEF SamePlace
    <2>3. Moves(d, n)
      BY <1>3, <1>5, <1>6, <2>1, <2>2, MovesCurrent
    <2> QED
      BY <1>5, <1>6, <2>3 DEF Handled, AcquiredRun, TERMINAL_RUN_STATUSES
  <1> QED
    BY <1>5, <1>6 DEF n

\* retry_agent_run_step: only the current step can be retried.
LEMMA RetryMoves ==
  ASSUME NEW d \in AgentRunRecord, NEW k \in Steps
  PROVE  /\ retry_agent_run_step(d, k) \in AgentRunRecord
         /\ (RecordOK(d) /\ Live(d) /\ d.steps[k].status \in {"RETRY_WAIT", "NEEDS_HUMAN"})
               => Handled(d, retry_agent_run_step(d, k))
  <1> DEFINE x == transition_step(d, k, "READY")
             y == [x EXCEPT !.current_step = k, !.pause_requested = FALSE]
             n == retry_agent_run_step(d, k)
  <1>1. "READY" \in AgentRunStepStatus /\ "SCHEDULED" \in AgentRunStatus
    BY DEF AgentRunStepStatus, AgentRunStatus
  <1>2. n = IF d.status \in {"NEEDS_HUMAN", "RETRY_WAIT"} THEN transition_run(y, "SCHEDULED") ELSE y
    BY DEF retry_agent_run_step
  <1>3. /\ x \in AgentRunRecord /\ x.status = d.status /\ x.lease = d.lease
        /\ \A j \in Steps : j # k => x.steps[j] = d.steps[j]
        /\ x.steps[k].attempt_count = d.steps[k].attempt_count
        /\ x.steps[k].status = "READY"
    BY <1>1, TransitionStep
  <1> HIDE DEF x
  <1>4. /\ y \in AgentRunRecord /\ y.status = d.status /\ y.current_step = k
        /\ y.lease = d.lease /\ y.steps = x.steps
    BY <1>3 DEF AgentRunRecord
  <1> HIDE DEF y
  <1>5. /\ n \in AgentRunRecord /\ n.current_step = k /\ n.lease = d.lease /\ n.steps = x.steps
        /\ n.status = IF d.status \in {"NEEDS_HUMAN", "RETRY_WAIT"} THEN "SCHEDULED" ELSE d.status
    BY <1>1, <1>2, <1>4, TransitionRun DEF TERMINAL_RUN_STATUSES
  <1> HIDE DEF n
  <1>6. ASSUME RecordOK(d), Live(d), d.steps[k].status \in {"RETRY_WAIT", "NEEDS_HUMAN"}
        PROVE  Handled(d, n)
    <2>1. k = d.current_step
      BY <1>6, OpenIsCurrent
    <2>2. CurrentOK(n)
      BY <1>3, <1>5, <1>6, <2>1 DEF RecordOK, CurrentOK
    <2>3. SamePlace(d, n)
      BY <1>3, <1>5, <2>1 DEF SamePlace
    <2>4. Moves(d, n)
      BY <1>3, <1>5, <1>6, <2>1, <2>2, <2>3, MovesCurrent
    <2> QED
      BY <1>5, <1>6, <2>4 DEF Handled, AcquiredRun, Live
  <1> QED
    BY <1>5, <1>6 DEF n

\* The clock passes the next_retry_at of a step.
LEMMA DueMoves ==
  ASSUME NEW d \in AgentRunRecord, NEW k \in Steps
  PROVE  /\ RetryDue(d, k) \in AgentRunRecord
         /\ RecordOK(d) => Handled(d, RetryDue(d, k))
  <1> DEFINE n == RetryDue(d, k)
  <1>1. /\ n \in AgentRunRecord /\ n.status = d.status /\ n.current_step = d.current_step
        /\ n.lease = d.lease /\ d.current_step \in Steps
        /\ \A j \in Steps : /\ n.steps[j].status = d.steps[j].status
                            /\ n.steps[j].attempt_count = d.steps[j].attempt_count
    <2>1. d.current_step \in Steps
      BY DEF AgentRunRecord
    <2>2. /\ n \in AgentRunRecord /\ n.status = d.status /\ n.current_step = d.current_step
          /\ n.lease = d.lease
          /\ \A j \in Steps : j # k => n.steps[j] = d.steps[j]
          /\ n.steps[k].status = d.steps[k].status
          /\ n.steps[k].attempt_count = d.steps[k].attempt_count
      BY SetDue
    <2> HIDE DEF n
    <2> QED
      BY <2>1, <2>2
  <1> HIDE DEF n
  <1>2. ASSUME RecordOK(d) PROVE Handled(d, n)
    <2>1. CurrentOK(n) /\ SamePlace(d, n)
      BY <1>1, <1>2 DEF RecordOK, CurrentOK, SamePlace
    <2>2. Moves(d, n)
      BY <1>1, <1>2, <2>1, MovesCurrent
    <2> QED
      BY <1>1, <2>2 DEF Handled, AcquiredRun
  <1> QED
    BY <1>1, <1>2 DEF n

\* cancel_agent_run: every step that has not ended is cancelled.
LEMMA CancelMoves ==
  ASSUME NEW d \in AgentRunRecord
  PROVE  /\ cancel_agent_run(d) \in AgentRunRecord
         /\ RecordOK(d) /\ Live(d) /\ StepBoundary(d) => Handled(d, cancel_agent_run(d))
  <1> DEFINE g == [j \in Steps |-> IF d.steps[j].status \in TERMINAL_STEP_STATUSES THEN d.steps[j]
                                   ELSE [d.steps[j] EXCEPT !.status = "CANCELLED", !.due = FALSE]]
             x == [d EXCEPT !.steps = g]
             n == cancel_agent_run(d)
  <1>1. "CANCELLED" \in AgentRunStepStatus /\ "CANCELLED" \in AgentRunStatus
    BY DEF AgentRunStepStatus, AgentRunStatus
  <1>2. n = transition_run(x, "CANCELLED")
    BY DEF cancel_agent_run
  <1>3. /\ g \in [Steps -> AgentRunStep]
        /\ \A j \in Steps :
             /\ g[j].attempt_count = d.steps[j].attempt_count
             /\ g[j].status = IF d.steps[j].status \in TERMINAL_STEP_STATUSES
                              THEN d.steps[j].status ELSE "CANCELLED"
    BY <1>1 DEF AgentRunRecord, AgentRunStep
  <1> HIDE DEF g
  <1>4. x \in AgentRunRecord /\ x.current_step = d.current_step /\ x.steps = g
    BY <1>3 DEF AgentRunRecord
  <1> HIDE DEF x
  <1>5. /\ n \in AgentRunRecord /\ n.status = "CANCELLED" /\ n.current_step = d.current_step
        /\ n.steps = g
    BY <1>1, <1>2, <1>4, TransitionRun
  <1> HIDE DEF n
  <1>6. ASSUME RecordOK(d), Live(d), StepBoundary(d) PROVE Handled(d, n)
    <2>1. d.current_step \in Steps
      BY DEF AgentRunRecord
    <2>2. CurrentOK(n)
      BY <1>3, <1>5, <2>1 DEF CurrentOK, TERMINAL_STEP_STATUSES
    <2>3. SamePlace(d, n)
      BY <1>3, <1>5 DEF SamePlace
    <2>4. Placed(n)
      <3>1. \A j \in Steps : j < n.current_step => n.steps[j].status = "SUCCEEDED"
        BY <1>3, <1>5, <1>6 DEF RecordOK, Placed, TERMINAL_STEP_STATUSES
      <3>2. \A j \in Steps : j > n.current_step => n.steps[j].status = "CANCELLED"
        BY <1>3, <1>5, <1>6 DEF RecordOK, Placed, TERMINAL_STEP_STATUSES
      <3> QED
        BY <3>1, <3>2 DEF Placed
    <2>5. Moves(d, n)
      BY <1>3, <1>5, <2>2, <2>3, <2>4 DEF Moves, RecordOK, TERMINAL_STEP_STATUSES
    <2> QED
      BY <1>6, <2>5 DEF Handled, AcquiredRun, Live, StepBoundary
  <1> QED
    BY <1>5, <1>6 DEF n

\* execute_next_step starts the current step of the run that was acquired.
LEMMA StartMoves ==
  ASSUME NEW d \in AgentRunRecord, NEW k \in Steps
  PROVE  LET n == StartStep(d, k) IN
         /\ n \in AgentRunRecord
         /\ (RecordOK(d) /\ AcquiredRun(d) /\ ready_step(d, k)) =>
              /\ RecordOK(n) /\ k = d.current_step /\ n.current_step = k
              /\ d.steps[k].status \in {"READY", "RETRY_WAIT"} /\ n.steps[k].status = "RUNNING"
              /\ n.steps[k].attempt_count = d.steps[k].attempt_count + 1
              /\ \A j \in Steps : j # k => n.steps[j] = d.steps[j]
  <1> DEFINE x == transition_step(d, k, "RUNNING")
             n == StartStep(d, k)
  <1>1. "RUNNING" \in AgentRunStepStatus /\ "RUNNING" \in AgentRunStatus
    BY DEF AgentRunStepStatus, AgentRunStatus
  <1>2. n = [x EXCEPT !.current_step = k,
               !.status = IF x.status \in {"SCHEDULED", "RETRY_WAIT"} THEN "RUNNING" ELSE x.status]
    BY DEF StartStep
  <1>3. /\ x \in AgentRunRecord /\ x.status = d.status
        /\ \A j \in Steps : j # k => x.steps[j] = d.steps[j]
        /\ x.steps[k].status = "RUNNING"
        /\ d.steps[k].status # "RUNNING" =>
             x.steps[k].attempt_count = d.steps[k].attempt_count + 1
    BY <1>1, TransitionStep
  <1> HIDE DEF x
  <1>4. /\ n \in AgentRunRecord /\ n.current_step = k /\ n.steps = x.steps
        /\ n.status = IF d.status \in {"SCHEDULED", "RETRY_WAIT"} THEN "RUNNING" ELSE d.status
    BY <1>1, <1>2, <1>3 DEF AgentRunRecord
  <1> HIDE DEF n
  <1>5. ASSUME RecordOK(d), AcquiredRun(d), ready_step(d, k)
        PROVE  /\ RecordOK(n) /\ k = d.current_step
               /\ d.steps[k].status \in {"READY", "RETRY_WAIT"}
    <2>1. d.steps[k].status \in {"READY", "RETRY_WAIT"}
      BY <1>5 DEF ready_step
    <2>2. k = d.current_step
      BY <1>5, <2>1, OpenIsCurrent
    <2>3. n.status = "RUNNING"
      BY <1>4, <1>5, <2>1, <2>2 DEF AcquiredRun, RecordOK, CurrentOK
    <2>4. CurrentOK(n)
      BY <1>3, <1>4, <2>3 DEF CurrentOK
    <2>5. Placed(n)
      <3>1. /\ \A j \in Steps : j < k => j # k
            /\ \A j \in Steps : j > k => j # k
        BY StepsNonEmpty
      <3>2. Placed(d)
        BY <1>5 DEF RecordOK
      <3> QED
        BY <1>3, <1>4, <2>2, <3>1, <3>2 DEF Placed
    <2> QED
      BY <2>1, <2>2, <2>4, <2>5 DEF RecordOK
  <1> QED
    BY <1>3, <1>4, <1>5 DEF n

\* Only a RUNNING step can pass.
LEMMA PassesRunning ==
  ASSUME NEW d \in AgentRunRecord, NEW k \in Steps, d.steps[k].status # "SUCCEEDED",
         can_transition_step(d.steps[k].status, "SUCCEEDED")
  PROVE  d.steps[k].status = "RUNNING"
  <1>1. d.steps[k].status \in AgentRunStepStatus
    BY DEF AgentRunRecord, AgentRunStep
  <1> QED
    BY <1>1 DEF can_transition_step, STEP_TRANSITIONS, AgentRunStepStatus

(* n is d after its current step k, which was RUNNING, passed.             *)
Passes(d, n, k) ==
    /\ RecordOK(n) /\ n.steps[k].status = "SUCCEEDED"
    /\ \A j \in Steps : n.steps[j].attempt_count = d.steps[j].attempt_count
    /\ \A j \in Steps : n.steps[j].status # "RUNNING"
    /\ \A j \in Steps \ {k} : n.steps[j].status = "SUCCEEDED" <=> d.steps[j].status = "SUCCEEDED"

\* A step that is not the last one has a successor.
LEMMA StepBetween == ASSUME NEW k \in Steps, NEW i \in Steps, i > k PROVE k + 1 \in Steps
  BY StepCountAssumption DEF Steps

\* The next step becomes ready and current.
LEMMA PassNextMoves ==
  ASSUME NEW d \in AgentRunRecord, NEW k \in Steps, NEW i \in Steps
  PROVE  /\ PassToNext(d, k, i) \in AgentRunRecord
         /\ (/\ RecordOK(d) /\ k = d.current_step /\ d.steps[k].status = "RUNNING"
             /\ IsNextPending(transition_step(d, k, "SUCCEEDED"), k, i))
               => Passes(d, PassToNext(d, k, i), k)
  <1> DEFINE x == transition_step(d, k, "SUCCEEDED")
             y == transition_step(x, i, "READY")
             z == [y EXCEPT !.current_step = i, !.status = "RUNNING"]
             n == PassToNext(d, k, i)
  <1>1. {"SUCCEEDED", "READY"} \subseteq AgentRunStepStatus /\ "RUNNING" \in AgentRunStatus
    BY DEF AgentRunStepStatus, AgentRunStatus
  <1>2. n = ReleaseLease(z)
    BY DEF PassToNext
  <1>3. /\ x \in AgentRunRecord
        /\ \A j \in Steps : j # k => x.steps[j] = d.steps[j]
        /\ x.steps[k].status = "SUCCEEDED"
        /\ x.steps[k].attempt_count = d.steps[k].attempt_count
    BY <1>1, TransitionStep
  <1> HIDE DEF x
  <1>4. /\ y \in AgentRunRecord
        /\ \A j \in Steps : j # i => y.steps[j] = x.steps[j]
        /\ y.steps[i].status = "READY"
        /\ y.steps[i].attempt_count = x.steps[i].attempt_count
    BY <1>1, <1>3, TransitionStep
  <1> HIDE DEF y
  <1>5. z \in AgentRunRecord /\ z.current_step = i /\ z.status = "RUNNING" /\ z.steps = y.steps
    BY <1>1, <1>4 DEF AgentRunRecord
  <1> HIDE DEF z
  <1>6. n \in AgentRunRecord /\ n.current_step = i /\ n.status = "RUNNING" /\ n.steps = y.steps
    BY <1>2, <1>5, Released
  <1> HIDE DEF n
  <1>7. ASSUME RecordOK(d), k = d.current_step, d.steps[k].status = "RUNNING",
               IsNextPending(x, k, i)
        PROVE  Passes(d, n, k)
    <2> USE <1>7
    <2>0. Steps \subseteq Nat
      BY StepsNonEmpty
    <2>1. i > k /\ i # k /\ x.steps[i].status = "PENDING"
      BY <2>0 DEF IsNextPending
    <2>2. \A j \in Steps : j > k => d.steps[j].status = "PENDING"
      <3>1. d.steps[i].status = "PENDING"
        BY <1>3, <2>1
      <3> QED
        BY <2>1, <3>1 DEF RecordOK, Placed
    <2>3. \A j \in Steps : j < k => d.steps[j].status = "SUCCEEDED"
      BY DEF RecordOK, Placed
    <2>4. i = k + 1
      <3>1. k + 1 \in Steps
        BY <2>1, StepBetween
      <3>2. i # k + 1 => k + 1 \in (k + 1) .. (i - 1)
        BY <2>0, <2>1
      <3>3. x.steps[k + 1].status = "PENDING"
        BY <1>3, <2>0, <2>2, <3>1
      <3> QED
        BY <3>2, <3>3 DEF IsNextPending
    <2>5. /\ \A j \in Steps : j < i => j = k \/ j < k
          /\ \A j \in Steps : j > i => j > k /\ j # i /\ j # k
          /\ \A j \in Steps : j < i => j # i
          /\ \A j \in Steps : j < k => j # k
      BY <2>0, <2>4
    <2>6. Placed(n)
      <3>1. \A j \in Steps : j < i => n.steps[j].status = "SUCCEEDED"
        BY <1>3, <1>4, <1>6, <2>3, <2>5
      <3>2. \A j \in Steps : j > i => n.steps[j].status = "PENDING"
        BY <1>3, <1>4, <1>6, <2>2, <2>5
      <3> QED
        BY <1>6, <3>1, <3>2 DEF Placed
    <2>7. CurrentOK(n)
      BY <1>4, <1>6 DEF CurrentOK
    <2>8. \A j \in Steps : j # k => d.steps[j].status # "RUNNING"
      BY OpenIsCurrent
    <2>9. \A j \in Steps : n.steps[j].attempt_count = d.steps[j].attempt_count
      BY <1>3, <1>4, <1>6
    <2>10. \A j \in Steps : n.steps[j].status # "RUNNING"
      BY <1>3, <1>4, <1>6, <2>8
    <2>11. \A j \in Steps \ {k} : n.steps[j].status = "SUCCEEDED" <=> d.steps[j].status = "SUCCEEDED"
      BY <1>3, <1>4, <1>6, <2>1
    <2>12. n.steps[k].status = "SUCCEEDED"
      BY <1>3, <1>4, <1>6, <2>1
    <2> QED
      BY <2>6, <2>7, <2>9, <2>10, <2>11, <2>12 DEF Passes, RecordOK
  <1> QED
    BY <1>6, <1>7 DEF n, x

\* The last step passes, and the run with it.
LEMMA PassLastMoves ==
  ASSUME NEW d \in AgentRunRecord, NEW k \in Steps
  PROVE  LET x == transition_step(d, k, "SUCCEEDED")
             n == ReleaseLease(transition_run(x, "SUCCEEDED"))
         IN  /\ x \in AgentRunRecord /\ n \in AgentRunRecord
             /\ (RecordOK(d) /\ k = d.current_step /\ d.steps[k].status = "RUNNING")
                  => Passes(d, n, k) /\ can_transition_run(d.status, "SUCCEEDED")
  <1> DEFINE x == transition_step(d, k, "SUCCEEDED")
             r == transition_run(x, "SUCCEEDED")
             n == ReleaseLease(r)
  <1>1. "SUCCEEDED" \in AgentRunStepStatus /\ "SUCCEEDED" \in AgentRunStatus
    BY DEF AgentRunStepStatus, AgentRunStatus
  <1>2. /\ x \in AgentRunRecord /\ x.current_step = d.current_step
        /\ \A j \in Steps : j # k => x.steps[j] = d.steps[j]
        /\ x.steps[k].status = "SUCCEEDED"
        /\ x.steps[k].attempt_count = d.steps[k].attempt_count
    BY <1>1, TransitionStep
  <1> HIDE DEF x
  <1>3. r \in AgentRunRecord /\ r.current_step = d.current_step /\ r.status = "SUCCEEDED"
        /\ r.steps = x.steps
    BY <1>1, <1>2, TransitionRun
  <1> HIDE DEF r
  <1>4. n \in AgentRunRecord /\ n.current_step = d.current_step /\ n.status = "SUCCEEDED"
        /\ n.steps = x.steps
    BY <1>3, Released
  <1> HIDE DEF n
  <1>5. ASSUME RecordOK(d), k = d.current_step, d.steps[k].status = "RUNNING"
        PROVE  Passes(d, n, k) /\ can_transition_run(d.status, "SUCCEEDED")
    <2> USE <1>5
    <2>1. can_transition_run(d.status, "SUCCEEDED")
      BY DEF RecordOK, CurrentOK, can_transition_run, RUN_TRANSITIONS
    <2>2. CurrentOK(n)
      BY <1>2, <1>4 DEF CurrentOK
    <2>3. Placed(n)
      <3>1. /\ \A j \in Steps : j < k => j # k
            /\ \A j \in Steps : j > k => j # k
        BY StepsNonEmpty
      <3>2. Placed(d)
        BY DEF RecordOK
      <3> QED
        BY <1>2, <1>4, <3>1, <3>2 DEF Placed
    <2>4. \A j \in Steps : j # k => d.steps[j].status # "RUNNING"
      BY OpenIsCurrent
    <2> QED
      BY <1>2, <1>4, <2>1, <2>2, <2>3, <2>4 DEF Passes, RecordOK
  <1> QED
    BY <1>2, <1>4, <1>5 DEF n, r, x

----------------------------------------------------------------------------
(* The durations.                                                          *)

SecondsOK == \A k \in Steps : ran[k].seconds \in Nat

(* The duration of a step that passed does not change any more.            *)
RanKept == \A k \in Steps : m.steps[k].status = "SUCCEEDED" => ran'[k] = ran[k]

\* Only the pass of a step is stamped.
LEMMA RanStep ==
  ASSUME [GovernedNext]_governedVars
  PROVE  \/ ran' = ran
         \/ \E t \in Threads, seconds \in Durations : ran' = Stamped(t, seconds)
  <1>1. ASSUME NEW t \in Threads, RequestStep(t)
        PROVE  ran' = ran \/ \E seconds \in Durations : ran' = Stamped(t, seconds)
    <2>1. enter_request(t) \/ leave_request(t) \/ consume_run_step_actions(t) => ran' = ran
      BY DEF enter_request, leave_request, consume_run_step_actions
    <2>2. (\E timeout \in Timeouts : validate_lease_for_run(t, timeout)) => Frame
      BY DEF validate_lease_for_run
    <2>3. \/ ensure_run_capability(t) \/ refuse_request(t) \/ authorize_action(t)
          \/ authorized(t) \/ acquire_lease(t) \/ late_result(t) \/ release_lease(t)
          => Frame
      BY DEF ensure_run_capability, refuse_request, authorize_action, authorized,
             acquire_lease, late_result, release_lease
    <2>4. Frame => ran' = ran
      BY DEF Frame
    <2>5. execute_step(t) => \E seconds \in Durations : ran' = Stamped(t, seconds)
      BY Zenon DEF execute_step
    <2> QED
      BY <1>1, <2>1, <2>2, <2>3, <2>4, <2>5, Zenon DEF RequestStep
  <1>2. SupervisorStep \/ TrustStep \/ Restart => ran' = ran
    BY DEF SupervisorStep, TrustStep, Restart, Frame, attach_capability_lease,
           end_capability_lease, record_action_authorization
  <1>3. UNCHANGED governedVars => ran' = ran
    BY DEF governedVars
  <1> QED
    BY <1>1, <1>2, <1>3, Zenon DEF GovernedNext

LEMMA DurationsKept ==
  ASSUME [GovernedNext]_governedVars
  PROVE  RanKept
  <1>1. ASSUME NEW t, NEW seconds, ran' = Stamped(t, seconds) PROVE RanKept
    BY <1>1 DEF Stamped, RanKept
  <1>2. ran' = ran => RanKept
    BY DEF RanKept
  <1> QED
    BY <1>1, <1>2, RanStep

\* A duration is a number.
LEMMA SecondsStep == SecondsOK /\ [GovernedNext]_governedVars => SecondsOK'
  <1> SUFFICES ASSUME SecondsOK, [GovernedNext]_governedVars PROVE SecondsOK'
    OBVIOUS
  <1>1. ASSUME NEW t \in Threads, NEW seconds \in Durations, ran' = Stamped(t, seconds)
        PROVE  SecondsOK'
    <2>1. seconds \in Nat
      BY GovernedAssumption
    <2> QED
      BY <1>1, <2>1 DEF SecondsOK, Stamped
  <1> QED
    BY <1>1, RanStep DEF SecondsOK

THEOREM SecondsInvariance == GovernedSpec => []SecondsOK
  <1>1. GovernedInit => SecondsOK
    BY DEF GovernedInit, SecondsOK
  <1> QED
    BY <1>1, SecondsStep, PTL DEF GovernedSpec

----------------------------------------------------------------------------
(* What the rest of the system does to these records.                      *)

RequestRecord ==
    [at : {"idle", "start", "attached", "authorize", "execute", "consume", "done"},
     step : Steps, attempt : 0 .. AttemptBound, timeout : Timeouts \cup {0}, next : Nat]

CapabilityRecord ==
    [status : {"none", "ACTIVE", "ENDED"}, strict : BOOLEAN,
     runtime : 0 .. MaxRuntime, retries : 0 .. MaxRetries]

ActionTable ==
    [ActionId -> [decision : {"none", "REQUIRE_APPROVAL", "ALLOW", "BLOCK"},
                  timeout : Timeouts \cup {0}]]

\* The types of the records.
LEMMA TypeUse ==
  ASSUME RecordsOK
  PROVE  /\ Run \in Runs /\ Runs = {Run} /\ m \in AgentRunRecord /\ disk[Run] \in AgentRunRecord
         /\ mem \in [Runs -> AgentRunRecord] /\ disk \in [Runs -> AgentRunRecord]
         /\ thread \in [Threads -> ThreadRecord] /\ taskReady \in BOOLEAN
         /\ request \in [Threads -> RequestRecord]
         /\ lease \in CapabilityRecord /\ actions \in ActionTable
         /\ holders \subseteq Threads /\ consumed \subseteq ActionId
  <1>1. Runs = {Run}
    BY GovernedAssumption
  <1> QED
    BY <1>1 DEF RecordsOK, TypeOK, m, RequestRecord, CapabilityRecord, ActionTable

\* And back again, after a step.
LEMMA TypeMake ==
  ASSUME mem' \in [Runs -> AgentRunRecord], disk' \in [Runs -> AgentRunRecord],
         thread' \in [Threads -> ThreadRecord], taskReady' \in BOOLEAN,
         request' \in [Threads -> RequestRecord],
         lease' \in CapabilityRecord, actions' \in ActionTable,
         holders' \subseteq Threads, consumed' \subseteq ActionId, LockInv'
  PROVE  RecordsOK'
  BY DEF RecordsOK, TypeOK, LockInv, RequestRecord, CapabilityRecord, ActionTable

\* The name of an action that is looked up.
LEMMA ActionName ==
  ASSUME NEW k \in Steps, NEW n \in 1 .. AttemptBound, NEW i \in 1 .. ActionCount[k]
  PROVE  <<k, n, i>> \in ActionId
  BY DEF ActionId

(* An action once allowed stays allowed.                                   *)
AllowKept(acts, new) ==
    \A a \in ActionId : acts[a].decision = "ALLOW" => new[a].decision = "ALLOW"

\* So does a list of them.
LEMMA AllowedKept ==
  ASSUME NEW acts, NEW new, AllowKept(acts, new), NEW k \in Steps,
         NEW attempt \in 1 .. AttemptBound, NEW n \in Nat, n <= ActionCount[k],
         Allowed(acts, k, attempt, n)
  PROVE  Allowed(new, k, attempt, n)
  <1>1. ActionCount[k] \in Nat
    BY GovernedAssumption
  <1>2. \A i \in 1 .. n : <<k, attempt, i>> \in ActionId
    BY <1>1, ActionName
  <1> QED
    BY <1>2 DEF Allowed, AllowKept

\* A handler that starts no step keeps the RUNNING steps allowed.
LEMMA RunningKept ==
  ASSUME NEW acts, NEW new, AllowKept(acts, new), NEW d, NEW n \in AgentRunRecord,
         SamePlace(d, n),
         \A j \in Steps : n.steps[j].status = "RUNNING" => d.steps[j].status = "RUNNING",
         RunningAllowed(acts, d)
  PROVE  RunningAllowed(new, n)
  <1> SUFFICES ASSUME NEW k \in Steps, n.steps[k].status = "RUNNING"
               PROVE  /\ n.steps[k].attempt_count \in 1 .. AttemptBound
                      /\ Allowed(new, k, n.steps[k].attempt_count, ActionCount[k])
    BY DEF RunningAllowed
  <1>1. /\ d.steps[k].attempt_count \in 1 .. AttemptBound
        /\ Allowed(acts, k, d.steps[k].attempt_count, ActionCount[k])
    BY DEF RunningAllowed
  <1>2. n.steps[k].attempt_count = d.steps[k].attempt_count
    BY DEF SamePlace
  <1>3. ActionCount[k] \in Nat /\ ActionCount[k] <= ActionCount[k]
    BY GovernedAssumption
  <1> QED
    BY <1>1, <1>2, <1>3, AllowedKept

\* The run moves in memory, and the store is saved before, after or not.
LEMMA DataKept ==
  ASSUME NEW acts, NEW new, AllowKept(acts, new),
         NEW d \in AgentRunRecord, NEW c \in AgentRunRecord, DataOK(d, c, acts),
         NEW n, Moves(d, n), NEW e, e \in {c, d, n} \/ Moves(c, e),
         \A a \in Undecided(new) : a \in Undecided(acts) \/ ToCome(a, d)
  PROVE  DataOK(n, e, new)
  <1>1. n \in AgentRunRecord /\ e \in AgentRunRecord /\ RecordOK(n) /\ RecordOK(e)
    BY DEF Moves, DataOK
  <1>2. SamePlace(d, n) /\ SamePlace(d, c)
    BY DEF Moves, DataOK
  <1>3. SamePlace(d, e) /\ SamePlace(n, e)
    <2>1. SamePlace(c, e) \/ e = d \/ e = n
      BY DEF Moves, SamePlace
    <2> QED
      BY <1>2, <2>1 DEF SamePlace
  <1>4. RunningAllowed(new, n)
    BY <1>1, <1>2, RunningKept DEF DataOK, Moves
  <1>5. RunningAllowed(new, e)
    <2>1. CASE e = n
      BY <1>4, <2>1
    <2>2. CASE e = d
      BY <1>1, <1>3, <2>2, RunningKept DEF DataOK
    <2>3. CASE e = c \/ Moves(c, e)
      <3>1. SamePlace(c, e)
        BY <2>3 DEF Moves, SamePlace
      <3> QED
        BY <1>1, <2>3, <3>1, RunningKept DEF DataOK, Moves
    <2> QED
      BY <2>1, <2>2, <2>3
  <1>6. \A a \in Undecided(new) : ToCome(a, n)
    <2>1. \A a \in ActionId : a[1] \in Steps
      BY DEF ActionId
    <2> QED
      BY <1>2, <2>1 DEF DataOK, ToCome, SamePlace, Undecided
  <1> QED
    BY <1>1, <1>3, <1>4, <1>5, <1>6 DEF DataOK

\* A request that does not move keeps what it knows about the run.
LEMMA AloneKept ==
  ASSUME NEW acts, NEW new, AllowKept(acts, new), Undecided(new) \subseteq Undecided(acts),
         NEW d, NEW n, Moves(d, n), NEW q \in RequestRecord, NEW th,
         q.at \in {"authorize", "execute", "consume"} => q.attempt >= 1 /\ q.next >= 1,
         th.phase # "idle" => q.at = "execute",
         AloneOK(q, th, d, acts),
         th.phase = "acquired" => AcquiredRun(n)
  PROVE  AloneOK(q, th, n, new)
  <1>1. /\ n.current_step = d.current_step
        /\ n.steps[q.step].attempt_count = d.steps[q.step].attempt_count
        /\ n.steps[q.step].status = "SUCCEEDED" => d.steps[q.step].status = "SUCCEEDED"
    BY DEF Moves, SamePlace, RequestRecord
  <1>2. /\ q.step \in Steps /\ q.next \in Nat /\ q.attempt \in 0 .. AttemptBound
        /\ ActionCount[q.step] \in Nat /\ AttemptBound \in Nat
    BY GovernedAssumption DEF RequestRecord
  <1>3. q.at = "authorize" => Allowed(new, q.step, q.attempt, q.next - 1)
    <2> SUFFICES ASSUME q.at = "authorize" PROVE Allowed(new, q.step, q.attempt, q.next - 1)
      OBVIOUS
    <2>1. /\ q.next - 1 \in Nat /\ q.next - 1 <= ActionCount[q.step]
          /\ q.attempt \in 1 .. AttemptBound
      BY <1>2 DEF AloneOK
    <2>2. Allowed(acts, q.step, q.attempt, q.next - 1)
      BY DEF AloneOK
    <2> QED
      BY <1>2, <2>1, <2>2, AllowedKept
  <1>4. q.at = "execute" => Allowed(new, q.step, q.attempt, ActionCount[q.step])
    <2> SUFFICES ASSUME q.at = "execute" PROVE Allowed(new, q.step, q.attempt, ActionCount[q.step])
      OBVIOUS
    <2>1. q.attempt \in 1 .. AttemptBound /\ ActionCount[q.step] <= ActionCount[q.step]
      BY <1>2
    <2>2. Allowed(acts, q.step, q.attempt, ActionCount[q.step])
      BY DEF AloneOK
    <2> QED
      BY <1>2, <2>1, <2>2, AllowedKept
  <1> QED
    BY <1>1, <1>3, <1>4 DEF AloneOK

\* A request that is not active knows nothing.
LEMMA IdleAlone ==
  ASSUME NEW q, NEW th, NEW d, NEW acts, th.phase = "idle",
         q.at \in {"idle", "start", "consume", "done"}
  PROVE  AloneOK(q, th, d, acts)
  BY DEF AloneOK

\* A step of an operator, a reviewer, the watchdog or the clock: the requests
\* stay where they are.
LEMMA EnvStep ==
  ASSUME GInv, LockInv', UNCHANGED <<request, thread, phase, taskReady, raced, consumed>>,
         mem' \in [Runs -> AgentRunRecord], disk' \in [Runs -> AgentRunRecord],
         lease' \in CapabilityRecord, lease'.status = "none" => lease' = lease,
         actions' \in ActionTable, holders' \subseteq Threads,
         ~raced =>
           /\ AllowKept(actions, actions') /\ Undecided(actions') \subseteq Undecided(actions)
           /\ Moves(m, m')
           /\ disk'[Run] \in {disk[Run], m, m'} \/ Moves(disk[Run], disk'[Run])
           /\ \A t \in Threads :
                thread[t].phase = "acquired" /\ AcquiredRun(m) => AcquiredRun(m')
  PROVE  GInv'
  <1>1. /\ RecordsOK /\ (lease.status = "none" => lease = NoCapability)
        /\ \A t \in Threads : RequestOK(request[t], thread[t], phase[t], lease)
    BY DEF GInv
  <1>2. RecordsOK'
    BY <1>1, TypeUse, TypeMake
  <1>3. \A t \in Threads : RequestOK(request'[t], thread'[t], phase'[t], lease')
    BY <1>1 DEF RequestOK
  <1>4. lease'.status = "none" => lease' = NoCapability
    BY <1>1
  <1>5. ASSUME ~raced' PROVE SerialInv'
    <2>1. SerialInv
      BY <1>5 DEF GInv
    <2>2. m \in AgentRunRecord /\ disk[Run] \in AgentRunRecord
          /\ request \in [Threads -> RequestRecord]
      BY <1>1, TypeUse
    <2>3. /\ AllowKept(actions, actions') /\ Undecided(actions') \subseteq Undecided(actions)
          /\ Moves(m, m')
          /\ disk'[Run] \in {disk[Run], m, m'} \/ Moves(disk[Run], disk'[Run])
      BY <1>5
    <2>4. DataOK(m', disk'[Run], actions')
      BY <2>1, <2>2, <2>3, DataKept DEF SerialInv
    <2>5. ASSUME NEW t \in Threads PROVE AloneOK(request'[t], thread'[t], m', actions')
      <3>1. request[t] \in RequestRecord /\ AloneOK(request[t], thread[t], m, actions)
        BY <2>1, <2>2 DEF SerialInv
      <3>2. thread[t].phase = "acquired" => AcquiredRun(m')
        BY <1>5, <3>1 DEF AloneOK
      <3>3. /\ request[t].at \in {"authorize", "execute", "consume"} =>
                 request[t].attempt >= 1 /\ request[t].next >= 1
            /\ thread[t].phase # "idle" => request[t].at = "execute"
        BY <1>1 DEF RequestOK
      <3>4. AloneOK(request[t], thread[t], m', actions')
        BY <2>3, <3>1, <3>2, <3>3, AloneKept
      <3> QED
        BY <3>4
    <2> QED
      BY <2>1, <2>4, <2>5 DEF SerialInv
  <1> QED
    BY <1>2, <1>3, <1>4, <1>5 DEF GInv

\* A step of the active request of thread t.
LEMMA OwnStep ==
  ASSUME GInv, LockInv', NEW t \in Threads, phase[t] = "active", phase'[t] = "active",
         UNCHANGED <<phase, taskReady, raced>>,
         mem' \in [Runs -> AgentRunRecord], disk' \in [Runs -> AgentRunRecord],
         lease' \in CapabilityRecord, lease'.status = "none" => lease' = lease,
         actions' \in ActionTable, holders' \subseteq Threads, consumed' \subseteq ActionId,
         NEW q \in RequestRecord, request' = [request EXCEPT ![t] = q],
         NEW th \in ThreadRecord, thread' = [thread EXCEPT ![t] = th],
         RequestOK(q, th, "active", lease'),
         ~raced /\ SerialInv => DataOK(m', disk'[Run], actions') /\ AloneOK(q, th, m', actions')
  PROVE  GInv'
  <1>1. /\ RecordsOK /\ (lease.status = "none" => lease = NoCapability)
        /\ \A u \in Threads : RequestOK(request[u], thread[u], phase[u], lease)
    BY DEF GInv
  <1>2. request \in [Threads -> RequestRecord] /\ thread \in [Threads -> ThreadRecord]
        /\ taskReady \in BOOLEAN
    BY <1>1, TypeUse
  <1>3. /\ request' \in [Threads -> RequestRecord] /\ thread' \in [Threads -> ThreadRecord]
        /\ request'[t] = q /\ thread'[t] = th
        /\ \A u \in Threads : u # t => request'[u] = request[u] /\ thread'[u] = thread[u]
    BY <1>2
  <1>4. RecordsOK'
    BY <1>2, <1>3, TypeMake
  <1>5. ASSUME NEW u \in Threads PROVE RequestOK(request'[u], thread'[u], phase'[u], lease')
    <2>1. CASE u = t
      BY <1>3, <2>1
    <2>2. CASE u # t
      <3>1. RequestOK(request[u], thread[u], phase[u], lease)
        BY <1>1
      <3>2. RequestOK(request[u], thread[u], phase[u], lease')
        BY <3>1 DEF RequestOK
      <3> QED
        BY <1>3, <2>2, <3>2
    <2> QED
      BY <2>1, <2>2
  <1>6. lease'.status = "none" => lease' = NoCapability
    BY <1>1
  <1>7. ASSUME ~raced' PROVE SerialInv'
    <2>1. SerialInv
      BY <1>7 DEF GInv
    <2>2. DataOK(m', disk'[Run], actions') /\ AloneOK(q, th, m', actions')
      BY <1>7, <2>1
    <2>3. ASSUME NEW u \in Threads, u # t PROVE AloneOK(request'[u], thread'[u], m', actions')
      <3>1. phase[u] # "active"
        BY <2>1, <2>3 DEF SerialInv
      <3>2. request[u].at = "idle" /\ thread[u].phase = "idle"
        BY <1>1, <3>1 DEF RequestOK
      <3> QED
        BY <1>3, <2>3, <3>2, IdleAlone
    <2> QED
      BY <1>3, <2>1, <2>2, <2>3 DEF SerialInv
  <1> QED
    BY <1>4, <1>5, <1>6, <1>7 DEF GInv

\* Saving and replacing the run.
LEMMA StoreRun ==
  ASSUME RecordsOK, NEW n \in AgentRunRecord, mem' = [mem EXCEPT ![Run] = n],
         disk' = mem' \/ disk' = mem \/ disk' = disk
  PROVE  /\ mem' \in [Runs -> AgentRunRecord] /\ disk' \in [Runs -> AgentRunRecord]
         /\ m' = n
         /\ disk' = mem' => disk'[Run] = n
         /\ disk' = mem => disk'[Run] = m
         /\ disk' = disk => disk'[Run] = disk[Run]
  BY TypeUse DEF m

\* A handler that changes nothing is one that a request does not notice.
LEMMA MovesSame ==
  ASSUME NEW d \in AgentRunRecord, RecordOK(d)
  PROVE  Moves(d, d)
  BY DEF Moves, SamePlace

\* Looking up no action, or the same ones.
LEMMA SameActions ==
  ASSUME UNCHANGED actions
  PROVE  AllowKept(actions, actions') /\ Undecided(actions') \subseteq Undecided(actions)
  BY DEF AllowKept, Undecided

(* A handler moves the run, unnoticed by a request that has acquired it,   *)
(* and saves the store or not; the clock moves the run on disk as well.    *)
RunMoves ==
    /\ mem' \in [Runs -> AgentRunRecord] /\ disk' \in [Runs -> AgentRunRecord]
    /\ RecordOK(m) /\ RecordOK(disk[Run]) =>
         /\ Moves(m, m')
         /\ disk'[Run] \in {disk[Run], m, m'} \/ Moves(disk[Run], disk'[Run])
         /\ \A t \in Threads :
              thread[t].phase = "acquired" /\ AcquiredRun(m) => AcquiredRun(m')

\* A handler of the operator or the watchdog.
LEMMA HandledRun ==
  ASSUME RecordsOK, NEW n \in AgentRunRecord, mem' = [mem EXCEPT ![Run] = n],
         disk' = mem' \/ disk' = disk, RecordOK(m) => Handled(m, n)
  PROVE  RunMoves
  <1>1. /\ mem' \in [Runs -> AgentRunRecord] /\ disk' \in [Runs -> AgentRunRecord]
        /\ m' = n /\ disk'[Run] \in {disk[Run], m, m'}
    BY StoreRun
  <1> QED
    BY <1>1 DEF RunMoves, Handled

\* Time passes, in memory and on disk.
LEMMA ClockRun ==
  ASSUME RecordsOK, NEW n \in AgentRunRecord, NEW e \in AgentRunRecord,
         mem' = [mem EXCEPT ![Run] = n], disk' = [disk EXCEPT ![Run] = e],
         RecordOK(m) => Moves(m, n), RecordOK(disk[Run]) => Moves(disk[Run], e),
         \A t \in Threads :
            RecordOK(m) /\ thread[t].phase = "acquired" /\ AcquiredRun(m) => AcquiredRun(n)
  PROVE  RunMoves
  <1>1. /\ mem' \in [Runs -> AgentRunRecord] /\ disk' \in [Runs -> AgentRunRecord]
        /\ m' = n /\ disk'[Run] = e
    BY TypeUse DEF m
  <1> QED
    BY <1>1 DEF RunMoves

\* Every handler of the supervisor that no request runs.
LEMMA SupervisorMoves ==
  ASSUME RecordsOK, SupervisorStep
  PROVE  RunMoves
  <1>1. m \in AgentRunRecord /\ disk[Run] \in AgentRunRecord
    BY TypeUse
  <1> USE <1>1, HandledRun
  <1>2. CASE pause_run(Run)
    <2> DEFINE n == pause_agent_run(m)
    <2>1. n \in AgentRunRecord /\ (RecordOK(m) => Handled(m, n))
      BY <1>2, PauseMoves DEF pause_run, m
    <2> QED
      BY <1>2, <2>1 DEF pause_run, Commit, Persist, m
  <1>3. CASE pause_run_rejected(Run)
    <2> DEFINE n == [m EXCEPT !.pause_requested = TRUE]
    <2>1. n \in AgentRunRecord /\ (RecordOK(m) => Handled(m, n))
      BY <1>3, PauseMoves DEF pause_run_rejected, m
    <2> QED
      BY <1>3, <2>1 DEF pause_run_rejected, Abort, m
  <1>4. CASE resume_run(Run)
    <2> DEFINE n == resume_agent_run(m)
    <2>1. n \in AgentRunRecord /\ (RecordOK(m) => Handled(m, n))
      BY <1>4, ResumeMoves DEF resume_run, m
    <2> QED
      BY <1>4, <2>1 DEF resume_run, Commit, Persist, m
  <1>5. CASE cancel_run(Run)
    <2> DEFINE n == cancel_agent_run(m)
    <2>1. n \in AgentRunRecord /\ (RecordOK(m) => Handled(m, n))
      BY <1>5, CancelMoves DEF cancel_run, m
    <2> QED
      BY <1>5, <2>1 DEF cancel_run, Commit, Persist, m
  <1>6. ASSUME NEW k \in Steps, retry_run(Run, k) PROVE RunMoves
    <2> DEFINE n == retry_agent_run_step(m, k)
    <2>1. n \in AgentRunRecord /\ (RecordOK(m) => Handled(m, n))
      BY <1>6, RetryMoves DEF retry_run, m
    <2> QED
      BY <1>6, <2>1 DEF retry_run, Commit, Persist, m
  <1>7. CASE recover_stale_leases
    <2> DEFINE n == RecoverRun(m)
    <2>1. mem[Run].lease = "expired" /\ mem' = [mem EXCEPT ![Run] = n]
      BY <1>7, TypeUse DEF recover_stale_leases, m
    <2>2. n \in AgentRunRecord /\ (RecordOK(m) => Handled(m, n))
      BY <2>1, RecoverMoves DEF m
    <2> QED
      BY <1>7, <2>1, <2>2 DEF recover_stale_leases, Persist
  <1>8. ASSUME NEW k \in Steps, BackoffElapses(Run, k) PROVE RunMoves
    <2> DEFINE elapse(d) == IF d.steps[k].status = "RETRY_WAIT" THEN RetryDue(d, k) ELSE d
    <2>1. /\ mem' = [mem EXCEPT ![Run] = elapse(m)]
          /\ disk' = [disk EXCEPT ![Run] = elapse(disk[Run])]
          /\ UNCHANGED thread
      BY <1>8 DEF BackoffElapses, m
    <2>2. ASSUME NEW d \in AgentRunRecord
          PROVE  elapse(d) \in AgentRunRecord /\ (RecordOK(d) => Handled(d, elapse(d)))
      BY DueMoves, MovesSame DEF Handled
    <2> HIDE DEF elapse
    <2> QED
      BY <2>1, <2>2, ClockRun DEF Handled
  <1>9. CASE LeaseExpires(Run)
    <2> DEFINE expire(d) == IF d.lease = "live" THEN WithLease(d, "expired") ELSE d
    <2>1. /\ mem' = [mem EXCEPT ![Run] = expire(m)]
          /\ disk' = [disk EXCEPT ![Run] = expire(disk[Run])]
          /\ \A t \in Threads : thread[t].phase # "acquired" \/ thread[t].run # Run
          /\ UNCHANGED thread
      BY <1>9 DEF LeaseExpires, m
    <2>2. ASSUME NEW d \in AgentRunRecord
          PROVE  expire(d) \in AgentRunRecord /\ (RecordOK(d) => Moves(d, expire(d)))
      BY LeaseMoves, MovesSame DEF LeaseState
    <2> HIDE DEF expire
    <2>3. \A t \in Threads : thread[t].phase # "acquired"
      BY <2>1, TypeUse, ThreadFields DEF RecordsOK
    <2> QED
      BY <2>1, <2>2, <2>3, ClockRun
  <1> QED
    BY <1>2, <1>3, <1>4, <1>5, <1>6, <1>7, <1>8, <1>9 DEF SupervisorStep

\* They keep the invariant.
LEMMA SupervisorGInv ==
  ASSUME GInv, LockInv', SupervisorStep
  PROVE  GInv'
  <1>1. RecordsOK /\ TokenFollowsLease
        /\ UNCHANGED <<request, thread, phase, taskReady, raced, consumed, lease, actions>>
    BY DEF GInv, SupervisorStep, Frame, lockVars, trustVars, pause_run, pause_run_rejected,
           resume_run, cancel_run, retry_run, BackoffElapses, recover_stale_leases, LeaseExpires
  <1>2. lease' \in CapabilityRecord /\ actions' \in ActionTable /\ holders' \subseteq Threads
    BY <1>1, TypeUse DEF TokenFollowsLease
  <1>3. RunMoves /\ (~raced => RecordOK(m) /\ RecordOK(disk[Run]))
    BY <1>1, SupervisorMoves DEF GInv, SerialInv, DataOK
  <1> QED
    BY <1>1, <1>2, <1>3, SameActions, EnvStep DEF RunMoves

\* A new capability lease has used nothing.
LEMMA NewCapabilityType ==
  ASSUME NEW strict \in BOOLEAN
  PROVE  NewCapability(strict) \in CapabilityRecord /\ NewCapability(strict).status = "ACTIVE"
  <1>1. 0 \in 0 .. MaxRuntime /\ 0 \in 0 .. MaxRetries
    BY GovernedAssumption
  <1>2. NoCapability \in CapabilityRecord
    BY <1>1 DEF NoCapability, CapabilityRecord
  <1>3. ASSUME NEW c \in CapabilityRecord
        PROVE  LET n == [c EXCEPT !.status = "ACTIVE", !.strict = strict]
               IN  n \in CapabilityRecord /\ n.status = "ACTIVE"
    BY DEF CapabilityRecord
  <1> QED
    BY <1>2, <1>3 DEF NewCapability

\* The capability lease comes and ends, and a reviewer decides an action.
LEMMA TrustGInv ==
  ASSUME GInv, LockInv', TrustStep
  PROVE  GInv'
  <1>1. /\ RecordsOK /\ m \in AgentRunRecord /\ lease \in CapabilityRecord
        /\ actions \in ActionTable /\ holders \subseteq Threads
        /\ mem \in [Runs -> AgentRunRecord] /\ disk \in [Runs -> AgentRunRecord]
    BY TypeUse DEF GInv
  <1>2. ~raced => RecordOK(m)
    BY DEF GInv, SerialInv, DataOK
  <1>3. ~raced => Moves(m, m)
    BY <1>1, <1>2, MovesSame
  <1>4. ASSUME NEW strict \in BOOLEAN, attach_capability_lease(strict) PROVE GInv'
    <2>1. /\ UNCHANGED <<request, thread, phase, taskReady, raced, consumed, actions, holders, mem>>
          /\ disk' = mem' /\ lease' = NewCapability(strict)
      BY <1>4 DEF attach_capability_lease, Frame, lockVars, Persist
    <2>2. lease' \in CapabilityRecord /\ lease'.status = "ACTIVE"
      BY <2>1, NewCapabilityType
    <2>3. m' = m /\ disk'[Run] = m
      BY <2>1 DEF m
    <2> QED
      BY <1>1, <1>3, <2>1, <2>2, <2>3, SameActions, EnvStep
  <1>5. CASE end_capability_lease
    <2>1. /\ UNCHANGED <<request, thread, phase, taskReady, raced, consumed, actions, holders, mem, disk>>
          /\ lease' = [lease EXCEPT !.status = "ENDED"]
      BY <1>5 DEF end_capability_lease, Frame, lockVars, runVars
    <2>2. lease' \in CapabilityRecord /\ lease'.status = "ENDED"
      BY <1>1, <2>1 DEF CapabilityRecord
    <2>3. m' = m /\ disk'[Run] = disk[Run]
      BY <2>1 DEF m
    <2> QED
      BY <1>1, <1>3, <2>1, <2>2, <2>3, SameActions, EnvStep
  <1>6. ASSUME NEW a \in ActionId, NEW allow \in BOOLEAN, record_action_authorization(a, allow)
        PROVE  GInv'
    <2> DEFINE n == IF allow THEN Reopened(a[1]) ELSE Denied(a[1])
    <2>1. /\ UNCHANGED <<request, thread, phase, taskReady, raced, consumed, lease>>
          /\ mem' = [mem EXCEPT ![Run] = n] /\ disk' = mem' /\ TokenFollowsLease
          /\ actions' = [actions EXCEPT ![a].decision = IF allow THEN "ALLOW" ELSE "BLOCK"]
          /\ ~allow => actions[a].decision = "REQUIRE_APPROVAL"
          /\ allow => actions[a].decision \in {"REQUIRE_APPROVAL", "ALLOW"}
      BY <1>6 DEF record_action_authorization, Frame, lockVars, Commit, Persist
    <2>2. a[1] \in Steps
      BY DEF ActionId
    <2>3. n \in AgentRunRecord
      BY <1>1, <2>2, ReopenedMoves, DeniedMoves
    <2>4. ~raced => Handled(m, n)
      <3>1. ~raced /\ ~allow => a[1] = m.current_step
        BY <2>1 DEF GInv, SerialInv, DataOK, Undecided, ToCome
      <3> QED
        BY <1>1, <1>2, <2>2, <3>1, ReopenedMoves, DeniedMoves
    <2> HIDE DEF n
    <2>5. /\ actions' \in ActionTable
          /\ actions'[a].decision = IF allow THEN "ALLOW" ELSE "BLOCK"
          /\ \A b \in ActionId : b # a => actions'[b] = actions[b]
      BY <1>1, <2>1 DEF ActionTable
    <2>6. AllowKept(actions, actions') /\ Undecided(actions') \subseteq Undecided(actions)
      BY <2>1, <2>5 DEF AllowKept, Undecided
    <2>7. /\ mem' \in [Runs -> AgentRunRecord] /\ disk' \in [Runs -> AgentRunRecord]
          /\ m' = n /\ disk'[Run] \in {disk[Run], m, m'}
      BY <1>1, <2>1, <2>3, StoreRun
    <2>8. lease' \in CapabilityRecord /\ holders' \subseteq Threads /\ lease' = lease
      BY <1>1, <2>1 DEF TokenFollowsLease
    <2> QED
      BY <2>1, <2>4, <2>5, <2>6, <2>7, <2>8, EnvStep DEF Handled
  <1> QED
    BY <1>4, <1>5, <1>6 DEF TrustStep

\* A request that enters or leaves the execution lock.
LEMMA LockStep ==
  ASSUME GInv, LockInv', NEW t \in Threads, UNCHANGED <<runVars, holders, trustVars>>,
         NEW p, phase' = [phase EXCEPT ![t] = p],
         NEW q \in RequestRecord, request' = [request EXCEPT ![t] = q],
         thread[t].phase = "idle", q.at \in {"idle", "start"}, p = "active" <=> q.at = "start",
         ~raced' => ~raced /\ (p = "active" => \A u \in Threads : phase[u] # "active")
  PROVE  GInv'
  <1>1. /\ RecordsOK /\ (lease.status = "none" => lease = NoCapability)
        /\ \A u \in Threads : RequestOK(request[u], thread[u], phase[u], lease)
    BY DEF GInv
  <1>2. /\ request \in [Threads -> RequestRecord] /\ phase \in [Threads -> {"idle", "asking", "active", "leaving"}]
        /\ UNCHANGED <<mem, disk, thread, taskReady, lease, actions, consumed, holders>>
    BY <1>1, TypeUse DEF GInv, LockInv, Lock!TypeOK, runVars, trustVars
  <1>3. /\ request' \in [Threads -> RequestRecord] /\ request'[t] = q /\ phase'[t] = p
        /\ \A u \in Threads : u # t => request'[u] = request[u] /\ phase'[u] = phase[u]
    BY <1>2
  <1>4. RecordsOK'
    BY <1>1, <1>2, <1>3, TypeUse, TypeMake
  <1>5. \A u \in Threads : RequestOK(request'[u], thread'[u], phase'[u], lease')
    <2>1. RequestOK(q, thread[t], p, lease)
      BY DEF RequestOK
    <2> QED
      BY <1>1, <1>2, <1>3, <2>1
  <1>6. ASSUME ~raced' PROVE SerialInv'
    <2>1. SerialInv /\ m' = m
      BY <1>2, <1>6 DEF GInv, m
    <2>2. \A u, v \in Threads : phase'[u] = "active" /\ phase'[v] = "active" => u = v
      BY <1>3, <1>6, <2>1 DEF SerialInv
    <2>3. \A u \in Threads : AloneOK(request'[u], thread'[u], m', actions')
      <3>1. AloneOK(q, thread[t], m, actions)
        BY IdleAlone
      <3> QED
        BY <1>2, <1>3, <2>1, <3>1 DEF SerialInv
    <2> QED
      BY <1>2, <2>1, <2>2, <2>3 DEF SerialInv
  <1> QED
    BY <1>1, <1>2, <1>4, <1>5, <1>6 DEF GInv

\* The request that is not there.
LEMMA NoRequestType == NoRequest \in RequestRecord /\ [NoRequest EXCEPT !.at = "start"] \in RequestRecord
  BY StepsNonEmpty, GovernedAssumption DEF NoRequest, RequestRecord

\* Entering and leaving.
LEMMA EnterLeaveGInv ==
  ASSUME GInv, LockInv', NEW t \in Threads, enter_request(t) \/ leave_request(t)
  PROVE  GInv'
  <1>1. /\ RequestOK(request[t], thread[t], phase[t], lease) /\ request[t] \in RequestRecord
        /\ request \in [Threads -> RequestRecord]
    BY TypeUse DEF GInv
  <1>2. UNCHANGED <<runVars, holders, trustVars>>
    BY DEF enter_request, leave_request
  <1>3. CASE enter_request(t) /\ Lock!acquire(t)
    <2> DEFINE q == [NoRequest EXCEPT !.at = "start"]
    <2>1. q \in RequestRecord /\ q.at = "start"
      BY NoRequestType DEF NoRequest
    <2>2. phase[t] = "asking" /\ phase' = [phase EXCEPT ![t] = "active"]
      BY <1>3 DEF Lock!acquire
    <2>3. /\ request' = [request EXCEPT ![t] = q]
          /\ raced' = (raced \/ \E u \in Threads : phase[u] = "active")
      BY <1>3, <2>2 DEF enter_request, Lock!setdefault, Lock!refuse, Lock!acquire
    <2> HIDE DEF q
    <2>4. thread[t].phase = "idle"
      BY <1>1, <2>2 DEF RequestOK
    <2> QED
      BY <1>2, <2>1, <2>2, <2>3, <2>4, LockStep
  <1>4. CASE enter_request(t) /\ ~Lock!acquire(t)
    <2>1. /\ UNCHANGED <<request, raced>> /\ phase[t] # "active"
          /\ \/ phase' = [phase EXCEPT ![t] = "asking"]
             \/ phase' = [phase EXCEPT ![t] = "idle"]
      BY <1>4 DEF enter_request, Lock!setdefault, Lock!refuse
    <2>2. thread[t].phase = "idle" /\ request[t].at = "idle"
      BY <1>1, <2>1 DEF RequestOK
    <2>3. request' = [request EXCEPT ![t] = request[t]]
      BY <1>1, <2>1
    <2>4. ASSUME NEW p \in {"asking", "idle"}, phase' = [phase EXCEPT ![t] = p] PROVE GInv'
      <3>1. p # "active" /\ request[t].at # "start" /\ raced' = raced
        BY <2>1, <2>2, <2>4
      <3> QED
        BY <1>1, <1>2, <2>2, <2>3, <2>4, <3>1, LockStep
    <2> QED
      BY <2>1, <2>4
  <1>5. CASE leave_request(t)
    <2>1. /\ raced' = raced /\ request' = [request EXCEPT ![t] = NoRequest]
          /\ (phase[t] = "active" /\ request[t].at = "done") \/ phase[t] = "leaving"
          /\ \/ phase' = [phase EXCEPT ![t] = "leaving"]
             \/ phase' = [phase EXCEPT ![t] = "idle"]
      BY <1>5 DEF leave_request, Lock!release, Lock!pop
    <2>2. thread[t].phase = "idle"
      BY <1>1, <2>1 DEF RequestOK
    <2>3. NoRequest.at = "idle"
      BY DEF NoRequest
    <2> QED
      BY <1>2, <2>1, <2>2, <2>3, NoRequestType, LockStep
  <1> QED
    BY <1>3, <1>4, <1>5

\* The process dies and is started again from what is on disk.
LEMMA RestartGInv ==
  ASSUME GInv, LockInv', Restart
  PROVE  GInv'
  <1>1. /\ RecordsOK /\ (lease.status = "none" => lease = NoCapability)
        /\ disk \in [Runs -> AgentRunRecord] /\ taskReady \in BOOLEAN
        /\ lease \in CapabilityRecord /\ actions \in ActionTable /\ consumed \subseteq ActionId
    BY TypeUse DEF GInv
  <1>2. /\ mem' = disk /\ disk' = disk /\ UNCHANGED <<taskReady, lease, actions, consumed, raced>>
        /\ thread' = [t \in Threads |-> IdleThread] /\ request' = [t \in Threads |-> NoRequest]
        /\ phase' = [t \in Threads |-> "idle"] /\ holders' = {}
    BY DEF Restart, Crash, trustVars
  <1>3. /\ thread' \in [Threads -> ThreadRecord] /\ request' \in [Threads -> RequestRecord]
        /\ \A t \in Threads : /\ thread'[t].phase = "idle" /\ request'[t].at = "idle"
                              /\ phase'[t] = "idle"
    BY <1>2, NoRequestType DEF IdleThread, NoRequest, ThreadRecord
  <1>4. RecordsOK'
    BY <1>1, <1>2, <1>3, TypeMake
  <1>5. \A t \in Threads : RequestOK(request'[t], thread'[t], phase'[t], lease')
    BY <1>3 DEF RequestOK
  <1>6. ASSUME ~raced' PROVE SerialInv'
    <2>1. DataOK(m, disk[Run], actions)
      BY <1>2, <1>6 DEF GInv, SerialInv
    <2>2. \A a \in ActionId : a[1] \in Steps
      BY DEF ActionId
    <2>3. DataOK(disk[Run], disk[Run], actions)
      BY <2>1, <2>2 DEF DataOK, SamePlace, ToCome, Undecided
    <2>4. \A t \in Threads : AloneOK(request'[t], thread'[t], m', actions')
      BY <1>3, IdleAlone
    <2> QED
      BY <1>2, <1>3, <2>3, <2>4 DEF SerialInv, m
  <1> QED
    BY <1>1, <1>2, <1>4, <1>5, <1>6 DEF GInv

----------------------------------------------------------------------------
(* The steps of a request.                                                 *)

\* What is known about a thread, its request and the records.
LEMMA RequestUse ==
  ASSUME GInv, NEW t \in Threads
  PROVE  /\ RecordsOK /\ m \in AgentRunRecord /\ disk[Run] \in AgentRunRecord
         /\ mem \in [Runs -> AgentRunRecord] /\ disk \in [Runs -> AgentRunRecord]
         /\ lease \in CapabilityRecord /\ actions \in ActionTable
         /\ holders \subseteq Threads /\ consumed \subseteq ActionId
         /\ request \in [Threads -> RequestRecord] /\ thread \in [Threads -> ThreadRecord]
         /\ request[t] \in RequestRecord /\ thread[t] \in ThreadRecord
         /\ RequestOK(request[t], thread[t], phase[t], lease)
         /\ SerialInv => /\ DataOK(m, disk[Run], actions)
                         /\ AloneOK(request[t], thread[t], m, actions)
  BY TypeUse DEF GInv, SerialInv

\* Goto only moves the request.
LEMMA GotoType ==
  ASSUME NEW q \in RequestRecord,
         NEW at \in {"idle", "start", "attached", "authorize", "execute", "consume", "done"}
  PROVE  LET n == [q EXCEPT !.at = at] IN
         /\ n \in RequestRecord /\ n.at = at /\ n.step = q.step /\ n.attempt = q.attempt
         /\ n.timeout = q.timeout /\ n.next = q.next
  BY DEF RequestRecord

\* _mark_blocked and _mark_needs_human, with the store as they leave it.
LEMMA MarkStep ==
  ASSUME RecordsOK, NEW k \in Steps, NEW target \in {"BLOCKED", "NEEDS_HUMAN"},
         NEW saved \in {mem, disk}, Mark(k, target, saved)
  PROVE  /\ mem' \in [Runs -> AgentRunRecord] /\ disk' \in [Runs -> AgentRunRecord]
         /\ disk'[Run] \in {disk[Run], m, m'}
         /\ RecordOK(m) /\ k = m.current_step => Moves(m, m')
  <1> DEFINE x == IF m.steps[k].status = target THEN m ELSE transition_step(m, k, target)
             n == transition_run(x, target)
             legal == can_transition_step(m.steps[k].status, target)
  <1>1. m \in AgentRunRecord /\ mem \in [Runs -> AgentRunRecord] /\ disk \in [Runs -> AgentRunRecord]
    BY TypeUse
  <1>2. /\ x \in AgentRunRecord /\ n \in AgentRunRecord
        /\ RecordOK(m) /\ k = m.current_step /\ legal => Moves(m, x) /\ Moves(m, n)
    BY <1>1, MarkMoves
  <1>3. \/ UNCHANGED mem /\ disk' = saved
        \/ legal /\ mem' = [mem EXCEPT ![Run] = x] /\ disk' = mem'
        \/ legal /\ mem' = [mem EXCEPT ![Run] = n] /\ disk' = mem'
        \/ legal /\ mem' = [mem EXCEPT ![Run] = x] /\ disk' = saved
    BY DEF Mark, Commit, Persist, can_transition_step
  <1> HIDE DEF x, n, legal
  <1>4. CASE UNCHANGED mem /\ disk' = saved
    <2>1. m' = m
      BY <1>4 DEF m
    <2> QED
      BY <1>1, <1>4, <2>1, MovesSame DEF m
  <1>5. CASE legal /\ mem' = [mem EXCEPT ![Run] = x] /\ disk' = mem'
    BY <1>2, <1>5, StoreRun
  <1>6. CASE legal /\ mem' = [mem EXCEPT ![Run] = n] /\ disk' = mem'
    BY <1>2, <1>6, StoreRun
  <1>7. CASE legal /\ mem' = [mem EXCEPT ![Run] = x] /\ disk' = saved
    BY <1>2, <1>7, StoreRun
  <1> QED
    BY <1>3, <1>4, <1>5, <1>6, <1>7

\* ensure_run_capability and the refusals before it.
LEMMA StartGInv ==
  ASSUME GInv, LockInv', NEW t \in Threads, ensure_run_capability(t) \/ refuse_request(t)
  PROVE  GInv'
  <1> DEFINE q == request[t]
             done == [q EXCEPT !.at = "done"]
             attached == [q EXCEPT !.at = "attached", !.step = m.current_step]
  <1>1. /\ phase[t] = "active" /\ q.at = "start"
        /\ UNCHANGED <<phase, taskReady, raced, thread, holders, actions, consumed, mem>>
        /\ \/ disk' = disk /\ lease' = lease /\ request' = [request EXCEPT ![t] = done]
           \/ /\ disk' = mem /\ lease' = NewCapability(TRUE)
              /\ request' = [request EXCEPT ![t] = attached]
    BY DEF ensure_run_capability, refuse_request, At, Goto, Frame, lockVars, runVars, trustVars,
           Persist
  <1>2. /\ RecordsOK /\ m \in AgentRunRecord /\ disk[Run] \in AgentRunRecord
        /\ mem \in [Runs -> AgentRunRecord] /\ disk \in [Runs -> AgentRunRecord]
        /\ lease \in CapabilityRecord /\ actions \in ActionTable
        /\ holders \subseteq Threads /\ consumed \subseteq ActionId
        /\ thread \in [Threads -> ThreadRecord]
        /\ q \in RequestRecord /\ thread[t] \in ThreadRecord
        /\ RequestOK(q, thread[t], "active", lease)
        /\ SerialInv => DataOK(m, disk[Run], actions)
    BY <1>1, RequestUse
  <1>3. thread[t].phase = "idle" /\ thread' = [thread EXCEPT ![t] = thread[t]]
    BY <1>1, <1>2 DEF RequestOK
  <1>4. m' = m /\ disk'[Run] \in {disk[Run], m}
    BY <1>1 DEF m
  <1>5. SerialInv => DataOK(m', disk'[Run], actions')
    <2>1. SerialInv => Moves(m, m')
      BY <1>2, <1>4, MovesSame DEF DataOK
    <2>2. AllowKept(actions, actions') /\ Undecided(actions') \subseteq Undecided(actions)
      BY <1>1, SameActions
    <2> QED
      BY <1>2, <1>4, <2>1, <2>2, DataKept
  <1>6. CASE disk' = disk /\ lease' = lease /\ request' = [request EXCEPT ![t] = done]
    <2>1. done \in RequestRecord /\ done.at = "done"
      BY <1>2, GotoType
    <2> HIDE DEF done
    <2>2. RequestOK(done, thread[t], "active", lease')
      BY <1>3, <2>1 DEF RequestOK
    <2>3. AloneOK(done, thread[t], m', actions')
      BY <1>3, <2>1, IdleAlone
    <2> QED
      BY <1>1, <1>2, <1>3, <1>5, <1>6, <2>1, <2>2, <2>3, OwnStep
  <1>7. CASE disk' = mem /\ lease' = NewCapability(TRUE)
             /\ request' = [request EXCEPT ![t] = attached]
    <2>1. attached \in RequestRecord /\ attached.at = "attached" /\ attached.step = m.current_step
      BY <1>2 DEF RequestRecord, AgentRunRecord
    <2>2. lease' \in CapabilityRecord /\ lease'.status = "ACTIVE"
      BY <1>7, NewCapabilityType
    <2> HIDE DEF attached
    <2>3. RequestOK(attached, thread[t], "active", lease')
      BY <1>3, <2>1, <2>2 DEF RequestOK
    <2>4. AloneOK(attached, thread[t], m', actions')
      BY <1>3, <1>4, <2>1 DEF AloneOK
    <2> QED
      BY <1>1, <1>2, <1>3, <1>5, <1>7, <2>1, <2>2, <2>3, <2>4, OwnStep
  <1> QED
    BY <1>1, <1>6, <1>7

\* A step of a request that neither starts nor passes a step of the run.
LEMMA QuietOwnStep ==
  ASSUME GInv, LockInv', NEW t \in Threads, phase[t] = "active",
         UNCHANGED <<phase, taskReady, raced>>,
         mem' \in [Runs -> AgentRunRecord], disk' \in [Runs -> AgentRunRecord],
         lease' \in CapabilityRecord, lease'.status = "none" => lease' = lease,
         actions' \in ActionTable, holders' \subseteq Threads, consumed' \subseteq ActionId,
         NEW q \in RequestRecord, request' = [request EXCEPT ![t] = q],
         NEW th \in ThreadRecord, thread' = [thread EXCEPT ![t] = th],
         RequestOK(q, th, "active", lease'),
         disk'[Run] \in {disk[Run], m, m'},
         DataOK(m, disk[Run], actions) /\ AloneOK(request[t], thread[t], m, actions) =>
            /\ AllowKept(actions, actions')
            /\ \A a \in Undecided(actions') : a \in Undecided(actions) \/ ToCome(a, m)
            /\ Moves(m, m') /\ AloneOK(q, th, m', actions')
  PROVE  GInv'
  <1>1. /\ m \in AgentRunRecord /\ disk[Run] \in AgentRunRecord
        /\ SerialInv => /\ DataOK(m, disk[Run], actions)
                        /\ AloneOK(request[t], thread[t], m, actions)
    BY RequestUse
  <1>2. SerialInv => DataOK(m', disk'[Run], actions') /\ AloneOK(q, th, m', actions')
    BY <1>1, DataKept
  <1> QED
    BY <1>2, OwnStep

\* _validate_lease_for_run: the request fixes its actions, or the step is blocked.
LEMMA ValidateGInv ==
  ASSUME GInv, LockInv', NEW t \in Threads, NEW timeout \in Timeouts,
         validate_lease_for_run(t, timeout)
  PROVE  GInv'
  <1> DEFINE q == request[t]
             k == IF q.at = "start" THEN m.current_step ELSE q.step
             done == [q EXCEPT !.at = "done"]
             next == [at |-> IF ActionCount[k] = 0 THEN "execute" ELSE "authorize",
                      step |-> k, attempt |-> m.steps[k].attempt_count + 1,
                      timeout |-> timeout, next |-> 1]
  <1>1. /\ phase[t] = "active" /\ q.at \in {"start", "attached"} /\ lease.status # "none"
        /\ m.steps[k].attempt_count < AttemptBound
        /\ UNCHANGED <<phase, taskReady, raced, thread, lease, actions, consumed>>
        /\ TokenFollowsLease
        /\ \/ Mark(k, "BLOCKED", disk) /\ request' = [request EXCEPT ![t] = done]
           \/ request' = [request EXCEPT ![t] = next] /\ UNCHANGED <<mem, disk>>
    BY DEF validate_lease_for_run, At, Goto, Frame, lockVars, trustVars
  <1>2. /\ RecordsOK /\ m \in AgentRunRecord /\ disk[Run] \in AgentRunRecord
        /\ mem \in [Runs -> AgentRunRecord] /\ disk \in [Runs -> AgentRunRecord]
        /\ lease \in CapabilityRecord /\ actions \in ActionTable
        /\ holders \subseteq Threads /\ consumed \subseteq ActionId
        /\ thread \in [Threads -> ThreadRecord]
        /\ q \in RequestRecord /\ thread[t] \in ThreadRecord
        /\ RequestOK(q, thread[t], "active", lease)
    BY <1>1, RequestUse
  <1>3. thread[t].phase = "idle" /\ thread' = [thread EXCEPT ![t] = thread[t]]
    BY <1>1, <1>2 DEF RequestOK
  <1>4. k \in Steps
    BY <1>2 DEF RequestRecord, AgentRunRecord
  <1>5. /\ AllowKept(actions, actions') /\ Undecided(actions') \subseteq Undecided(actions)
        /\ holders' \subseteq Threads
    BY <1>1, <1>2, SameActions DEF TokenFollowsLease
  <1>6. AloneOK(q, thread[t], m, actions) => k = m.current_step
    BY <1>1 DEF AloneOK
  <1>7. CASE Mark(k, "BLOCKED", disk) /\ request' = [request EXCEPT ![t] = done]
    <2>1. done \in RequestRecord /\ done.at = "done"
      BY <1>2, GotoType
    <2> HIDE DEF done, k
    <2>2. /\ mem' \in [Runs -> AgentRunRecord] /\ disk' \in [Runs -> AgentRunRecord]
          /\ disk'[Run] \in {disk[Run], m, m'}
          /\ RecordOK(m) /\ k = m.current_step => Moves(m, m')
      BY <1>2, <1>4, <1>7, MarkStep
    <2>3. RequestOK(done, thread[t], "active", lease')
      BY <1>3, <2>1 DEF RequestOK
    <2>4. AloneOK(done, thread[t], m', actions')
      BY <1>3, <2>1, IdleAlone
    <2>5. DataOK(m, disk[Run], actions) /\ AloneOK(q, thread[t], m, actions) => Moves(m, m')
      BY <1>6, <2>2 DEF DataOK
    <2> QED
      BY <1>1, <1>2, <1>3, <1>5, <1>7, <2>1, <2>2, <2>3, <2>4, <2>5, QuietOwnStep
  <1>8. CASE request' = [request EXCEPT ![t] = next] /\ UNCHANGED <<mem, disk>>
    <2>1. m.steps[k].attempt_count \in Nat /\ ActionCount[k] \in Nat /\ AttemptBound \in Nat
      BY <1>2, <1>4, GovernedAssumption DEF AgentRunRecord, AgentRunStep
    <2>2. m.steps[k].attempt_count + 1 \in 0 .. AttemptBound
          /\ m.steps[k].attempt_count + 1 >= 1
      BY <1>1, <2>1
    <2>3. /\ next \in RequestRecord /\ next.step = k /\ next.next = 1 /\ next.timeout \in Timeouts
          /\ next.attempt = m.steps[k].attempt_count + 1 /\ next.attempt >= 1
          /\ next.at \in {"execute", "authorize"}
          /\ next.at = "execute" => ActionCount[k] = 0
      BY <1>4, <2>2 DEF RequestRecord
    <2> HIDE DEF next, k
    <2>4. RequestOK(next, thread[t], "active", lease')
      BY <1>1, <1>3, <2>3 DEF RequestOK
    <2>5. m' = m /\ disk'[Run] = disk[Run]
      BY <1>8 DEF m
    <2>6. AloneOK(q, thread[t], m, actions) => AloneOK(next, thread[t], m', actions')
      <3>1. Allowed(actions', k, next.attempt, 0)
        BY DEF Allowed
      <3> QED
        BY <1>3, <1>6, <2>1, <2>3, <2>5, <3>1 DEF AloneOK
    <2>7. DataOK(m, disk[Run], actions) => Moves(m, m')
      BY <1>2, <2>5, MovesSame DEF DataOK
    <2> QED
      BY <1>1, <1>2, <1>3, <1>5, <1>8, <2>3, <2>4, <2>5, <2>6, <2>7, QuietOwnStep
  <1> QED
    BY <1>1, <1>7, <1>8

\* One action of the step is authorized, or the request ends.
LEMMA AuthorizeGInv ==
  ASSUME GInv, LockInv', NEW t \in Threads, authorize_action(t)
  PROVE  GInv'
  <1> DEFINE q == request[t]
             a == Current(q)
             known == actions[a]
             new == known.decision = "none"
             decision == IF new THEN FirstDecision(q) ELSE known.decision
             saved == IF new THEN mem ELSE disk
             done == [q EXCEPT !.at = "done"]
             next == [q EXCEPT !.next = @ + 1]
  <1>1. /\ phase[t] = "active" /\ q.at = "authorize" /\ q.next <= ActionCount[q.step]
        /\ UNCHANGED <<phase, taskReady, raced, thread, lease, consumed>>
        /\ TokenFollowsLease
        /\ actions' = IF new THEN [actions EXCEPT ![a] =
                                     [decision |-> decision, timeout |-> q.timeout]]
                      ELSE actions
        /\ \/ /\ \E target \in {"BLOCKED", "NEEDS_HUMAN"} : Mark(q.step, target, saved)
              /\ request' = [request EXCEPT ![t] = done]
           \/ /\ decision \notin {"BLOCK", "REQUIRE_APPROVAL"}
              /\ request' = [request EXCEPT ![t] = next] /\ UNCHANGED mem /\ disk' = saved
    BY DEF authorize_action, At, Goto, Frame, lockVars
  <1>2. /\ RecordsOK /\ m \in AgentRunRecord /\ disk[Run] \in AgentRunRecord
        /\ mem \in [Runs -> AgentRunRecord] /\ disk \in [Runs -> AgentRunRecord]
        /\ lease \in CapabilityRecord /\ actions \in ActionTable
        /\ holders \subseteq Threads /\ consumed \subseteq ActionId
        /\ thread \in [Threads -> ThreadRecord]
        /\ q \in RequestRecord /\ thread[t] \in ThreadRecord
        /\ RequestOK(q, thread[t], "active", lease)
    BY <1>1, RequestUse
  <1>3. thread[t].phase = "idle" /\ thread' = [thread EXCEPT ![t] = thread[t]]
    BY <1>1, <1>2 DEF RequestOK
  <1>4. /\ q.step \in Steps /\ q.next \in Nat /\ q.next >= 1 /\ q.attempt \in 1 .. AttemptBound
        /\ q.timeout \in Timeouts /\ ActionCount[q.step] \in Nat /\ lease.status # "none"
    <2>1. /\ q.step \in Steps /\ q.next \in Nat /\ q.attempt \in 0 .. AttemptBound
          /\ AttemptBound \in Nat
      BY <1>2, GovernedAssumption DEF RequestRecord
    <2>2. q.next >= 1 /\ q.attempt >= 1 /\ q.timeout \in Timeouts /\ lease.status # "none"
      BY <1>1, <1>2 DEF RequestOK
    <2> QED
      BY <2>1, <2>2, GovernedAssumption
  <1>5. a \in ActionId /\ a[1] = q.step /\ a[2] = q.attempt
    BY <1>1, <1>4, ActionName DEF Current
  <1>6. decision \in {"REQUIRE_APPROVAL", "ALLOW", "BLOCK"}
    <2>1. known.decision \in {"none", "REQUIRE_APPROVAL", "ALLOW", "BLOCK"}
      BY <1>2, <1>5 DEF ActionTable
    <2> QED
      BY <2>1 DEF FirstDecision
  <1> HIDE DEF a, decision
  <1>7. /\ actions' \in ActionTable
        /\ actions'[a].decision = decision
        /\ \A b \in ActionId : b # a => actions'[b] = actions[b]
    <2>1. CASE new
      BY <1>1, <1>2, <1>4, <1>5, <1>6, <2>1 DEF ActionTable
    <2>2. CASE ~new
      BY <1>1, <1>2, <2>2 DEF decision
    <2> QED
      BY <2>1, <2>2
  <1>8. AllowKept(actions, actions')
    <2>1. actions[a].decision = "ALLOW" => decision = "ALLOW"
      BY DEF decision
    <2> QED
      BY <1>7, <2>1 DEF AllowKept
  <1>9. AloneOK(q, thread[t], m, actions) =>
          \A b \in Undecided(actions') : b \in Undecided(actions) \/ ToCome(b, m)
    <2> SUFFICES ASSUME AloneOK(q, thread[t], m, actions) PROVE ToCome(a, m)
      BY <1>7 DEF Undecided
    <2> QED
      BY <1>1, <1>5 DEF AloneOK, ToCome
  <1>10. holders' \subseteq Threads
    BY <1>1, <1>2 DEF TokenFollowsLease
  <1>11. ASSUME NEW target \in {"BLOCKED", "NEEDS_HUMAN"}, Mark(q.step, target, saved),
                request' = [request EXCEPT ![t] = done]
         PROVE  GInv'
    <2>1. done \in RequestRecord /\ done.at = "done"
      BY <1>2, GotoType
    <2> HIDE DEF done
    <2>2. saved \in {mem, disk}
      OBVIOUS
    <2> HIDE DEF saved
    <2>3. /\ mem' \in [Runs -> AgentRunRecord] /\ disk' \in [Runs -> AgentRunRecord]
          /\ disk'[Run] \in {disk[Run], m, m'}
          /\ RecordOK(m) /\ q.step = m.current_step => Moves(m, m')
      BY <1>2, <1>4, <1>11, <2>2, MarkStep
    <2>4. RequestOK(done, thread[t], "active", lease')
      BY <1>3, <2>1 DEF RequestOK
    <2>5. AloneOK(done, thread[t], m', actions')
      BY <1>3, <2>1, IdleAlone
    <2>6. DataOK(m, disk[Run], actions) /\ AloneOK(q, thread[t], m, actions) => Moves(m, m')
      BY <1>1, <2>3 DEF DataOK, AloneOK
    <2> QED
      BY <1>1, <1>2, <1>3, <1>7, <1>8, <1>9, <1>10, <1>11, <2>1, <2>3, <2>4, <2>5, <2>6,
         QuietOwnStep
  <1>12. ASSUME decision \notin {"BLOCK", "REQUIRE_APPROVAL"},
                request' = [request EXCEPT ![t] = next], UNCHANGED mem, disk' = saved
         PROVE  GInv'
    <2>1. /\ next \in RequestRecord /\ next.at = "authorize" /\ next.step = q.step
          /\ next.attempt = q.attempt /\ next.timeout = q.timeout /\ next.next = q.next + 1
      BY <1>1, <1>2, <1>4 DEF RequestRecord
    <2> HIDE DEF next
    <2>2. RequestOK(next, thread[t], "active", lease')
      <3>1. next.next >= 1 /\ next.attempt >= 1
        BY <1>4, <2>1
      <3> QED
        BY <1>1, <1>3, <1>4, <2>1, <3>1 DEF RequestOK
    <2>3. /\ m' = m /\ disk'[Run] \in {disk[Run], m} /\ disk' \in [Runs -> AgentRunRecord]
          /\ mem' \in [Runs -> AgentRunRecord]
      BY <1>2, <1>12 DEF m
    <2>4. AloneOK(q, thread[t], m, actions) => AloneOK(next, thread[t], m', actions')
      <3> SUFFICES ASSUME AloneOK(q, thread[t], m, actions)
                   PROVE  AloneOK(next, thread[t], m', actions')
        OBVIOUS
      <3>1. /\ q.step = m.current_step /\ q.attempt = m.steps[q.step].attempt_count + 1
            /\ Allowed(actions, q.step, q.attempt, q.next - 1)
        BY <1>1 DEF AloneOK
      <3>2. Allowed(actions', q.step, q.attempt, q.next - 1)
        <4>1. q.next - 1 \in Nat /\ q.next - 1 <= ActionCount[q.step]
          BY <1>1, <1>4
        <4> QED
          BY <1>4, <1>8, <3>1, <4>1, AllowedKept
      <3>3. actions'[<<q.step, q.attempt, q.next>>].decision = "ALLOW"
        BY <1>6, <1>7, <1>12 DEF a, Current
      <3>4. \A i \in 1 .. q.next : i \in 1 .. (q.next - 1) \/ i = q.next
        BY <1>4
      <3>5. Allowed(actions', q.step, q.attempt, q.next)
        BY <3>2, <3>3, <3>4 DEF Allowed
      <3>6. next.next - 1 = q.next /\ next.next <= ActionCount[next.step] + 1
        BY <1>1, <1>4, <2>1
      <3> QED
        BY <1>3, <2>1, <2>3, <3>1, <3>5, <3>6 DEF AloneOK
    <2>5. DataOK(m, disk[Run], actions) => Moves(m, m')
      BY <1>2, <2>3, MovesSame DEF DataOK
    <2> QED
      BY <1>1, <1>2, <1>3, <1>7, <1>8, <1>9, <1>10, <1>12, <2>1, <2>2, <2>3, <2>4, <2>5,
         QuietOwnStep
  <1> QED
    BY <1>1, <1>11, <1>12

\* The end of authorize_run_step: every action of the attempt is allowed.
LEMMA AuthorizedGInv ==
  ASSUME GInv, LockInv', NEW t \in Threads, authorized(t)
  PROVE  GInv'
  <1> DEFINE q == request[t]
             n == Reopened(q.step)
             next == [q EXCEPT !.at = "execute"]
  <1>1. /\ phase[t] = "active" /\ q.at = "authorize" /\ q.next > ActionCount[q.step]
        /\ UNCHANGED <<phase, taskReady, raced, thread, lease, consumed, actions, holders>>
        /\ mem' = [mem EXCEPT ![Run] = n] /\ disk' = mem'
        /\ request' = [request EXCEPT ![t] = next]
    BY DEF authorized, At, Goto, Frame, lockVars, trustVars, Commit, Persist
  <1>2. /\ RecordsOK /\ m \in AgentRunRecord
        /\ lease \in CapabilityRecord /\ actions \in ActionTable
        /\ holders \subseteq Threads /\ consumed \subseteq ActionId
        /\ thread \in [Threads -> ThreadRecord]
        /\ q \in RequestRecord /\ thread[t] \in ThreadRecord
        /\ RequestOK(q, thread[t], "active", lease)
    BY <1>1, RequestUse
  <1>3. thread[t].phase = "idle" /\ thread' = [thread EXCEPT ![t] = thread[t]]
    BY <1>1, <1>2 DEF RequestOK
  <1>4. q.step \in Steps /\ q.next \in Nat /\ ActionCount[q.step] \in Nat
    BY <1>2, GovernedAssumption DEF RequestRecord
  <1>5. n \in AgentRunRecord /\ (RecordOK(m) => Moves(m, n))
    BY <1>2, <1>4, ReopenedMoves DEF Handled
  <1> HIDE DEF n
  <1>6. /\ mem' \in [Runs -> AgentRunRecord] /\ disk' \in [Runs -> AgentRunRecord]
        /\ m' = n /\ disk'[Run] \in {disk[Run], m, m'}
    BY <1>1, <1>2, <1>5, StoreRun
  <1>7. /\ next \in RequestRecord /\ next.at = "execute" /\ next.step = q.step
        /\ next.attempt = q.attempt /\ next.timeout = q.timeout /\ next.next = q.next
    BY <1>2, GotoType
  <1> HIDE DEF next
  <1>8. RequestOK(next, thread[t], "active", lease')
    BY <1>1, <1>2, <1>3, <1>7 DEF RequestOK
  <1>9. AllowKept(actions, actions') /\ Undecided(actions') \subseteq Undecided(actions)
    BY <1>1, SameActions
  <1>10. Moves(m, n) /\ AloneOK(q, thread[t], m, actions) => AloneOK(next, thread[t], m', actions')
    <2> SUFFICES ASSUME Moves(m, n), AloneOK(q, thread[t], m, actions)
                 PROVE  AloneOK(next, thread[t], m', actions')
      OBVIOUS
    <2>1. /\ q.step = m.current_step /\ q.attempt = m.steps[q.step].attempt_count + 1
          /\ q.next <= ActionCount[q.step] + 1
          /\ Allowed(actions, q.step, q.attempt, q.next - 1)
      BY <1>1 DEF AloneOK
    <2>2. q.next - 1 = ActionCount[q.step]
      BY <1>1, <1>4, <2>1
    <2>3. /\ m'.current_step = m.current_step
          /\ m'.steps[q.step].attempt_count = m.steps[q.step].attempt_count
      BY <1>4, <1>6 DEF Moves, SamePlace
    <2> QED
      BY <1>1, <1>3, <1>7, <2>1, <2>2, <2>3 DEF AloneOK
  <1> QED
    BY <1>1, <1>2, <1>3, <1>5, <1>6, <1>7, <1>8, <1>9, <1>10, QuietOwnStep DEF DataOK

\* acquire_run_lease.
LEMMA AcquireGInv ==
  ASSUME GInv, LockInv', NEW t \in Threads, acquire_lease(t)
  PROVE  GInv'
  <1> DEFINE q == request[t]
             can == Live(m) /\ ~m.pause_requested /\ m.status # "PAUSED"
             n == WithLease(m, "live")
             done == [q EXCEPT !.at = "done"]
             th == [phase |-> "acquired", run |-> Run]
  <1>1. /\ phase[t] = "active" /\ q.at = "execute" /\ thread[t].phase = "idle"
        /\ UNCHANGED <<phase, taskReady, raced, lease, consumed, actions>>
        /\ \/ /\ can /\ m.lease = "live" /\ holders' = holders \cup {t}
              /\ UNCHANGED <<mem, disk>>
              /\ thread' = [thread EXCEPT ![t] = th] /\ UNCHANGED request
           \/ /\ can /\ holders' = {t} /\ mem' = [mem EXCEPT ![Run] = n] /\ disk' = mem'
              /\ thread' = [thread EXCEPT ![t] = th] /\ UNCHANGED request
           \/ /\ request' = [request EXCEPT ![t] = done]
              /\ UNCHANGED <<mem, disk, thread, holders>>
    BY DEF acquire_lease, At, Goto, Frame, lockVars, trustVars, Commit, Persist
  <1>2. /\ RecordsOK /\ m \in AgentRunRecord /\ disk[Run] \in AgentRunRecord
        /\ mem \in [Runs -> AgentRunRecord] /\ disk \in [Runs -> AgentRunRecord]
        /\ lease \in CapabilityRecord /\ actions \in ActionTable
        /\ holders \subseteq Threads /\ consumed \subseteq ActionId
        /\ thread \in [Threads -> ThreadRecord] /\ request \in [Threads -> RequestRecord]
        /\ q \in RequestRecord /\ thread[t] \in ThreadRecord
        /\ RequestOK(q, thread[t], "active", lease)
    BY <1>1, RequestUse
  <1>3. holders' \subseteq Threads
    BY <1>1, <1>2
  <1>4. AllowKept(actions, actions') /\ Undecided(actions') \subseteq Undecided(actions)
    BY <1>1, SameActions
  <1>5. CASE /\ request' = [request EXCEPT ![t] = done]
             /\ UNCHANGED <<mem, disk, thread, holders>>
    <2>1. done \in RequestRecord /\ done.at = "done"
      BY <1>2, GotoType
    <2> HIDE DEF done
    <2>2. RequestOK(done, thread[t], "active", lease')
      BY <1>1, <2>1 DEF RequestOK
    <2>3. AloneOK(done, thread[t], m', actions')
      BY <1>1, <2>1, IdleAlone
    <2>4. m' = m /\ disk'[Run] = disk[Run] /\ thread' = [thread EXCEPT ![t] = thread[t]]
      BY <1>2, <1>5 DEF m
    <2>5. DataOK(m, disk[Run], actions) => Moves(m, m')
      BY <1>2, <2>4, MovesSame DEF DataOK
    <2> QED
      BY <1>1, <1>2, <1>3, <1>4, <1>5, <2>1, <2>2, <2>3, <2>4, <2>5, QuietOwnStep
  <1>6. CASE can /\ thread' = [thread EXCEPT ![t] = th] /\ UNCHANGED request
    <2>1. th \in ThreadRecord /\ th.phase = "acquired"
      BY TypeUse, <1>2 DEF ThreadRecord
    <2> HIDE DEF th
    <2>2. /\ n \in AgentRunRecord /\ n.status = m.status /\ n.steps = m.steps
          /\ n.current_step = m.current_step /\ n.lease = "live"
          /\ RecordOK(m) => Moves(m, n)
      BY <1>2, LeaseMoves DEF LeaseState
    <2> HIDE DEF n
    <2>3. /\ mem' \in [Runs -> AgentRunRecord] /\ disk' \in [Runs -> AgentRunRecord]
          /\ disk'[Run] \in {disk[Run], m, m'}
          /\ m' = n \/ (m' = m /\ m.lease = "live")
      <3>1. CASE mem' = [mem EXCEPT ![Run] = n] /\ disk' = mem'
        BY <1>2, <2>2, <3>1, StoreRun
      <3>2. CASE UNCHANGED <<mem, disk>> /\ m.lease = "live"
        BY <1>2, <3>2 DEF m
      <3>3. \/ mem' = [mem EXCEPT ![Run] = n] /\ disk' = mem'
            \/ UNCHANGED <<mem, disk>> /\ m.lease = "live"
        <4>1. thread'[t].phase # thread[t].phase
          BY <1>1, <1>2, <1>6, <2>1
        <4> QED
          BY <1>1, <4>1
      <3> QED
        BY <3>1, <3>2, <3>3
    <2>4. /\ m'.lease = "live" /\ m'.status = m.status /\ m'.steps = m.steps
          /\ m'.current_step = m.current_step
      BY <2>2, <2>3
    <2>5. DataOK(m, disk[Run], actions) => Moves(m, m') /\ RecordOK(m)
      BY <1>2, <2>2, <2>3, MovesSame DEF DataOK
    <2>6. RecordOK(m) => AcquiredRun(m')
      <3>1. m.status \in AgentRunStatus \cup {"ABSENT"}
        BY <1>2 DEF AgentRunRecord
      <3>2. Live(m) /\ m.status # "PAUSED"
        BY <1>6
      <3>3. RecordOK(m) => m.status \in {"SCHEDULED", "RUNNING", "RETRY_WAIT", "NEEDS_HUMAN"}
        BY <3>1, <3>2 DEF RecordOK, CurrentOK, Live, TERMINAL_RUN_STATUSES, AgentRunStatus
      <3> QED
        BY <2>4, <3>3 DEF AcquiredRun
    <2>7. RequestOK(q, th, "active", lease')
      BY <1>1, <1>2, <2>1 DEF RequestOK
    <2>8. /\ DataOK(m, disk[Run], actions) /\ AloneOK(q, thread[t], m, actions)
             => AloneOK(q, th, m', actions')
          /\ request' = [request EXCEPT ![t] = q]
      <3>1. q.step \in Steps
        BY <1>2 DEF RequestRecord
      <3> QED
        BY <1>1, <1>2, <1>6, <2>1, <2>4, <2>5, <2>6, <3>1 DEF AloneOK
    <2> QED
      BY <1>1, <1>2, <1>3, <1>4, <1>6, <2>1, <2>3, <2>5, <2>7, <2>8, QuietOwnStep
  <1> QED
    BY <1>1, <1>5, <1>6

\* The ways in which a request ends without having moved the run: a late result
\* that is refused, or no ready step.
LEMMA ReleaseGInv ==
  ASSUME GInv, LockInv', NEW t \in Threads, late_result(t) \/ release_lease(t)
  PROVE  GInv'
  <1> DEFINE q == request[t]
             n == ReleaseLease(m)
             done == [q EXCEPT !.at = "done"]
             next == [q EXCEPT !.at = "consume", !.next = 1]
  <1>1. /\ thread[t].phase # "idle"
        /\ UNCHANGED <<phase, taskReady, raced, lease, consumed, actions>>
        /\ thread' = [thread EXCEPT ![t] = IdleThread]
        /\ \/ UNCHANGED <<mem, disk>>
           \/ mem' = [mem EXCEPT ![Run] = n] /\ disk' = mem'
        /\ holders' = holders \/ TokenFollowsLease
        /\ \/ request' = [request EXCEPT ![t] = done]
           \/ request' = [request EXCEPT ![t] = next]
    BY DEF late_result, release_lease, apply_rejected, Return, Goto, Frame, lockVars, trustVars,
           Commit, Persist
  <1>2. /\ RecordsOK /\ m \in AgentRunRecord /\ disk[Run] \in AgentRunRecord
        /\ mem \in [Runs -> AgentRunRecord] /\ disk \in [Runs -> AgentRunRecord]
        /\ lease \in CapabilityRecord /\ actions \in ActionTable
        /\ holders \subseteq Threads /\ consumed \subseteq ActionId
        /\ q \in RequestRecord /\ thread[t] \in ThreadRecord
        /\ RequestOK(q, thread[t], phase[t], lease)
    BY RequestUse
  <1>3. /\ q.at = "execute" /\ phase[t] = "active" /\ q.attempt >= 1 /\ q.timeout \in Timeouts
        /\ lease.status # "none"
    BY <1>1, <1>2 DEF RequestOK
  <1>4. holders' \subseteq Threads
    BY <1>1, <1>2 DEF TokenFollowsLease
  <1>5. AllowKept(actions, actions') /\ Undecided(actions') \subseteq Undecided(actions)
    BY <1>1, SameActions
  <1>6. IdleThread \in ThreadRecord /\ IdleThread.phase = "idle"
    BY DEF IdleThread, ThreadRecord
  <1>7. n \in AgentRunRecord /\ (RecordOK(m) => Moves(m, n))
    BY <1>2, LeaseMoves DEF ReleaseLease, LeaseState
  <1> HIDE DEF n
  <1>8. /\ mem' \in [Runs -> AgentRunRecord] /\ disk' \in [Runs -> AgentRunRecord]
        /\ disk'[Run] \in {disk[Run], m, m'} /\ m' \in {m, n}
    <2>1. CASE UNCHANGED <<mem, disk>>
      BY <1>2, <2>1 DEF m
    <2>2. CASE mem' = [mem EXCEPT ![Run] = n] /\ disk' = mem'
      BY <1>2, <1>7, <2>2, StoreRun
    <2> QED
      BY <1>1, <2>1, <2>2
  <1>9. DataOK(m, disk[Run], actions) => Moves(m, m')
    BY <1>2, <1>7, <1>8, MovesSame DEF DataOK
  <1>10. ASSUME NEW x \in RequestRecord, request' = [request EXCEPT ![t] = x],
                x.at \in {"done", "consume"},
                x.at = "consume" => x.attempt >= 1 /\ x.next >= 1 /\ x.timeout \in Timeouts
         PROVE  GInv'
    <2>1. RequestOK(x, IdleThread, "active", lease')
      BY <1>1, <1>3, <1>6, <1>10 DEF RequestOK
    <2>2. AloneOK(x, IdleThread, m', actions')
      BY <1>6, <1>10, IdleAlone
    <2> QED
      BY <1>1, <1>2, <1>3, <1>4, <1>5, <1>6, <1>8, <1>9, <1>10, <2>1, <2>2, QuietOwnStep
  <1>11. done \in RequestRecord /\ done.at = "done"
    BY <1>2, GotoType
  <1>12. /\ next \in RequestRecord /\ next.at = "consume" /\ next.next = 1
         /\ next.attempt = q.attempt /\ next.timeout = q.timeout
    BY <1>2 DEF RequestRecord
  <1> HIDE DEF done, next
  <1> QED
    BY <1>1, <1>3, <1>10, <1>11, <1>12

\* The share of one of n actions is a number.
LEMMA ShareNat ==
  ASSUME NEW n \in Nat, n >= 1, NEW i, NEW seconds \in Nat
  PROVE  Share(seconds, n, i) \in Nat
  <1>1. seconds \div n \in Nat
    OBVIOUS
  <1> QED
    BY <1>1 DEF Share

\* consume_effective_action: the lease pays for one action, or passes over it.
LEMMA ConsumeGInv ==
  ASSUME GInv, SecondsOK, LockInv', NEW t \in Threads, consume_run_step_actions(t)
  PROVE  GInv'
  <1> DEFINE q == request[t]
             a == Current(q)
             retry == IF q.next = 1 /\ m.steps[q.step].attempt_count > 1 THEN 1 ELSE 0
             share == Share(ran[q.step].seconds, ActionCount[q.step], q.next)
             done == [q EXCEPT !.at = "done"]
             next == [q EXCEPT !.next = @ + 1]
  <1>1. /\ phase[t] = "active" /\ q.at = "consume"
        /\ UNCHANGED <<phase, mem, thread, taskReady, raced, actions, holders>>
        /\ \/ /\ request' = [request EXCEPT ![t] = done]
              /\ UNCHANGED <<lease, consumed, disk>>
           \/ /\ request' = [request EXCEPT ![t] = next] /\ q.next <= ActionCount[q.step]
              /\ \/ UNCHANGED <<lease, consumed, disk>>
                 \/ /\ disk' = mem /\ consumed' = consumed \cup {a}
                    /\ lease.retries + retry <= MaxRetries
                    /\ lease.runtime + share <= MaxRuntime
                    /\ lease' = [lease EXCEPT !.runtime = lease.runtime + share,
                                             !.retries = @ + retry]
    BY DEF consume_run_step_actions, At, Goto, lockVars, Persist
  <1>2. /\ RecordsOK /\ m \in AgentRunRecord /\ disk[Run] \in AgentRunRecord
        /\ mem \in [Runs -> AgentRunRecord] /\ disk \in [Runs -> AgentRunRecord]
        /\ lease \in CapabilityRecord /\ actions \in ActionTable
        /\ holders \subseteq Threads /\ consumed \subseteq ActionId
        /\ thread \in [Threads -> ThreadRecord]
        /\ q \in RequestRecord /\ thread[t] \in ThreadRecord
        /\ RequestOK(q, thread[t], "active", lease)
    BY <1>1, RequestUse
  <1>3. thread[t].phase = "idle" /\ thread' = [thread EXCEPT ![t] = thread[t]]
    BY <1>1, <1>2 DEF RequestOK
  <1>4. m' = m /\ disk'[Run] \in {disk[Run], m} /\ disk' \in [Runs -> AgentRunRecord]
    BY <1>1, <1>2 DEF m
  <1>5. DataOK(m, disk[Run], actions) => Moves(m, m')
    BY <1>2, <1>4, MovesSame DEF DataOK
  <1>6. AllowKept(actions, actions') /\ Undecided(actions') \subseteq Undecided(actions)
    BY <1>1, SameActions
  <1>7. CASE request' = [request EXCEPT ![t] = done] /\ UNCHANGED <<lease, consumed, disk>>
    <2>1. done \in RequestRecord /\ done.at = "done"
      BY <1>2, GotoType
    <2> HIDE DEF done
    <2>2. RequestOK(done, thread[t], "active", lease')
      BY <1>3, <2>1 DEF RequestOK
    <2>3. AloneOK(done, thread[t], m', actions')
      BY <1>3, <2>1, IdleAlone
    <2> QED
      BY <1>1, <1>2, <1>3, <1>4, <1>5, <1>6, <1>7, <2>1, <2>2, <2>3, QuietOwnStep
  <1>8. ASSUME request' = [request EXCEPT ![t] = next], q.next <= ActionCount[q.step],
               \/ UNCHANGED <<lease, consumed, disk>>
               \/ /\ disk' = mem /\ consumed' = consumed \cup {a}
                  /\ lease.retries + retry <= MaxRetries
                  /\ lease.runtime + share <= MaxRuntime
                  /\ lease' = [lease EXCEPT !.runtime = lease.runtime + share,
                                           !.retries = @ + retry]
        PROVE  GInv'
    <2>1. /\ q.step \in Steps /\ q.next \in Nat /\ q.attempt \in 0 .. AttemptBound
          /\ q.next >= 1 /\ q.attempt >= 1 /\ q.timeout \in Timeouts /\ lease.status # "none"
      BY <1>1, <1>2 DEF RequestRecord, RequestOK
    <2>2. /\ AttemptBound \in Nat /\ ActionCount[q.step] \in Nat /\ Timeouts \subseteq Nat
          /\ MaxRuntime \in Nat /\ MaxRetries \in Nat
      BY <2>1, GovernedAssumption
    <2>3. a \in ActionId
      <3>1. q.attempt \in 1 .. AttemptBound /\ q.next \in 1 .. ActionCount[q.step]
        BY <1>8, <2>1, <2>2
      <3> QED
        BY <2>1, <3>1, ActionName DEF Current
    <2>4. lease' \in CapabilityRecord /\ lease'.status = lease.status
      <3>1. lease.runtime \in 0 .. MaxRuntime /\ lease.retries \in 0 .. MaxRetries
        BY <1>2 DEF CapabilityRecord
      <3>2. share \in Nat /\ retry \in Nat
        <4>1. share \in Nat
          <5>1. ran[q.step].seconds \in Nat /\ ActionCount[q.step] >= 1
            BY <1>8, <2>1, <2>2 DEF SecondsOK
          <5> HIDE DEF q
          <5> QED
            BY <2>2, <5>1, ShareNat
        <4>2. retry \in {0, 1}
          OBVIOUS
        <4> HIDE DEF retry
        <4> QED
          BY <4>1, <4>2
      <3> HIDE DEF retry, share
      <3>3. CASE UNCHANGED lease
        BY <1>2, <3>3
      <3>4. CASE /\ lease.retries + retry <= MaxRetries
                 /\ lease.runtime + share <= MaxRuntime
                 /\ lease' = [lease EXCEPT !.runtime = lease.runtime + share,
                                          !.retries = @ + retry]
        <4>1. /\ lease.runtime + share \in 0 .. MaxRuntime
              /\ lease.retries + retry \in 0 .. MaxRetries
          BY <2>2, <3>1, <3>2, <3>4
        <4> QED
          BY <1>2, <3>4, <4>1 DEF CapabilityRecord
      <3> QED
        BY <1>8, <3>3, <3>4
    <2>5. /\ next \in RequestRecord /\ next.at = "consume" /\ next.step = q.step
          /\ next.attempt = q.attempt /\ next.timeout = q.timeout /\ next.next = q.next + 1
      BY <1>1, <1>2, <2>1 DEF RequestRecord
    <2> HIDE DEF next, a, share, retry
    <2>6. RequestOK(next, thread[t], "active", lease')
      <3>1. next.next >= 1
        BY <2>1, <2>5
      <3> QED
        BY <1>3, <2>1, <2>4, <2>5, <3>1 DEF RequestOK
    <2>7. AloneOK(next, thread[t], m', actions')
      BY <1>3, <2>5, IdleAlone
    <2>8. consumed' \subseteq ActionId
      BY <1>2, <1>8, <2>3
    <2> QED
      BY <1>1, <1>2, <1>3, <1>4, <1>5, <1>6, <1>8, <2>1, <2>4, <2>5, <2>6, <2>7, <2>8, QuietOwnStep
  <1> QED
    BY <1>1, <1>7, <1>8

\* The ready step starts, with its start on disk.
LEMMA StartStepGInv ==
  ASSUME GInv, LockInv', NEW t \in Threads, execute_step(t), start_step(t)
  PROVE  GInv'
  <1> DEFINE q == request[t]
  <1>1. /\ RecordsOK /\ m \in AgentRunRecord
        /\ lease \in CapabilityRecord /\ actions \in ActionTable
        /\ holders \subseteq Threads /\ consumed \subseteq ActionId
        /\ request \in [Threads -> RequestRecord] /\ thread \in [Threads -> ThreadRecord]
        /\ q \in RequestRecord
        /\ RequestOK(q, thread[t], phase[t], lease)
        /\ SerialInv => /\ DataOK(m, disk[Run], actions)
                        /\ AloneOK(q, thread[t], m, actions)
    BY RequestUse
  <1>2. thread[t].phase = "acquired" /\ thread[t].run = Run
    BY <1>1, TypeUse, ThreadFields DEF start_step, RecordsOK
  <1>3. q.at = "execute" /\ phase[t] = "active"
    BY <1>1, <1>2 DEF RequestOK
  <1>4. UNCHANGED <<phase, taskReady, raced, lease, consumed, actions>> /\ TokenFollowsLease
    BY DEF execute_step, Frame, lockVars, trustVars
  <1>5. PICK k \in Steps :
          /\ ready_step(m, k) /\ mem' = [mem EXCEPT ![Run] = StartStep(m, k)] /\ disk' = mem'
          /\ thread' = [thread EXCEPT ![t] =
               [phase |-> "executing", run |-> Run, step |-> k,
                attempt |-> m.steps[k].attempt_count + 1]]
    BY <1>2 DEF start_step, Commit, Persist, m
  <1> DEFINE th == [phase |-> "executing", run |-> Run, step |-> k,
                    attempt |-> m.steps[k].attempt_count + 1]
             n == StartStep(m, k)
  <1>6. th \in ThreadRecord /\ th.phase = "executing" /\ th.step = k
    <2>1. m.steps[k].attempt_count \in Nat
      BY <1>1 DEF AgentRunRecord, AgentRunStep
    <2>2. m.steps[k].attempt_count + 1 \in Nat /\ Run \in Runs
      BY <1>1, <2>1, TypeUse
    <2> QED
      BY <2>2 DEF ThreadRecord
  <1>7. request' = request
    <2>1. thread'[t].phase # "idle"
      BY <1>1, <1>5, <1>6
    <2> QED
      BY <2>1 DEF execute_step
  <1>8. /\ n \in AgentRunRecord
        /\ (RecordOK(m) /\ AcquiredRun(m)) =>
             /\ RecordOK(n) /\ k = m.current_step /\ n.current_step = k
             /\ n.steps[k].status = "RUNNING"
             /\ n.steps[k].attempt_count = m.steps[k].attempt_count + 1
             /\ \A j \in Steps : j # k => n.steps[j] = m.steps[j]
    BY <1>1, <1>5, StartMoves
  <1>9. thread' = [thread EXCEPT ![t] = th] /\ mem' = [mem EXCEPT ![Run] = n] /\ disk' = mem'
    BY <1>5
  <1> HIDE DEF th, n
  <1>10. /\ mem' \in [Runs -> AgentRunRecord] /\ disk' \in [Runs -> AgentRunRecord]
         /\ m' = n /\ disk'[Run] = n
    BY <1>1, <1>8, <1>9, StoreRun
  <1>11. request' = [request EXCEPT ![t] = q] /\ holders' \subseteq Threads
    BY <1>1, <1>4, <1>7 DEF TokenFollowsLease
  <1>12. RequestOK(q, th, "active", lease')
    BY <1>1, <1>3, <1>4 DEF RequestOK
  <1>13. ASSUME SerialInv
         PROVE  DataOK(m', disk'[Run], actions') /\ AloneOK(q, th, m', actions')
    <2>1. DataOK(m, disk[Run], actions) /\ AloneOK(q, thread[t], m, actions)
      BY <1>1, <1>13
    <2>2. /\ RecordOK(n) /\ k = m.current_step /\ n.current_step = k
          /\ n.steps[k].status = "RUNNING"
          /\ n.steps[k].attempt_count = m.steps[k].attempt_count + 1
          /\ \A j \in Steps : j # k => n.steps[j] = m.steps[j]
      BY <1>2, <1>8, <2>1 DEF DataOK, AloneOK
    <2>3. /\ q.step = k /\ q.attempt = n.steps[k].attempt_count
          /\ Allowed(actions, k, n.steps[k].attempt_count, ActionCount[k])
      BY <1>2, <1>3, <2>1, <2>2 DEF AloneOK
    <2>4. q.attempt \in 1 .. AttemptBound
      <3>1. q.attempt \in 0 .. AttemptBound /\ q.attempt >= 1 /\ AttemptBound \in Nat
        BY <1>1, <1>3, GovernedAssumption DEF RequestRecord, RequestOK
      <3> QED
        BY <3>1
    <2>5. RunningAllowed(actions, n)
      <3> SUFFICES ASSUME NEW j \in Steps, n.steps[j].status = "RUNNING"
                   PROVE  /\ n.steps[j].attempt_count \in 1 .. AttemptBound
                          /\ Allowed(actions, j, n.steps[j].attempt_count, ActionCount[j])
        BY DEF RunningAllowed
      <3>1. CASE j = k
        BY <2>3, <2>4, <3>1
      <3>2. CASE j # k
        BY <2>1, <2>2, <3>2 DEF DataOK, RunningAllowed
      <3> QED
        BY <3>1, <3>2
    <2>6. Undecided(actions) = {}
      <3> SUFFICES ASSUME NEW a \in Undecided(actions) PROVE FALSE
        OBVIOUS
      <3>1. a \in ActionId /\ actions[a].decision = "REQUIRE_APPROVAL" /\ ToCome(a, m)
        BY <2>1 DEF Undecided, DataOK
      <3>2. PICK j \in Steps :
              \E x \in 1 .. AttemptBound, i \in 1 .. ActionCount[j] : a = <<j, x, i>>
        BY <3>1 DEF ActionId
      <3>3. PICK x \in 1 .. AttemptBound, i \in 1 .. ActionCount[j] : a = <<j, x, i>>
        BY <3>2
      <3>4. j = k /\ x = n.steps[k].attempt_count
        BY <2>2, <3>1, <3>3 DEF ToCome
      <3> QED
        BY <2>3, <3>1, <3>3, <3>4 DEF Allowed
    <2>7. DataOK(n, n, actions)
      BY <2>2, <2>5, <2>6 DEF DataOK, SamePlace
    <2>8. AloneOK(q, th, n, actions)
      BY <1>3, <1>6, <2>2, <2>3, <2>6 DEF AloneOK
    <2> QED
      BY <1>4, <1>10, <2>7, <2>8
  <1> QED
    BY <1>1, <1>3, <1>4, <1>6, <1>9, <1>10, <1>11, <1>12, <1>13, OwnStep

\* The executor's result arrives: the step passes, or it does not.
LEMMA ResultGInv ==
  ASSUME GInv, LockInv', NEW t \in Threads, execute_step(t),
         apply_pass_next(t) \/ apply_pass_last(t) \/ apply_failure(t)
  PROVE  GInv'
  <1> DEFINE q == request[t]
             k == thread[t].step
             x == transition_step(m, k, "SUCCEEDED")
             last == ReleaseLease(transition_run(x, "SUCCEEDED"))
             done == [q EXCEPT !.at = "done"]
             next == [q EXCEPT !.at = "consume", !.next = 1]
  <1>1. /\ RecordsOK /\ m \in AgentRunRecord /\ disk[Run] \in AgentRunRecord
        /\ lease \in CapabilityRecord /\ actions \in ActionTable
        /\ holders \subseteq Threads /\ consumed \subseteq ActionId
        /\ request \in [Threads -> RequestRecord] /\ thread \in [Threads -> ThreadRecord]
        /\ q \in RequestRecord
        /\ RequestOK(q, thread[t], phase[t], lease)
        /\ SerialInv => /\ DataOK(m, disk[Run], actions)
                        /\ AloneOK(q, thread[t], m, actions)
    BY RequestUse
  <1>2. thread[t].phase = "executing" /\ thread[t].run = Run /\ k \in Steps
    BY <1>1, TypeUse, ThreadFields
    DEF apply_pass_next, apply_pass_last, apply_failure, RecordsOK
  <1>3. /\ q.at = "execute" /\ phase[t] = "active" /\ q.attempt >= 1 /\ q.timeout \in Timeouts
        /\ lease.status # "none"
    BY <1>1, <1>2 DEF RequestOK
  <1>4. /\ UNCHANGED <<phase, taskReady, raced, lease, consumed, actions>> /\ TokenFollowsLease
        /\ thread' = [thread EXCEPT ![t] = IdleThread]
    BY DEF execute_step, Frame, lockVars, trustVars, apply_pass_next, apply_pass_last, apply_failure,
           Return
  <1>5. IdleThread \in ThreadRecord /\ IdleThread.phase = "idle" /\ holders' \subseteq Threads
    BY <1>1, <1>4 DEF IdleThread, ThreadRecord, TokenFollowsLease
  <1>6. \/ request' = [request EXCEPT ![t] = done]
        \/ request' = [request EXCEPT ![t] = next]
    <2>1. thread'[t].phase = "idle"
      BY <1>1, <1>4, <1>5
    <2> QED
      BY <2>1 DEF execute_step, Goto
  <1>7. SerialInv => /\ RecordOK(m) /\ k = m.current_step /\ m.steps[k].status # "SUCCEEDED"
                     /\ Undecided(actions) = {}
    BY <1>1, <1>2, <1>3 DEF DataOK, AloneOK
  <1>8. /\ mem' \in [Runs -> AgentRunRecord] /\ disk' \in [Runs -> AgentRunRecord]
        /\ SerialInv => \/ Passes(m, m', k) /\ disk'[Run] = m'
                        \/ Moves(m, m') /\ disk'[Run] \in {disk[Run], m'}
    <2>1. CASE apply_pass_next(t)
      <3>1. PICK i \in Steps : /\ IsNextPending(x, k, i)
                               /\ mem' = [mem EXCEPT ![Run] = PassToNext(m, k, i)] /\ disk' = mem'
        BY <1>2, <2>1 DEF apply_pass_next, Commit, Persist, m
      <3>2. can_transition_step(m.steps[k].status, "SUCCEEDED")
        BY <1>2, <2>1 DEF apply_pass_next, m
      <3>3. /\ PassToNext(m, k, i) \in AgentRunRecord
            /\ SerialInv => Passes(m, PassToNext(m, k, i), k)
        BY <1>1, <1>2, <1>7, <3>1, <3>2, PassNextMoves, PassesRunning
      <3> QED
        BY <1>1, <3>1, <3>3, StoreRun
    <2>2. CASE apply_pass_last(t)
      <3>1. /\ can_transition_step(m.steps[k].status, "SUCCEEDED")
            /\ \/ can_transition_run(m.status, "SUCCEEDED") /\ mem' = [mem EXCEPT ![Run] = last]
                  /\ disk' = mem'
               \/ ~can_transition_run(m.status, "SUCCEEDED") /\ mem' = [mem EXCEPT ![Run] = x]
                  /\ disk' = disk
        BY <1>2, <2>2 DEF apply_pass_last, Commit, Persist, Abort, m
      <3>2. /\ x \in AgentRunRecord /\ last \in AgentRunRecord
            /\ SerialInv => Passes(m, last, k) /\ can_transition_run(m.status, "SUCCEEDED")
        BY <1>1, <1>2, <1>7, <3>1, PassLastMoves, PassesRunning
      <3> HIDE DEF x, last
      <3> QED
        BY <1>1, <3>1, <3>2, StoreRun
    <2>3. CASE apply_failure(t)
      <3>1. PICK decision \in VerificationDecision \ {"PASS"} :
              LET target == FailureTarget(m, k, decision)
                  y == transition_step(m, k, target)
              IN  /\ can_transition_step(m.steps[k].status, target)
                  /\ \/ mem' = [mem EXCEPT ![Run] = ReleaseLease(transition_run(y, target))]
                        /\ disk' = mem'
                     \/ mem' = [mem EXCEPT ![Run] = y] /\ disk' = disk
        BY <1>2, <2>3 DEF apply_failure, Commit, Persist, Abort, m
      <3> DEFINE target == FailureTarget(m, k, decision)
                 y == transition_step(m, k, target)
                 n == ReleaseLease(transition_run(y, target))
      <3>2. /\ y \in AgentRunRecord /\ n \in AgentRunRecord
            /\ SerialInv => Moves(m, y) /\ Moves(m, n)
        BY <1>1, <1>2, <1>7, <3>1, FailureMoves
      <3>3. \/ mem' = [mem EXCEPT ![Run] = n] /\ disk' = mem'
            \/ mem' = [mem EXCEPT ![Run] = y] /\ disk' = disk
        BY <3>1
      <3> HIDE DEF y, n
      <3> QED
        BY <1>1, <3>2, <3>3, StoreRun
    <2> QED
      BY <2>1, <2>2, <2>3
  <1>9. SerialInv => DataOK(m', disk'[Run], actions')
    <2>1. CASE Passes(m, m', k) /\ disk'[Run] = m' /\ Undecided(actions) = {}
      BY <1>4, <2>1 DEF Passes, DataOK, SamePlace, RunningAllowed
    <2>2. CASE Moves(m, m') /\ disk'[Run] \in {disk[Run], m'} /\ DataOK(m, disk[Run], actions)
      <3>1. AllowKept(actions, actions') /\ Undecided(actions') \subseteq Undecided(actions)
        BY <1>4, SameActions
      <3> QED
        BY <1>1, <2>2, <3>1, DataKept
    <2> QED
      BY <1>1, <1>7, <1>8, <2>1, <2>2
  <1>10. ASSUME NEW y \in RequestRecord, request' = [request EXCEPT ![t] = y],
                y.at \in {"done", "consume"},
                y.at = "consume" => y.attempt >= 1 /\ y.next >= 1 /\ y.timeout \in Timeouts
         PROVE  GInv'
    <2>1. RequestOK(y, IdleThread, "active", lease')
      BY <1>3, <1>4, <1>5, <1>10 DEF RequestOK
    <2>2. AloneOK(y, IdleThread, m', actions')
      BY <1>5, <1>10, IdleAlone
    <2> QED
      BY <1>1, <1>3, <1>4, <1>5, <1>8, <1>9, <1>10, <2>1, <2>2, OwnStep
  <1>11. done \in RequestRecord /\ done.at = "done"
    BY <1>1, GotoType
  <1>12. /\ next \in RequestRecord /\ next.at = "consume" /\ next.next = 1
         /\ next.attempt = q.attempt /\ next.timeout = q.timeout
    BY <1>1 DEF RequestRecord
  <1> HIDE DEF done, next
  <1> QED
    BY <1>3, <1>6, <1>10, <1>11, <1>12

----------------------------------------------------------------------------
(* The theorems.                                                           *)

\* Every step of the governed run keeps the invariant.
LEMMA GovernedStep == GInv /\ SecondsOK /\ [GovernedNext]_governedVars => GInv'
  <1> SUFFICES ASSUME GInv, SecondsOK, [GovernedNext]_governedVars PROVE GInv'
    OBVIOUS
  <1>1. LockInv'
    BY LockNext DEF GInv
  <1>2. ASSUME NEW t \in Threads, RequestStep(t) PROVE GInv'
    <2>1. CASE enter_request(t) \/ leave_request(t)
      BY <1>1, <2>1, EnterLeaveGInv
    <2>2. CASE ensure_run_capability(t) \/ refuse_request(t)
      BY <1>1, <2>2, StartGInv
    <2>3. CASE \E timeout \in Timeouts : validate_lease_for_run(t, timeout)
      BY <1>1, <2>3, ValidateGInv
    <2>4. CASE authorize_action(t)
      BY <1>1, <2>4, AuthorizeGInv
    <2>5. CASE authorized(t)
      BY <1>1, <2>5, AuthorizedGInv
    <2>6. CASE acquire_lease(t)
      BY <1>1, <2>6, AcquireGInv
    <2>7. CASE execute_step(t)
      BY <1>1, <2>7, StartStepGInv, ResultGInv DEF execute_step
    <2>8. CASE late_result(t) \/ release_lease(t)
      BY <1>1, <2>8, ReleaseGInv
    <2>9. CASE consume_run_step_actions(t)
      BY <1>1, <2>9, ConsumeGInv
    <2> QED
      BY <1>2, <2>1, <2>2, <2>3, <2>4, <2>5, <2>6, <2>7, <2>8, <2>9 DEF RequestStep
  <1>3. CASE SupervisorStep
    BY <1>1, <1>3, SupervisorGInv
  <1>4. CASE TrustStep
    BY <1>1, <1>4, TrustGInv
  <1>5. CASE Restart
    BY <1>1, <1>5, RestartGInv
  <1>6. CASE UNCHANGED governedVars
    <2>1. UNCHANGED <<mem, disk, thread, taskReady, registry, locked, phase, ref, request, holders,
                      lease, actions, consumed, raced>>
      BY <1>6 DEF governedVars, runVars, lockVars, trustVars
    <2>2. /\ RecordsOK /\ m \in AgentRunRecord /\ lease \in CapabilityRecord
          /\ actions \in ActionTable /\ holders \subseteq Threads
          /\ mem \in [Runs -> AgentRunRecord] /\ disk \in [Runs -> AgentRunRecord]
      BY TypeUse DEF GInv
    <2>3. m' = m /\ disk'[Run] = disk[Run]
      BY <2>1 DEF m
    <2>4. ~raced => Moves(m, m')
      BY <2>2, <2>3, MovesSame DEF GInv, SerialInv, DataOK
    <2> QED
      BY <1>1, <2>1, <2>2, <2>3, <2>4, SameActions, EnvStep
  <1> QED
    BY <1>2, <1>3, <1>4, <1>5, <1>6 DEF GovernedNext

\* POST /agent/runs has created the run, and no request has come.
LEMMA GovernedStart == GovernedInit => GInv
  <1> SUFFICES ASSUME GovernedInit PROVE GInv
    OBVIOUS
  <1>1. /\ mem = [r \in Runs |-> NewRun] /\ disk = mem
        /\ thread = [t \in Threads |-> IdleThread] /\ taskReady = TRUE
        /\ request = [t \in Threads |-> NoRequest] /\ holders = {} /\ lease = NoCapability
        /\ actions = [a \in ActionId |-> NoAction] /\ consumed = {} /\ raced = FALSE
        /\ phase = [t \in Threads |-> "idle"]
    BY DEF GovernedInit, Lock!Init
  <1>2. LockInv
    BY DEF GovernedInit, Lock!Init, LockInv, Lock!TypeOK
  <1>3. NewRun \in AgentRunRecord
    BY FreshRunOK
  <1>4. /\ mem \in [Runs -> AgentRunRecord] /\ disk \in [Runs -> AgentRunRecord]
        /\ m = NewRun /\ disk[Run] = NewRun
    BY <1>1, <1>3, GovernedAssumption DEF m
  <1>5. /\ thread \in [Threads -> ThreadRecord] /\ request \in [Threads -> RequestRecord]
        /\ \A t \in Threads : /\ thread[t].phase = "idle" /\ request[t].at = "idle"
                              /\ phase[t] = "idle"
    BY <1>1, NoRequestType DEF IdleThread, NoRequest, ThreadRecord
  <1>6. lease \in CapabilityRecord
    <2>1. 0 \in 0 .. MaxRuntime /\ 0 \in 0 .. MaxRetries
      BY GovernedAssumption
    <2> QED
      BY <1>1, <2>1 DEF NoCapability, CapabilityRecord
  <1>7. actions \in ActionTable /\ Undecided(actions) = {}
    BY <1>1 DEF ActionTable, NoAction, Undecided
  <1>8. RecordsOK
    BY <1>1, <1>2, <1>4, <1>5, <1>6, <1>7
    DEF RecordsOK, TypeOK, LockInv, RequestRecord, CapabilityRecord, ActionTable
  <1>9. \A t \in Threads : RequestOK(request[t], thread[t], phase[t], lease)
    BY <1>5 DEF RequestOK
  <1>10. DataOK(NewRun, NewRun, actions)
    <2>1. /\ NewRun.status = "SCHEDULED" /\ NewRun.current_step = 0
          /\ NewRun.steps[0].status = "READY"
          /\ \A k \in Steps : k # 0 => NewRun.steps[k].status = "PENDING"
      BY StepsNonEmpty DEF NewRun, AbsentRun, NewStep
    <2>2. CurrentOK(NewRun)
      BY <2>1 DEF CurrentOK
    <2>3. Placed(NewRun)
      <3>1. \A k \in Steps : ~(k < 0) /\ (k > 0 => k # 0)
        BY StepsNonEmpty
      <3> QED
        BY <2>1, <3>1 DEF Placed
    <2>4. RunningAllowed(actions, NewRun)
      BY <2>1 DEF RunningAllowed
    <2> QED
      BY <1>7, <2>2, <2>3, <2>4 DEF DataOK, RecordOK, SamePlace
  <1>11. SerialInv
    BY <1>4, <1>5, <1>10, IdleAlone DEF SerialInv
  <1> QED
    BY <1>1, <1>2, <1>8, <1>9, <1>11 DEF GInv

\* The inductive invariant holds in every reachable state.
THEOREM GovernedInvariance == GovernedSpec => []GInv
  BY GovernedStart, GovernedStep, SecondsInvariance, PTL DEF GovernedSpec

RanOK == ran \in [Steps -> [seconds : Nat, reserved : Nat]]

\* The durations and what was reserved are numbers.
THEOREM RanInvariance == GovernedSpec => []RanOK
  <1>1. GovernedInit => RanOK
    BY DEF GovernedInit, RanOK
  <1>2. ASSUME GInv, RanOK, [GovernedNext]_governedVars PROVE RanOK'
    <2>1. ASSUME NEW t \in Threads, NEW seconds \in Durations, ran' = Stamped(t, seconds)
          PROVE  RanOK'
      <3>1. request[t].timeout \in Nat /\ seconds \in Nat
        <4>1. request[t] \in RequestRecord
          BY <1>2, TypeUse DEF GInv
        <4>2. Timeouts \subseteq Nat /\ Durations \subseteq Nat
          BY GovernedAssumption
        <4>3. request[t].timeout \in Timeouts \cup {0}
          BY <4>1 DEF RequestRecord
        <4>4. request[t].timeout \in Nat
          <5>1. CASE request[t].timeout \in Timeouts
            BY <4>2, <5>1
          <5>2. CASE request[t].timeout = 0
            BY <5>2
          <5> QED
            BY <4>3, <5>1, <5>2
        <4>5. seconds \in Nat
          BY <4>2
        <4> QED
          BY <4>4, <4>5
      <3>2. \A k \in Steps : ActionCount[k] * request[t].timeout \in Nat
        BY <3>1, GovernedAssumption
      <3> QED
        BY <1>2, <2>1, <3>1, <3>2 DEF RanOK, Stamped
    <2> QED
      BY <1>2, <2>1, RanStep DEF RanOK
  <1> QED
    BY <1>1, <1>2, GovernedInvariance, PTL DEF GovernedSpec

\* Every variable of the governed run keeps its type, also when requests race
\* past the lock: no attempt, budget or action leaves its range.
THEOREM GovernedTypeCorrect == GovernedSpec => []GovernedTypeOK
  <1>1. GInv /\ RanOK => GovernedTypeOK
    BY DEF GInv, RanOK, RecordsOK, GovernedTypeOK
  <1> QED
    BY <1>1, GovernedInvariance, RanInvariance, PTL

\* A step that becomes RUNNING had every action of exactly that attempt allowed
\* beforehand (authorize_run_step, execute_next_step).
LEMMA StartAllowed ==
  ASSUME GInv, SecondsOK, [GovernedNext]_governedVars, NEW k \in Steps, ~raced,
         m.steps[k].status # "RUNNING", m'.steps[k].status = "RUNNING"
  PROVE  \A i \in 1 .. ActionCount[k] :
            actions[<<k, m'.steps[k].attempt_count, i>>].decision = "ALLOW"
  <1>1. SerialInv /\ DataOK(m, disk[Run], actions) /\ m \in AgentRunRecord /\ RecordOK(m)
    BY TypeUse DEF GInv, SerialInv, DataOK
  <1>2. CASE UNCHANGED <<actions, raced>>
    <2>1. RunningAllowed(actions, m')
      BY <1>2, GovernedStep DEF GInv, SerialInv, DataOK
    <2> QED
      BY <2>1 DEF RunningAllowed, Allowed
  <1>3. ~Moves(m, m') /\ m' # m
    BY DEF Moves
  <1>4. ASSUME NEW t \in Threads, authorize_action(t) PROVE FALSE
    <2> DEFINE q == request[t]
               saved == IF actions[Current(q)].decision = "none" THEN mem ELSE disk
    <2>1. /\ q.at = "authorize"
          /\ \/ \E target \in {"BLOCKED", "NEEDS_HUMAN"} : Mark(q.step, target, saved)
             \/ UNCHANGED mem
      BY <1>4 DEF authorize_action, At
    <2>2. UNCHANGED mem => m' = m
      BY DEF m
    <2>3. PICK target \in {"BLOCKED", "NEEDS_HUMAN"} : Mark(q.step, target, saved)
      BY <1>3, <2>1, <2>2
    <2>4. /\ RecordsOK /\ q \in RequestRecord /\ AloneOK(q, thread[t], m, actions)
          /\ saved \in {mem, disk}
      BY <1>1, RequestUse
    <2> HIDE DEF saved
    <2>5. q.step = m.current_step /\ q.step \in Steps
      BY <2>1, <2>4 DEF AloneOK, RequestRecord
    <2> QED
      BY <1>1, <1>3, <2>3, <2>4, <2>5, MarkStep
  <1>5. ASSUME NEW a \in ActionId, NEW allow \in BOOLEAN, record_action_authorization(a, allow)
        PROVE  FALSE
    <2>1. /\ mem' = [mem EXCEPT ![Run] = IF allow THEN Reopened(a[1]) ELSE Denied(a[1])]
          /\ ~allow => a \in Undecided(actions)
      BY <1>5 DEF record_action_authorization, Commit, Undecided
    <2>2. a[1] \in Steps /\ (~allow => a[1] = m.current_step)
      BY <1>1, <2>1 DEF ActionId, DataOK, ToCome
    <2>3. m' = IF allow THEN Reopened(a[1]) ELSE Denied(a[1])
      BY <2>1, TypeUse DEF m, GInv
    <2> QED
      BY <1>1, <1>3, <2>2, <2>3, ReopenedMoves, DeniedMoves DEF Handled
  <1>6. ASSUME NEW t \in Threads, enter_request(t) PROVE FALSE
    BY <1>3, <1>6 DEF enter_request, runVars, m
  <1>7. ASSUME NEW t \in Threads, RequestStep(t), ~enter_request(t), ~authorize_action(t)
        PROVE  UNCHANGED <<actions, raced>>
    BY <1>7
    DEF RequestStep, leave_request, ensure_run_capability, refuse_request, validate_lease_for_run,
        authorized, acquire_lease, execute_step, late_result, release_lease,
        consume_run_step_actions, Frame, trustVars
  <1>8. ASSUME SupervisorStep \/ Restart \/ UNCHANGED governedVars PROVE UNCHANGED <<actions, raced>>
    BY <1>8 DEF SupervisorStep, Restart, Frame, trustVars, governedVars
  <1>9. ASSUME TrustStep PROVE UNCHANGED <<actions, raced>>
    BY <1>5, <1>9 DEF TrustStep, attach_capability_lease, end_capability_lease, Frame
  <1> QED
    BY <1>2, <1>4, <1>6, <1>7, <1>8, <1>9 DEF GovernedNext

\* No side effect starts unless every action of exactly that attempt has been
\* allowed, by policy or by a reviewer, whatever retries, resumes, repeated
\* decisions, denials, recoveries and restarts came before; only a second
\* request that got past the execution lock is excepted (authorize_run_step).
THEOREM SideEffectsAllowed == GovernedSpec => StartedWasAllowed
  <1>1. GInv /\ SecondsOK /\ [GovernedNext]_governedVars =>
          [\A k \in Steps :
             /\ m.steps[k].status # "RUNNING" /\ m'.steps[k].status = "RUNNING"
             /\ ~raced
             => \A i \in 1 .. ActionCount[k] :
                   actions[<<k, m'.steps[k].attempt_count, i>>].decision = "ALLOW"
          ]_governedVars
    BY StartAllowed
  <1> QED
    BY <1>1, GovernedInvariance, SecondsInvariance, PTL DEF GovernedSpec, StartedWasAllowed

----------------------------------------------------------------------------
(* The charging of a step that passed.                                     *)

(* Request q is charging the latest attempt of step k.                     *)
Charging(q, d, k) ==
    q.at = "consume" /\ q.step = k /\ q.attempt = d.steps[k].attempt_count

ChargedIn(cons, d, k) ==
    \A i \in 1 .. ActionCount[k] : <<k, d.steps[k].attempt_count, i>> \in cons

(* The lease can still pay for every action of the step of request q.      *)
Budget(q, cap) ==
    q.at \in {"authorize", "execute"} /\ cap.status = "ACTIVE" =>
        cap.runtime + ActionCount[q.step] * q.timeout <= MaxRuntime

(* The step took longer than its preflight had reserved.                   *)
Overran(rn, k) == rn[k].seconds > rn[k].reserved

(* A request that charges a step which passed has charged the actions      *)
(* before q.next, and the lease can still pay for those from q.next on.    *)
Paying(q, d, cap, acts, cons, rn) ==
    LET k == q.step IN
    Charging(q, d, k) /\ d.steps[k].status = "SUCCEEDED" =>
        /\ q.next <= ActionCount[k] + 1
        /\ Allowed(acts, k, q.attempt, ActionCount[k])
        /\ \A i \in 1 .. ActionCount[k] : <<k, q.attempt, i>> \in cons <=> i < q.next
        /\ rn[k].reserved = ActionCount[k] * q.timeout
        /\ cap.status = "ACTIVE" /\ ~Overran(rn, k) =>
              cap.runtime + (ActionCount[k] + 1 - q.next) * q.timeout <= MaxRuntime

(* Step k is charged, being charged, short of retries or was too long.     *)
Accounted(k, reqs, d, cap, cons, rn) ==
    \/ ChargedIn(cons, d, k)
    \/ \E t \in Threads : Charging(reqs[t], d, k)
    \/ cap.retries = MaxRetries /\ d.steps[k].attempt_count > 1
    \/ Overran(rn, k)

(* Only actions of steps that passed are charged, and those are.           *)
ChargeOK(reqs, d, cap, acts, cons, rn) ==
    /\ \A a \in cons : d.steps[a[1]].status = "SUCCEEDED"
    /\ \A t \in Threads : Budget(reqs[t], cap) /\ Paying(reqs[t], d, cap, acts, cons, rn)
    /\ cap.status # "ENDED" =>
          \A k \in Steps : d.steps[k].status = "SUCCEEDED" => Accounted(k, reqs, d, cap, cons, rn)

ChargeInv == ~raced /\ ~crashed => ChargeOK(request, m, lease, actions, consumed, ran)

(* The steps that passed are the same ones, with the same attempts.        *)
Kept(d, n) ==
    \A k \in Steps :
        /\ n.steps[k].status = "SUCCEEDED" <=> d.steps[k].status = "SUCCEEDED"
        /\ d.steps[k].status = "SUCCEEDED" =>
              n.steps[k].attempt_count = d.steps[k].attempt_count

\* So it is after a handler that neither starts nor passes a step.
LEMMA MovesKept ==
  ASSUME NEW d, NEW n, Moves(d, n)
  PROVE  Kept(d, n)
  BY DEF Moves, SamePlace, Kept

\* A step after which the same steps have passed, nothing more is charged and
\* no request has begun or ended charging one of them.
LEMMA QuietCharge ==
  ASSUME GInv, RanKept, ChargeOK(request, m, lease, actions, consumed, ran),
         UNCHANGED consumed, AllowKept(actions, actions'), Kept(m, m'),
         \/ lease' = lease
         \/ lease'.status = "ENDED"
         \/ lease.status = "none" /\ lease'.retries = lease.retries,
         \A t \in Threads : request'[t] # request[t] =>
            /\ request[t].at # "consume"
            /\ Budget(request'[t], lease')
            /\ Charging(request'[t], m', request'[t].step) =>
                  m'.steps[request'[t].step].status # "SUCCEEDED"
  PROVE  ChargeOK(request, m, lease, actions, consumed, ran)'
  <1>1. /\ request \in [Threads -> RequestRecord] /\ consumed \subseteq ActionId
        /\ \A t \in Threads : RequestOK(request[t], thread[t], phase[t], lease)
    BY TypeUse DEF GInv
  <1>2. \A a \in consumed' : m'.steps[a[1]].status = "SUCCEEDED"
    <2>1. \A a \in ActionId : a[1] \in Steps
      BY DEF ActionId
    <2> QED
      BY <1>1, <2>1 DEF ChargeOK, Kept
  <1>3. ASSUME NEW t \in Threads PROVE Budget(request'[t], lease')
    <2>1. request'[t] = request[t] => Budget(request'[t], lease')
      BY <1>1 DEF ChargeOK, Budget, RequestOK
    <2> QED
      BY <2>1
  <1>4. ASSUME NEW t \in Threads PROVE Paying(request'[t], m', lease', actions', consumed', ran')
    <2>1. CASE request'[t] # request[t]
      BY <2>1 DEF Paying
    <2>2. CASE request'[t] = request[t]
      <3> DEFINE q == request[t]
                 k == q.step
      <3> SUFFICES ASSUME Charging(q, m', k), m'.steps[k].status = "SUCCEEDED"
                   PROVE  /\ q.next <= ActionCount[k] + 1
                          /\ Allowed(actions', k, q.attempt, ActionCount[k])
                          /\ \A i \in 1 .. ActionCount[k] : <<k, q.attempt, i>> \in consumed'
                                                              <=> i < q.next
                          /\ ran'[k].reserved = ActionCount[k] * q.timeout
                          /\ lease'.status = "ACTIVE" /\ ~Overran(ran', k) =>
                               lease'.runtime + (ActionCount[k] + 1 - q.next) * q.timeout
                                  <= MaxRuntime
        BY <2>2 DEF Paying
      <3>1. k \in Steps /\ q.attempt \in 0 .. AttemptBound /\ ActionCount[k] \in Nat
            /\ AttemptBound \in Nat
        BY <1>1, GovernedAssumption DEF RequestRecord
      <3>2. m.steps[k].status = "SUCCEEDED" /\ Charging(q, m, k)
        BY <3>1 DEF Kept, Charging
      <3>3. q.attempt >= 1 /\ lease.status # "none"
        BY <1>1, <3>2 DEF Charging, RequestOK
      <3>4. /\ q.next <= ActionCount[k] + 1
            /\ Allowed(actions, k, q.attempt, ActionCount[k])
            /\ \A i \in 1 .. ActionCount[k] : <<k, q.attempt, i>> \in consumed <=> i < q.next
            /\ ran[k].reserved = ActionCount[k] * q.timeout
            /\ lease.status = "ACTIVE" /\ ~Overran(ran, k) =>
                 lease.runtime + (ActionCount[k] + 1 - q.next) * q.timeout <= MaxRuntime
        BY <3>2 DEF ChargeOK, Paying
      <3>5. Allowed(actions', k, q.attempt, ActionCount[k])
        <4>1. q.attempt \in 1 .. AttemptBound /\ ActionCount[k] <= ActionCount[k]
          BY <3>1, <3>3
        <4> QED
          BY <3>1, <3>4, <4>1, AllowedKept
      <3>6. lease'.status = "ACTIVE" => lease' = lease
        BY <3>3
      <3>7. ran'[k] = ran[k] /\ (Overran(ran, k) <=> Overran(ran', k))
        BY <3>1, <3>2 DEF RanKept, Overran
      <3> QED
        BY <3>4, <3>5, <3>6, <3>7
    <2> QED
      BY <2>1, <2>2
  <1>5. ASSUME lease'.status # "ENDED", NEW k \in Steps, m'.steps[k].status = "SUCCEEDED"
        PROVE  Accounted(k, request', m', lease', consumed', ran')
    <2>1. /\ m.steps[k].status = "SUCCEEDED"
          /\ m'.steps[k].attempt_count = m.steps[k].attempt_count
      BY <1>5 DEF Kept
    <2>2. lease.status # "ENDED" /\ lease'.retries = lease.retries
      BY <1>5
    <2>3. Accounted(k, request, m, lease, consumed, ran)
      BY <2>1, <2>2 DEF ChargeOK
    <2>4. \A t \in Threads : Charging(request[t], m, k) => Charging(request'[t], m', k)
      BY <2>1 DEF Charging
    <2>5. Overran(ran, k) => Overran(ran', k)
      BY <2>1 DEF RanKept, Overran
    <2> QED
      BY <2>1, <2>2, <2>3, <2>4, <2>5 DEF Accounted, ChargedIn
  <1> QED
    BY <1>2, <1>3, <1>4, <1>5 DEF ChargeOK

\* The same, for the step of one request.
LEMMA QuietOwnCharge ==
  ASSUME GInv, RanKept, ChargeOK(request, m, lease, actions, consumed, ran),
         UNCHANGED <<consumed, lease>>, AllowKept(actions, actions'), Kept(m, m'),
         NEW t \in Threads, NEW q, request' = [request EXCEPT ![t] = q],
         request[t].at # "consume", Budget(q, lease),
         Charging(q, m', q.step) => m'.steps[q.step].status # "SUCCEEDED"
  PROVE  ChargeOK(request, m, lease, actions, consumed, ran)'
  <1>1. /\ request \in [Threads -> RequestRecord]
    BY TypeUse DEF GInv
  <1>2. request'[t] = q /\ \A u \in Threads : u # t => request'[u] = request[u]
    BY <1>1
  <1>3. \A u \in Threads : request'[u] # request[u] =>
            /\ request[u].at # "consume"
            /\ Budget(request'[u], lease')
            /\ Charging(request'[u], m', request'[u].step) =>
                  m'.steps[request'[u].step].status # "SUCCEEDED"
    BY <1>2
  <1> QED
    BY <1>3, QuietCharge

\* The supervisor's handlers and the clock.
LEMMA SupervisorCharge ==
  ASSUME GInv, ~raced, RanKept, ChargeOK(request, m, lease, actions, consumed, ran), SupervisorStep
  PROVE  ChargeOK(request, m, lease, actions, consumed, ran)'
  <1>1. UNCHANGED <<request, consumed, lease, actions>> /\ RecordsOK
    BY DEF SupervisorStep, trustVars, GInv
  <1>2. RecordOK(m) /\ RecordOK(disk[Run])
    BY DEF GInv, SerialInv, DataOK
  <1>3. Kept(m, m')
    BY <1>1, <1>2, SupervisorMoves, MovesKept DEF RunMoves
  <1> QED
    BY <1>1, <1>3, SameActions, QuietCharge

\* The capability lease comes and ends, and a reviewer decides an action.
LEMMA TrustCharge ==
  ASSUME GInv, ~raced, RanKept, ChargeOK(request, m, lease, actions, consumed, ran), TrustStep
  PROVE  ChargeOK(request, m, lease, actions, consumed, ran)'
  <1>1. /\ RecordsOK /\ m \in AgentRunRecord /\ lease \in CapabilityRecord
        /\ actions \in ActionTable /\ RecordOK(m)
        /\ lease.status = "none" => lease = NoCapability
    BY TypeUse DEF GInv, SerialInv, DataOK
  <1>2. Kept(m, m)
    BY <1>1, MovesSame, MovesKept
  <1>3. ASSUME NEW strict \in BOOLEAN, attach_capability_lease(strict)
        PROVE  ChargeOK(request, m, lease, actions, consumed, ran)'
    <2>1. /\ UNCHANGED <<request, consumed, actions>> /\ m' = m
          /\ lease.status = "none" /\ lease' = NewCapability(strict)
      BY <1>3 DEF attach_capability_lease, Attachable, m
    <2>2. lease'.retries = lease.retries
      BY <1>1, <2>1 DEF NewCapability, NoCapability
    <2> QED
      BY <1>2, <2>1, <2>2, SameActions, QuietCharge
  <1>4. CASE end_capability_lease
    <2>1. /\ UNCHANGED <<request, consumed, actions>> /\ m' = m /\ lease'.status = "ENDED"
      BY <1>1, <1>4 DEF end_capability_lease, runVars, m, CapabilityRecord
    <2> QED
      BY <1>2, <2>1, SameActions, QuietCharge
  <1>5. ASSUME NEW a \in ActionId, NEW allow \in BOOLEAN, record_action_authorization(a, allow)
        PROVE  ChargeOK(request, m, lease, actions, consumed, ran)'
    <2> DEFINE n == IF allow THEN Reopened(a[1]) ELSE Denied(a[1])
    <2>1. /\ UNCHANGED <<request, consumed, lease>>
          /\ mem' = [mem EXCEPT ![Run] = n] /\ disk' = mem'
          /\ actions' = [actions EXCEPT ![a].decision = IF allow THEN "ALLOW" ELSE "BLOCK"]
          /\ ~allow => actions[a].decision = "REQUIRE_APPROVAL"
      BY <1>5 DEF record_action_authorization, Commit, Persist
    <2>2. a[1] \in Steps /\ (~allow => a[1] = m.current_step)
      BY <2>1 DEF ActionId, GInv, SerialInv, DataOK, Undecided, ToCome
    <2>3. n \in AgentRunRecord /\ Moves(m, n)
      BY <1>1, <2>2, ReopenedMoves, DeniedMoves DEF Handled
    <2> HIDE DEF n
    <2>4. AllowKept(actions, actions')
      BY <1>1, <2>1 DEF AllowKept, ActionTable
    <2>5. Kept(m, m')
      BY <1>1, <2>1, <2>3, StoreRun, MovesKept
    <2> QED
      BY <2>1, <2>4, <2>5, QuietCharge
  <1> QED
    BY <1>3, <1>4, <1>5 DEF TrustStep

\* The ways into and out of a request.
LEMMA EnterLeaveCharge ==
  ASSUME GInv, ~raced, RanKept, ChargeOK(request, m, lease, actions, consumed, ran), NEW t \in Threads,
         \/ enter_request(t) \/ leave_request(t)
         \/ ensure_run_capability(t) \/ refuse_request(t)
  PROVE  ChargeOK(request, m, lease, actions, consumed, ran)'
  <1>1. /\ m \in AgentRunRecord /\ RecordOK(m) /\ request \in [Threads -> RequestRecord]
        /\ RequestOK(request[t], thread[t], phase[t], lease) /\ request[t] \in RequestRecord
        /\ lease.status = "none" => lease = NoCapability
    BY TypeUse DEF GInv, SerialInv, DataOK
  <1>2. UNCHANGED <<consumed, actions>> /\ m' = m
    BY DEF enter_request, leave_request, ensure_run_capability, refuse_request, trustVars, runVars, m
  <1>3. AllowKept(actions, actions') /\ Kept(m, m')
    BY <1>1, <1>2, SameActions, MovesSame, MovesKept
  <1>4. ASSUME NEW q, request' = [request EXCEPT ![t] = q], request[t].at # "consume",
               q.at \notin {"authorize", "execute", "consume"},
               \/ lease' = lease
               \/ lease.status = "none" /\ lease'.retries = lease.retries
        PROVE  ChargeOK(request, m, lease, actions, consumed, ran)'
    <2>1. request'[t] = q /\ \A u \in Threads : u # t => request'[u] = request[u]
      BY <1>1, <1>4
    <2>2. Budget(q, lease') /\ ~Charging(q, m', q.step)
      BY <1>4 DEF Budget, Charging
    <2>3. \A u \in Threads : request'[u] # request[u] =>
            /\ request[u].at # "consume"
            /\ Budget(request'[u], lease')
            /\ Charging(request'[u], m', request'[u].step) =>
                  m'.steps[request'[u].step].status # "SUCCEEDED"
      BY <1>4, <2>1, <2>2
    <2> QED
      BY <1>2, <1>3, <1>4, <2>3, QuietCharge
  <1>5. CASE enter_request(t) /\ UNCHANGED request
    <2>1. lease' = lease
      BY <1>5 DEF enter_request, trustVars
    <2> QED
      BY <1>2, <1>3, <1>5, <2>1, QuietCharge
  <1>6. CASE enter_request(t) /\ ~UNCHANGED request
    <2> DEFINE q == [NoRequest EXCEPT !.at = "start"]
    <2>1. /\ lease' = lease /\ phase[t] = "asking" /\ request' = [request EXCEPT ![t] = q]
      BY <1>6 DEF enter_request, trustVars, Lock!acquire
    <2>2. q.at = "start" /\ request[t].at = "idle"
      BY <1>1, <2>1 DEF NoRequest, RequestOK
    <2> QED
      BY <1>4, <2>1, <2>2
  <1>7. CASE leave_request(t)
    <2>1. /\ lease' = lease /\ request' = [request EXCEPT ![t] = NoRequest]
          /\ request[t].at = "done" \/ phase[t] = "leaving"
      BY <1>7 DEF leave_request, trustVars, Lock!pop
    <2>2. request[t].at # "consume" /\ NoRequest.at = "idle"
      BY <1>1, <2>1 DEF NoRequest, RequestOK
    <2> QED
      BY <1>4, <2>1, <2>2
  <1>8. CASE ensure_run_capability(t) \/ refuse_request(t)
    <2> DEFINE done == [request[t] EXCEPT !.at = "done"]
               attached == [request[t] EXCEPT !.at = "attached", !.step = m.current_step]
    <2>1. /\ request[t].at = "start"
          /\ \/ lease' = lease /\ request' = [request EXCEPT ![t] = done]
             \/ /\ lease.status = "none" /\ lease' = NewCapability(TRUE)
                /\ request' = [request EXCEPT ![t] = attached]
      BY <1>8 DEF ensure_run_capability, refuse_request, At, Goto, trustVars
    <2>2. done.at = "done" /\ attached.at = "attached"
      BY <1>1 DEF RequestRecord
    <2>3. lease.status = "none" => NewCapability(TRUE).retries = lease.retries
      BY <1>1 DEF NewCapability, NoCapability
    <2> HIDE DEF done, attached
    <2> QED
      BY <1>4, <2>1, <2>2, <2>3
  <1> QED
    BY <1>5, <1>6, <1>7, <1>8

\* The preflight of the lease's budget, which is why the lease can pay.
LEMMA ValidateCharge ==
  ASSUME GInv, ~raced, RanKept, ChargeOK(request, m, lease, actions, consumed, ran), NEW t \in Threads,
         NEW timeout \in Timeouts, validate_lease_for_run(t, timeout)
  PROVE  ChargeOK(request, m, lease, actions, consumed, ran)'
  <1> DEFINE q == request[t]
             k == IF q.at = "start" THEN m.current_step ELSE q.step
             done == [q EXCEPT !.at = "done"]
             next == [at |-> IF ActionCount[k] = 0 THEN "execute" ELSE "authorize",
                      step |-> k, attempt |-> m.steps[k].attempt_count + 1,
                      timeout |-> timeout, next |-> 1]
  <1>1. /\ q.at \in {"start", "attached"}
        /\ UNCHANGED <<lease, actions, consumed>>
        /\ \/ Mark(k, "BLOCKED", disk) /\ request' = [request EXCEPT ![t] = done]
           \/ /\ request' = [request EXCEPT ![t] = next] /\ UNCHANGED <<mem, disk>>
              /\ ~(ActionCount[k] > 0 /\ (lease.status # "ACTIVE"
                     \/ lease.runtime + ActionCount[k] * timeout > MaxRuntime))
    BY DEF validate_lease_for_run, At, Goto, trustVars
  <1>2. /\ RecordsOK /\ m \in AgentRunRecord /\ lease \in CapabilityRecord
        /\ q \in RequestRecord /\ RecordOK(m) /\ AloneOK(q, thread[t], m, actions)
    BY RequestUse DEF GInv, SerialInv, DataOK
  <1>3. k \in Steps /\ k = m.current_step
    BY <1>1, <1>2 DEF RequestRecord, AgentRunRecord, AloneOK
  <1>4. AllowKept(actions, actions') /\ q.at # "consume"
    BY <1>1, SameActions
  <1>5. CASE Mark(k, "BLOCKED", disk) /\ request' = [request EXCEPT ![t] = done]
    <2>1. done.at = "done"
      BY <1>2, GotoType
    <2> HIDE DEF done, k
    <2>2. Kept(m, m')
      BY <1>2, <1>3, <1>5, MarkStep, MovesKept
    <2>3. Budget(done, lease) /\ ~Charging(done, m', done.step)
      BY <2>1 DEF Budget, Charging
    <2> QED
      BY <1>1, <1>4, <1>5, <2>2, <2>3, QuietOwnCharge
  <1>6. CASE /\ request' = [request EXCEPT ![t] = next] /\ UNCHANGED mem
             /\ ~(ActionCount[k] > 0 /\ (lease.status # "ACTIVE"
                     \/ lease.runtime + ActionCount[k] * timeout > MaxRuntime))
    <2>1. next.step = k /\ next.timeout = timeout /\ next.at # "consume"
      OBVIOUS
    <2> HIDE DEF next, k
    <2>2. Kept(m, m')
      BY <1>2, <1>6, MovesSame, MovesKept DEF m
    <2>3. lease.status = "ACTIVE" => lease.runtime + ActionCount[k] * timeout <= MaxRuntime
      <3>1. /\ ActionCount[k] \in Nat /\ timeout \in Nat /\ MaxRuntime \in Nat
            /\ lease.runtime \in 0 .. MaxRuntime
        BY <1>2, <1>3, GovernedAssumption DEF CapabilityRecord
      <3>2. CASE ActionCount[k] = 0
        <4>1. ActionCount[k] * timeout = 0
          BY <3>1, <3>2
        <4> QED
          BY <3>1, <4>1
      <3>3. CASE ActionCount[k] # 0
        <4>1. ActionCount[k] * timeout \in Nat /\ ActionCount[k] > 0
          BY <3>1, <3>3
        <4> QED
          BY <1>6, <3>1, <4>1
      <3> QED
        BY <3>2, <3>3
    <2>4. Budget(next, lease) /\ ~Charging(next, m', next.step)
      BY <2>1, <2>3 DEF Budget, Charging
    <2> QED
      BY <1>1, <1>4, <1>6, <2>2, <2>4, QuietOwnCharge
  <1> QED
    BY <1>1, <1>5, <1>6

\* The loop over the actions of the step, and its end.
LEMMA AuthorizeCharge ==
  ASSUME GInv, ~raced, RanKept, ChargeOK(request, m, lease, actions, consumed, ran), NEW t \in Threads,
         authorize_action(t) \/ authorized(t)
  PROVE  ChargeOK(request, m, lease, actions, consumed, ran)'
  <1> DEFINE q == request[t]
             a == Current(q)
             known == actions[a]
             new == known.decision = "none"
             decision == IF new THEN FirstDecision(q) ELSE known.decision
             saved == IF new THEN mem ELSE disk
             done == [q EXCEPT !.at = "done"]
             next == [q EXCEPT !.next = @ + 1]
             allowed == [q EXCEPT !.at = "execute"]
  <1>1. /\ q.at = "authorize" /\ UNCHANGED <<lease, consumed>>
        /\ \/ UNCHANGED actions
           \/ new /\ actions' = [actions EXCEPT ![a] = [decision |-> decision, timeout |-> q.timeout]]
        /\ \/ /\ \E target \in {"BLOCKED", "NEEDS_HUMAN"} : Mark(q.step, target, saved)
              /\ request' = [request EXCEPT ![t] = done]
           \/ request' = [request EXCEPT ![t] = next] /\ UNCHANGED mem
           \/ /\ request' = [request EXCEPT ![t] = allowed]
              /\ mem' = [mem EXCEPT ![Run] = Reopened(q.step)] /\ disk' = mem'
    BY DEF authorize_action, authorized, At, Goto, trustVars, Commit, Persist
  <1>2. /\ RecordsOK /\ m \in AgentRunRecord /\ actions \in ActionTable
        /\ q \in RequestRecord /\ RecordOK(m) /\ AloneOK(q, thread[t], m, actions)
        /\ Budget(q, lease)
    BY RequestUse DEF GInv, SerialInv, DataOK, ChargeOK
  <1>3. q.step \in Steps /\ q.step = m.current_step
    BY <1>1, <1>2 DEF RequestRecord, AloneOK
  <1>4. AllowKept(actions, actions')
    BY <1>1, <1>2 DEF AllowKept, ActionTable
  <1>5. ASSUME NEW x \in RequestRecord, request' = [request EXCEPT ![t] = x],
               x.at \in {"done", "authorize", "execute"},
               x.step = q.step, x.timeout = q.timeout, Kept(m, m')
        PROVE  ChargeOK(request, m, lease, actions, consumed, ran)'
    <2>1. Budget(x, lease) /\ ~Charging(x, m', x.step) /\ request[t].at # "consume"
      BY <1>1, <1>2, <1>5 DEF Budget, Charging
    <2> QED
      BY <1>1, <1>4, <1>5, <2>1, QuietOwnCharge
  <1>6. /\ done \in RequestRecord /\ done.at = "done" /\ done.step = q.step
        /\ done.timeout = q.timeout
        /\ next \in RequestRecord /\ next.at = q.at /\ next.step = q.step
        /\ next.timeout = q.timeout
        /\ allowed \in RequestRecord /\ allowed.at = "execute" /\ allowed.step = q.step
        /\ allowed.timeout = q.timeout
    BY <1>2 DEF RequestRecord
  <1>7. ASSUME NEW target \in {"BLOCKED", "NEEDS_HUMAN"}, Mark(q.step, target, saved)
        PROVE  Kept(m, m')
    <2>1. saved \in {mem, disk}
      OBVIOUS
    <2> HIDE DEF saved
    <2> QED
      BY <1>2, <1>3, <1>7, <2>1, MarkStep, MovesKept
  <1>8. UNCHANGED mem => Kept(m, m')
    BY <1>2, MovesSame, MovesKept DEF m
  <1>9. mem' = [mem EXCEPT ![Run] = Reopened(q.step)] /\ disk' = mem' => Kept(m, m')
    <2>1. Reopened(q.step) \in AgentRunRecord /\ Moves(m, Reopened(q.step))
      BY <1>2, <1>3, ReopenedMoves DEF Handled
    <2> QED
      BY <1>2, <2>1, StoreRun, MovesKept
  <1> HIDE DEF done, next, allowed, saved
  <1> QED
    BY <1>1, <1>5, <1>6, <1>7, <1>8, <1>9

\* acquire_run_lease and the start of the step.
LEMMA StartCharge ==
  ASSUME GInv, ~raced, RanKept, ChargeOK(request, m, lease, actions, consumed, ran), NEW t \in Threads,
         acquire_lease(t) \/ (execute_step(t) /\ start_step(t))
  PROVE  ChargeOK(request, m, lease, actions, consumed, ran)'
  <1> DEFINE q == request[t]
             done == [q EXCEPT !.at = "done"]
  <1>1. /\ RecordsOK /\ m \in AgentRunRecord /\ actions \in ActionTable
        /\ q \in RequestRecord /\ RecordOK(m) /\ AloneOK(q, thread[t], m, actions)
        /\ thread \in [Threads -> ThreadRecord]
    BY RequestUse DEF GInv, SerialInv, DataOK
  <1>2. CASE acquire_lease(t)
    <2> DEFINE n == WithLease(m, "live")
    <2>1. /\ q.at = "execute" /\ UNCHANGED <<lease, actions, consumed>>
          /\ UNCHANGED request \/ request' = [request EXCEPT ![t] = done]
          /\ \/ UNCHANGED mem
             \/ mem' = [mem EXCEPT ![Run] = n] /\ disk' = mem'
      BY <1>2 DEF acquire_lease, At, Goto, trustVars, Commit, Persist
    <2>2. n \in AgentRunRecord /\ Moves(m, n)
      BY <1>1, LeaseMoves DEF LeaseState
    <2> HIDE DEF n
    <2>3. Kept(m, m')
      <3>1. CASE UNCHANGED mem
        BY <1>1, <3>1, MovesSame, MovesKept DEF m
      <3>2. CASE mem' = [mem EXCEPT ![Run] = n] /\ disk' = mem'
        BY <1>1, <2>2, <3>2, StoreRun, MovesKept
      <3> QED
        BY <2>1, <3>1, <3>2
    <2>4. CASE UNCHANGED request
      BY <2>1, <2>3, <2>4, SameActions, QuietCharge
    <2>5. CASE request' = [request EXCEPT ![t] = done]
      <3>1. done.at = "done"
        BY <1>1, GotoType
      <3> HIDE DEF done
      <3>2. Budget(done, lease) /\ ~Charging(done, m', done.step) /\ request[t].at # "consume"
        BY <2>1, <3>1 DEF Budget, Charging
      <3> QED
        BY <2>1, <2>3, <2>5, <3>2, SameActions, QuietOwnCharge
    <2> QED
      BY <2>1, <2>4, <2>5
  <1>3. CASE execute_step(t) /\ start_step(t)
    <2>1. thread[t].phase = "acquired" /\ thread[t].run = Run
      BY <1>1, <1>3, TypeUse, ThreadFields DEF start_step, RecordsOK
    <2>2. PICK k \in Steps :
            /\ ready_step(m, k) /\ mem' = [mem EXCEPT ![Run] = StartStep(m, k)] /\ disk' = mem'
            /\ thread' = [thread EXCEPT ![t] =
                 [phase |-> "executing", run |-> Run, step |-> k,
                  attempt |-> m.steps[k].attempt_count + 1]]
      BY <1>3, <2>1 DEF start_step, Commit, Persist, m
    <2>3. UNCHANGED <<request, lease, actions, consumed>>
      <3>1. thread'[t].phase # "idle"
        BY <1>1, <2>2
      <3> QED
        BY <1>3, <3>1 DEF execute_step, trustVars
    <2> DEFINE n == StartStep(m, k)
    <2>4. /\ n \in AgentRunRecord
          /\ m.steps[k].status \in {"READY", "RETRY_WAIT"} /\ n.steps[k].status = "RUNNING"
          /\ \A j \in Steps : j # k => n.steps[j] = m.steps[j]
      BY <1>1, <2>1, <2>2, StartMoves DEF AloneOK
    <2> HIDE DEF n
    <2>5. m' = n
      BY <1>1, <2>2, <2>4, StoreRun DEF n
    <2>6. Kept(m, m')
      <3> SUFFICES ASSUME NEW j \in Steps
                   PROVE  /\ n.steps[j].status = "SUCCEEDED" <=> m.steps[j].status = "SUCCEEDED"
                          /\ m.steps[j].status = "SUCCEEDED" =>
                               n.steps[j].attempt_count = m.steps[j].attempt_count
        BY <2>5 DEF Kept
      <3>1. CASE j = k
        BY <2>4, <3>1
      <3>2. CASE j # k
        BY <2>4, <3>2
      <3> QED
        BY <3>1, <3>2
    <2> QED
      BY <2>3, <2>6, SameActions, QuietCharge
  <1> QED
    BY <1>2, <1>3

\* The ways in which a request ends without having passed the step.
LEMMA FailureCharge ==
  ASSUME GInv, ~raced, RanKept, ChargeOK(request, m, lease, actions, consumed, ran), NEW t \in Threads,
         \/ late_result(t) \/ release_lease(t)
         \/ execute_step(t) /\ apply_failure(t)
  PROVE  ChargeOK(request, m, lease, actions, consumed, ran)'
  <1> DEFINE q == request[t]
             k == thread[t].step
             done == [q EXCEPT !.at = "done"]
             next == [q EXCEPT !.at = "consume", !.next = 1]
  <1>1. /\ RecordsOK /\ m \in AgentRunRecord /\ actions \in ActionTable
        /\ q \in RequestRecord /\ RecordOK(m) /\ AloneOK(q, thread[t], m, actions)
        /\ RequestOK(q, thread[t], phase[t], lease)
        /\ thread \in [Threads -> ThreadRecord]
    BY RequestUse DEF GInv, SerialInv, DataOK
  <1>2. thread[t].phase \in {"acquired", "executing"}
    BY DEF late_result, release_lease, apply_rejected, apply_failure
  <1>3. q.at = "execute" /\ q.step \in Steps /\ q.step = m.current_step
    BY <1>1, <1>2 DEF RequestOK, AloneOK, RequestRecord
  <1>4. done.at = "done"
    BY <1>1, GotoType
  <1>5. next.at = "consume" /\ next.step = q.step /\ next.attempt = q.attempt
    BY <1>1 DEF RequestRecord
  <1> HIDE DEF done, next
  <1>6. ASSUME UNCHANGED <<lease, actions, consumed>>, Kept(m, m'),
               \/ request' = [request EXCEPT ![t] = done]
               \/ /\ request' = [request EXCEPT ![t] = next]
                  /\ Charging(next, m', q.step) => m'.steps[q.step].status # "SUCCEEDED"
        PROVE  ChargeOK(request, m, lease, actions, consumed, ran)'
    <2>1. Budget(done, lease) /\ ~Charging(done, m', done.step) /\ Budget(next, lease)
      BY <1>4, <1>5 DEF Budget, Charging
    <2>2. AllowKept(actions, actions') /\ request[t].at # "consume"
      BY <1>3, <1>6, SameActions
    <2> QED
      BY <1>5, <1>6, <2>1, <2>2, QuietOwnCharge
  <1>7. CASE late_result(t)
    <2>1. /\ UNCHANGED <<lease, actions, consumed, mem>> /\ request' = [request EXCEPT ![t] = done]
      BY <1>7 DEF late_result, apply_rejected, trustVars, Goto, done
    <2>2. Kept(m, m')
      BY <1>1, <2>1, MovesSame, MovesKept DEF m
    <2> QED
      BY <1>6, <2>1, <2>2
  <1>8. CASE release_lease(t)
    <2> DEFINE n == ReleaseLease(m)
    <2>1. /\ UNCHANGED <<lease, actions, consumed>> /\ thread[t].phase = "acquired"
          /\ \/ request' = [request EXCEPT ![t] = done]
             \/ request' = [request EXCEPT ![t] = next]
          /\ \/ UNCHANGED mem
             \/ mem' = [mem EXCEPT ![Run] = n] /\ disk' = mem'
      BY <1>8 DEF release_lease, trustVars, Goto, done, next, Commit, Persist
    <2>2. n \in AgentRunRecord /\ Moves(m, n)
      BY <1>1, LeaseMoves DEF ReleaseLease, LeaseState
    <2> HIDE DEF n
    <2>3. Moves(m, m')
      <3>1. CASE UNCHANGED mem
        BY <1>1, <3>1, MovesSame DEF m
      <3>2. CASE mem' = [mem EXCEPT ![Run] = n] /\ disk' = mem'
        BY <1>1, <2>2, <3>2, StoreRun
      <3> QED
        BY <2>1, <3>1, <3>2
    <2>4. ~Charging(next, m', q.step)
      <3>1. q.attempt = m.steps[q.step].attempt_count + 1
        BY <1>1, <1>3, <2>1 DEF AloneOK
      <3>2. m'.steps[q.step].attempt_count = m.steps[q.step].attempt_count
        BY <1>3, <2>3 DEF Moves, SamePlace
      <3>3. m.steps[q.step].attempt_count \in Nat
        BY <1>1, <1>3 DEF AgentRunRecord, AgentRunStep
      <3> QED
        BY <1>5, <3>1, <3>2, <3>3 DEF Charging
    <2> QED
      BY <1>6, <2>1, <2>3, <2>4, MovesKept
  <1>9. CASE execute_step(t) /\ apply_failure(t)
    <2>1. thread[t].phase = "executing" /\ thread[t].run = Run /\ k \in Steps
      BY <1>1, <1>9, TypeUse, ThreadFields DEF apply_failure, RecordsOK
    <2>2. k = m.current_step /\ m.steps[k].status # "SUCCEEDED"
      BY <1>1, <1>3, <2>1 DEF AloneOK
    <2>3. PICK decision \in VerificationDecision \ {"PASS"} :
            LET target == FailureTarget(m, k, decision)
                y == transition_step(m, k, target)
            IN  /\ can_transition_step(m.steps[k].status, target)
                /\ \/ mem' = [mem EXCEPT ![Run] = ReleaseLease(transition_run(y, target))]
                      /\ disk' = mem'
                   \/ mem' = [mem EXCEPT ![Run] = y] /\ disk' = disk
      BY <1>9, <2>1 DEF apply_failure, Commit, Persist, Abort, m
    <2> DEFINE target == FailureTarget(m, k, decision)
               y == transition_step(m, k, target)
               n == ReleaseLease(transition_run(y, target))
    <2>4. /\ y \in AgentRunRecord /\ n \in AgentRunRecord /\ Moves(m, y) /\ Moves(m, n)
      BY <1>1, <2>1, <2>2, <2>3, FailureMoves
    <2>5. \/ mem' = [mem EXCEPT ![Run] = n] /\ disk' = mem'
          \/ mem' = [mem EXCEPT ![Run] = y] /\ disk' = disk
      BY <2>3
    <2> HIDE DEF y, n
    <2>6. Moves(m, m')
      BY <1>1, <2>4, <2>5, StoreRun
    <2>7. m'.steps[q.step].status # "SUCCEEDED"
      BY <1>3, <2>2, <2>6 DEF Moves
    <2>8. /\ UNCHANGED <<lease, actions, consumed>>
          /\ \/ request' = [request EXCEPT ![t] = done]
             \/ request' = [request EXCEPT ![t] = next]
      <3>1. thread'[t].phase = "idle"
        BY <1>1, <1>9 DEF apply_failure, Return, IdleThread
      <3> QED
        BY <1>9, <3>1 DEF execute_step, trustVars, Goto, done, next
    <2> QED
      BY <1>6, <2>6, <2>7, <2>8, MovesKept
  <1> QED
    BY <1>7, <1>8, <1>9

\* The step passes, and its request begins to charge it.
LEMMA PassCharge ==
  ASSUME GInv, ~raced, RanKept, ChargeOK(request, m, lease, actions, consumed, ran), NEW t \in Threads,
         execute_step(t), apply_pass_next(t) \/ apply_pass_last(t)
  PROVE  ChargeOK(request, m, lease, actions, consumed, ran)'
  <1> DEFINE q == request[t]
             k == thread[t].step
             x == transition_step(m, k, "SUCCEEDED")
             last == ReleaseLease(transition_run(x, "SUCCEEDED"))
             next == [q EXCEPT !.at = "consume", !.next = 1]
  <1>1. /\ RecordsOK /\ m \in AgentRunRecord /\ lease \in CapabilityRecord
        /\ request \in [Threads -> RequestRecord] /\ thread \in [Threads -> ThreadRecord]
        /\ q \in RequestRecord /\ RecordOK(m) /\ AloneOK(q, thread[t], m, actions)
        /\ RequestOK(q, thread[t], phase[t], lease) /\ consumed \subseteq ActionId
    BY RequestUse DEF GInv, SerialInv, DataOK
  <1>2. thread[t].phase = "executing" /\ thread[t].run = Run /\ k \in Steps
    BY <1>1, TypeUse, ThreadFields DEF apply_pass_next, apply_pass_last, RecordsOK
  <1>3. /\ q.at = "execute" /\ q.step = k /\ k = m.current_step /\ m.steps[k].status # "SUCCEEDED"
        /\ q.attempt = m.steps[k].attempt_count
        /\ Allowed(actions, k, q.attempt, ActionCount[k])
    BY <1>1, <1>2 DEF RequestOK, AloneOK
  <1>4. Passes(m, m', k) /\ disk' = mem'
    <2>1. CASE apply_pass_next(t)
      <3>1. PICK i \in Steps : /\ IsNextPending(x, k, i)
                               /\ mem' = [mem EXCEPT ![Run] = PassToNext(m, k, i)] /\ disk' = mem'
        BY <1>2, <2>1 DEF apply_pass_next, Commit, Persist, m
      <3>2. can_transition_step(m.steps[k].status, "SUCCEEDED")
        BY <1>2, <2>1 DEF apply_pass_next, m
      <3>3. PassToNext(m, k, i) \in AgentRunRecord /\ Passes(m, PassToNext(m, k, i), k)
        BY <1>1, <1>2, <1>3, <3>1, <3>2, PassNextMoves, PassesRunning
      <3> QED
        BY <1>1, <3>1, <3>3, StoreRun
    <2>2. CASE apply_pass_last(t)
      <3>1. /\ can_transition_step(m.steps[k].status, "SUCCEEDED")
            /\ \/ can_transition_run(m.status, "SUCCEEDED") /\ mem' = [mem EXCEPT ![Run] = last]
                  /\ disk' = mem'
               \/ ~can_transition_run(m.status, "SUCCEEDED")
        BY <1>2, <2>2 DEF apply_pass_last, Commit, Persist, Abort, m
      <3>2. /\ last \in AgentRunRecord
            /\ Passes(m, last, k) /\ can_transition_run(m.status, "SUCCEEDED")
        BY <1>1, <1>2, <1>3, <3>1, PassLastMoves, PassesRunning
      <3> HIDE DEF last
      <3> QED
        BY <1>1, <3>1, <3>2, StoreRun
    <2> QED
      BY <2>1, <2>2
  <1>5. UNCHANGED <<lease, actions, consumed>> /\ request' = [request EXCEPT ![t] = next]
    <2>1. thread'[t].phase = "idle"
      BY <1>1 DEF apply_pass_next, apply_pass_last, Return, IdleThread
    <2> QED
      BY <1>4, <2>1 DEF execute_step, trustVars
  <1>6. /\ next.at = "consume" /\ next.step = k /\ next.attempt = q.attempt /\ next.next = 1
        /\ next.timeout = q.timeout
    BY <1>1, <1>3 DEF RequestRecord
  <1> HIDE DEF next
  <1>7. request'[t] = next /\ \A u \in Threads : u # t => request'[u] = request[u]
    BY <1>1, <1>5
  <1>8. /\ m'.steps[k].status = "SUCCEEDED"
        /\ \A j \in Steps : m'.steps[j].attempt_count = m.steps[j].attempt_count
        /\ \A j \in Steps \ {k} : m'.steps[j].status = "SUCCEEDED" <=> m.steps[j].status = "SUCCEEDED"
    BY <1>4 DEF Passes
  <1>9. \A a \in consumed' : m'.steps[a[1]].status = "SUCCEEDED"
    <2>1. \A a \in ActionId : a[1] \in Steps
      BY DEF ActionId
    <2> QED
      BY <1>1, <1>5, <1>8, <2>1 DEF ChargeOK
  <1>10. Budget(next, lease') /\ Paying(next, m', lease', actions', consumed', ran')
    <2>1. ActionCount[k] \in Nat /\ ActionCount[k] + 1 - 1 = ActionCount[k]
      <3>1. ActionCount[k] \in Nat
        BY <1>2, GovernedAssumption
      <3> QED
        BY <3>1
    <2>2. lease.status = "ACTIVE" => lease.runtime + ActionCount[k] * q.timeout <= MaxRuntime
      BY <1>3 DEF ChargeOK, Budget
    <2>3. lease.status = "ACTIVE" =>
            lease.runtime + (ActionCount[k] + 1 - next.next) * next.timeout <= MaxRuntime
      BY <1>6, <2>1, <2>2
    <2>4. next.next <= ActionCount[k] + 1
      BY <1>6, <2>1
    <2>5. ASSUME NEW i \in 1 .. ActionCount[k]
          PROVE  <<k, next.attempt, i>> \notin consumed /\ ~(i < next.next)
      <3>1. <<k, next.attempt, i>>[1] = k
        OBVIOUS
      <3> QED
        BY <1>3, <1>6, <2>1, <3>1 DEF ChargeOK
    <2>6. ran'[k].reserved = ActionCount[k] * next.timeout
      <3>1. PICK seconds \in Durations : ran' = Stamped(t, seconds)
        BY Zenon DEF execute_step
      <3> QED
        BY <1>2, <1>3, <1>6, <1>8, <3>1 DEF Stamped
    <2> QED
      BY <1>3, <1>5, <1>6, <2>3, <2>4, <2>5, <2>6 DEF Budget, Paying
  <1>11. ASSUME NEW u \in Threads, u # t
         PROVE  Budget(request'[u], lease') /\ Paying(request'[u], m', lease', actions', consumed', ran')
    <2>1. phase[t] = "active" /\ phase[u] # "active"
      <3>1. phase[t] = "active"
        BY <1>1, <1>3 DEF RequestOK
      <3> QED
        BY <1>11, <3>1 DEF GInv, SerialInv
    <2>2. request'[u].at = "idle"
      BY <1>7, <1>11, <2>1 DEF GInv, RequestOK
    <2> QED
      BY <2>2 DEF Budget, Paying, Charging
  <1>12. ASSUME lease'.status # "ENDED", NEW j \in Steps, m'.steps[j].status = "SUCCEEDED"
         PROVE  Accounted(j, request', m', lease', consumed', ran')
    <2>1. CASE j = k
      <3>1. Charging(request'[t], m', j)
        BY <1>3, <1>6, <1>7, <1>8, <2>1 DEF Charging
      <3> QED
        BY <3>1 DEF Accounted
    <2>2. CASE j # k
      <3>1. Accounted(j, request, m, lease, consumed, ran)
        BY <1>5, <1>8, <1>12, <2>2 DEF ChargeOK
      <3>2. \A u \in Threads : Charging(request[u], m, j) => Charging(request'[u], m', j)
        BY <1>3, <1>7, <1>8 DEF Charging
      <3>3. Overran(ran, j) => Overran(ran', j)
        BY <1>8, <1>12, <2>2 DEF RanKept, Overran
      <3> QED
        BY <1>5, <1>8, <3>1, <3>2, <3>3 DEF Accounted, ChargedIn
    <2> QED
      BY <2>1, <2>2
  <1> QED
    BY <1>7, <1>9, <1>10, <1>11, <1>12 DEF ChargeOK

\* What remains to be paid, before and after one of n actions is paid.
LEMMA OneLess ==
  ASSUME NEW n \in Nat, n >= 1, NEW timeout \in Nat, NEW paid \in Nat, paid <= timeout,
         NEW runtime \in Nat, runtime + n * timeout <= MaxRuntime
  PROVE  /\ runtime + paid <= MaxRuntime
         /\ runtime + paid + (n - 1) * timeout <= MaxRuntime
  <1> DEFINE rest == (n - 1) * timeout
  <1>1. MaxRuntime \in Nat /\ n - 1 \in Nat
    BY GovernedAssumption
  <1>2. n * timeout = rest + timeout
    BY <1>1
  <1>3. rest \in Nat
    BY <1>1
  <1> HIDE DEF rest
  <1>4. runtime + paid <= MaxRuntime /\ runtime + paid + rest <= MaxRuntime
    BY <1>1, <1>2, <1>3
  <1> QED
    BY <1>4 DEF rest

\* A step that took no longer than n timeouts charges each of its n actions no
\* more than one timeout.
LEMMA ShareBound ==
  ASSUME NEW n \in Nat, n >= 1, NEW timeout \in Nat, NEW i \in Nat \ {0},
         NEW seconds \in Nat, seconds <= n * timeout
  PROVE  Share(seconds, n, i) \in Nat /\ Share(seconds, n, i) <= timeout
  <1> DEFINE d == seconds \div n
             r == seconds % n
  <1>1. d \in Nat /\ r \in Nat /\ r < n /\ seconds = n * d + r
    OBVIOUS
  <1> HIDE DEF d, r
  <1>2. d <= timeout
    <2>1. SUFFICES ASSUME d >= timeout + 1 PROVE FALSE
      BY <1>1
    <2>2. n * d >= n * (timeout + 1) /\ n * (timeout + 1) = n * timeout + n
      BY <1>1, <2>1
    <2>3. n * d \in Nat /\ n * timeout \in Nat
      BY <1>1
    <2> QED
      BY <1>1, <2>2, <2>3
  <1>3. d = timeout => r = 0
    BY <1>1
  <1>4. Share(seconds, n, i) = d + (IF i <= r THEN 1 ELSE 0)
    BY DEF Share, d, r
  <1> QED
    BY <1>1, <1>2, <1>3, <1>4

\* consume_effective_action pays for an action, or refuses it for a reason.
LEMMA ConsumeCharge ==
  ASSUME GInv, SecondsOK, ~raced, RanKept, ChargeOK(request, m, lease, actions, consumed, ran), NEW t \in Threads,
         consume_run_step_actions(t)
  PROVE  ChargeOK(request, m, lease, actions, consumed, ran)'
  <1> DEFINE q == request[t]
             a == Current(q)
             k == q.step
             left == ActionCount[k] + 1 - q.next
             retry == IF q.next = 1 /\ m.steps[k].attempt_count > 1 THEN 1 ELSE 0
             share == Share(ran[k].seconds, ActionCount[k], q.next)
             due == /\ m.steps[k].status = "SUCCEEDED" /\ q.next <= ActionCount[k]
                    /\ actions[a].decision = "ALLOW"
             able == /\ due /\ a \notin consumed /\ lease.status = "ACTIVE"
                     /\ lease.runtime + share <= MaxRuntime
                     /\ lease.retries + retry <= MaxRetries
             done == [q EXCEPT !.at = "done"]
             next == [q EXCEPT !.next = @ + 1]
             ours == Charging(q, m, k) /\ m.steps[k].status = "SUCCEEDED"
  <1>1. /\ phase[t] = "active" /\ q.at = "consume" /\ UNCHANGED <<mem, actions>>
        /\ ran' = ran
        /\ \/ /\ ~able /\ ~(due /\ a \in consumed)
              /\ request' = [request EXCEPT ![t] = done] /\ UNCHANGED <<lease, consumed>>
           \/ /\ due /\ a \in consumed
              /\ request' = [request EXCEPT ![t] = next] /\ UNCHANGED <<lease, consumed>>
           \/ /\ able
              /\ lease' = [lease EXCEPT !.runtime = lease.runtime + share, !.retries = @ + retry]
              /\ consumed' = consumed \cup {a}
              /\ request' = [request EXCEPT ![t] = next]
    BY DEF consume_run_step_actions, At, Goto
  <1>2. /\ m \in AgentRunRecord /\ lease \in CapabilityRecord /\ m' = m
        /\ request \in [Threads -> RequestRecord] /\ q \in RequestRecord
        /\ RequestOK(q, thread[t], phase[t], lease) /\ consumed \subseteq ActionId
    BY <1>1, RequestUse DEF m
  <1>3. /\ k \in Steps /\ q.next \in Nat /\ q.next >= 1 /\ q.timeout \in Nat
        /\ ActionCount[k] \in Nat /\ lease.runtime \in Nat /\ lease.retries \in Nat
        /\ lease.retries <= MaxRetries /\ MaxRetries \in Nat /\ lease.status # "none"
        /\ lease.status \in {"none", "ACTIVE", "ENDED"}
    <2>1. k \in Steps /\ q.next \in Nat /\ lease.runtime \in 0 .. MaxRuntime
          /\ lease.retries \in 0 .. MaxRetries /\ lease.status \in {"none", "ACTIVE", "ENDED"}
      BY <1>2 DEF RequestRecord, CapabilityRecord
    <2>2. q.next >= 1 /\ q.timeout \in Timeouts /\ lease.status # "none"
      BY <1>1, <1>2 DEF RequestOK
    <2>3. /\ ActionCount[k] \in Nat /\ Timeouts \subseteq Nat
          /\ MaxRuntime \in Nat /\ MaxRetries \in Nat
      BY <2>1, GovernedAssumption
    <2>4. lease.runtime \in Nat /\ lease.retries \in Nat /\ lease.retries <= MaxRetries
      BY <2>1, <2>3
    <2> QED
      BY <2>1, <2>2, <2>3, <2>4
  <1>4. retry \in {0, 1} /\ (retry = 1 => m.steps[k].attempt_count > 1)
    OBVIOUS
  <1>5. \A u \in Threads \ {t} : request[u].at = "idle"
    BY <1>1 DEF GInv, SerialInv, RequestOK
  <1>6. ours =>
          /\ q.next <= ActionCount[k] + 1
          /\ Allowed(actions, k, q.attempt, ActionCount[k])
          /\ \A i \in 1 .. ActionCount[k] : <<k, q.attempt, i>> \in consumed <=> i < q.next
          /\ ran[k].reserved = ActionCount[k] * q.timeout
          /\ lease.status = "ACTIVE" /\ ~Overran(ran, k) =>
                lease.runtime + left * q.timeout <= MaxRuntime
    BY DEF ChargeOK, Paying
  <1>7. ours /\ q.next <= ActionCount[k] => actions[a].decision = "ALLOW" /\ a \notin consumed
    <2> SUFFICES ASSUME ours, q.next <= ActionCount[k]
                 PROVE  actions[a].decision = "ALLOW" /\ a \notin consumed
      OBVIOUS
    <2>1. q.next \in 1 .. ActionCount[k] /\ ~(q.next < q.next)
      BY <1>3
    <2> QED
      BY <1>6, <2>1 DEF Allowed, Current
  <1>8. ours /\ q.next <= ActionCount[k] /\ lease.status = "ACTIVE" /\ ~Overran(ran, k) =>
          /\ lease.runtime + share <= MaxRuntime
          /\ lease.runtime + share + (left - 1) * q.timeout <= MaxRuntime
    <2> SUFFICES ASSUME ours, q.next <= ActionCount[k], lease.status = "ACTIVE",
                        ~Overran(ran, k)
                 PROVE  /\ lease.runtime + share <= MaxRuntime
                        /\ lease.runtime + share + (left - 1) * q.timeout <= MaxRuntime
      OBVIOUS
    <2>1. left \in Nat /\ left >= 1 /\ ActionCount[k] >= 1 /\ q.next \in Nat \ {0}
      BY <1>3
    <2>2. lease.runtime + left * q.timeout <= MaxRuntime
      BY <1>6
    <2>3. q.timeout \in Nat /\ lease.runtime \in Nat /\ ActionCount[k] \in Nat
      BY <1>3
    <2>4. ran[k].seconds \in Nat /\ ran[k].reserved = ActionCount[k] * q.timeout
      BY <1>3, <1>6 DEF SecondsOK
    <2>5. ran[k].seconds <= ActionCount[k] * q.timeout
      <3>1. ActionCount[k] * q.timeout \in Nat
        BY <2>3
      <3> HIDE DEF k, q
      <3> QED
        BY <2>4, <3>1 DEF Overran
    <2>6. share \in Nat /\ share <= q.timeout
      <3> HIDE DEF k, q
      <3> QED
        BY <2>1, <2>3, <2>4, <2>5, ShareBound
    <2> HIDE DEF left, q, share
    <2> QED
      BY <2>1, <2>2, <2>3, <2>6, OneLess, Zenon
  <1> HIDE DEF retry, a, share
  <1>9. CASE /\ request' = [request EXCEPT ![t] = done] /\ UNCHANGED <<lease, consumed>>
             /\ ~able /\ ~(due /\ a \in consumed)
    <2>1. done.at = "done"
      BY <1>2, GotoType
    <2> HIDE DEF done
    <2>2. request'[t] = done /\ \A u \in Threads : u # t => request'[u] = request[u]
      BY <1>2, <1>9
    <2>3. \A u \in Threads : /\ Budget(request'[u], lease')
                             /\ Paying(request'[u], m', lease', actions', consumed', ran')
      BY <1>5, <2>1, <2>2 DEF Budget, Paying, Charging
    <2>4. ASSUME lease.status # "ENDED", NEW j \in Steps, m.steps[j].status = "SUCCEEDED"
          PROVE  Accounted(j, request', m, lease, consumed, ran)
      <3>1. Accounted(j, request, m, lease, consumed, ran)
        BY <2>4 DEF ChargeOK
      <3>2. ASSUME Charging(q, m, j) PROVE Accounted(j, request', m, lease, consumed, ran)
        <4>1. ours /\ j = k /\ q.attempt = m.steps[k].attempt_count /\ lease.status = "ACTIVE"
          BY <1>3, <2>4, <3>2 DEF Charging
        <4>2. CASE q.next > ActionCount[k]
          <5>1. \A i \in 1 .. ActionCount[k] : i < q.next
            BY <1>3, <4>2
          <5>2. ChargedIn(consumed, m, k)
            BY <1>6, <4>1, <5>1 DEF ChargedIn
          <5> QED
            BY <4>1, <5>2 DEF Accounted
        <4>3. CASE q.next <= ActionCount[k]
          <5>1. Overran(ran, k) \/ ~(lease.retries + retry <= MaxRetries)
            BY <1>7, <1>8, <1>9, <4>1, <4>3
          <5>2. ~(lease.retries + retry <= MaxRetries) => lease.retries = MaxRetries /\ retry = 1
            BY <1>3, <1>4
          <5> QED
            BY <1>4, <4>1, <5>1, <5>2 DEF Accounted
        <4> QED
          BY <1>3, <4>2, <4>3
      <3>3. \A u \in Threads : Charging(request[u], m, j) => u = t
        BY <1>5 DEF Charging
      <3> QED
        BY <3>1, <3>2, <3>3 DEF Accounted
    <2> QED
      BY <1>1, <1>2, <1>9, <2>3, <2>4 DEF ChargeOK
  <1>10. ASSUME able,
                lease' = [lease EXCEPT !.runtime = lease.runtime + share, !.retries = @ + retry],
                consumed' = consumed \cup {a}, request' = [request EXCEPT ![t] = next]
         PROVE  ChargeOK(request, m, lease, actions, consumed, ran)'
    <2>1. /\ next.at = "consume" /\ next.step = k /\ next.attempt = q.attempt
          /\ next.next = q.next + 1 /\ next.timeout = q.timeout
      BY <1>1, <1>2 DEF RequestRecord
    <2> HIDE DEF next
    <2>2. request'[t] = next /\ \A u \in Threads : u # t => request'[u] = request[u]
      BY <1>2, <1>10
    <2>3. /\ lease'.status = lease.status /\ lease'.runtime = lease.runtime + share
          /\ lease'.retries = lease.retries + retry
      BY <1>2, <1>10 DEF CapabilityRecord
    <2>4. \A b \in consumed' : m'.steps[b[1]].status = "SUCCEEDED"
      <3>1. a[1] = k
        BY DEF a, Current
      <3> QED
        BY <1>2, <1>10, <3>1 DEF ChargeOK
    <2>5. \A u \in Threads \ {t} : /\ Budget(request'[u], lease')
                                   /\ Paying(request'[u], m', lease', actions', consumed', ran')
      BY <1>5, <2>2 DEF Budget, Paying, Charging
    <2>6. Budget(next, lease')
      BY <2>1 DEF Budget
    <2>7. Paying(next, m', lease', actions', consumed', ran')
      <3> SUFFICES ASSUME ours
                   PROVE  /\ next.next <= ActionCount[k] + 1
                          /\ Allowed(actions', k, next.attempt, ActionCount[k])
                          /\ \A i \in 1 .. ActionCount[k] :
                                <<k, next.attempt, i>> \in consumed' <=> i < next.next
                          /\ ran'[k].reserved = ActionCount[k] * next.timeout
                          /\ lease'.status = "ACTIVE" /\ ~Overran(ran', k) =>
                               lease'.runtime + (ActionCount[k] + 1 - next.next) * next.timeout
                                  <= MaxRuntime
        BY <1>1, <1>2, <2>1 DEF Paying, Charging
      <3>1. next.next <= ActionCount[k] + 1 /\ ActionCount[k] + 1 - next.next = left - 1
        BY <1>3, <1>10, <2>1
      <3>2. \A i \in 1 .. ActionCount[k] : <<k, next.attempt, i>> \in consumed' <=> i < next.next
        <4> SUFFICES ASSUME NEW i \in 1 .. ActionCount[k]
                     PROVE  <<k, q.attempt, i>> \in consumed' <=> i < q.next + 1
          BY <2>1
        <4>1. <<k, q.attempt, i>> = a <=> i = q.next
          BY DEF a, Current
        <4>2. i < q.next + 1 <=> (i < q.next \/ i = q.next)
          BY <1>3
        <4> QED
          BY <1>6, <1>10, <4>1, <4>2
      <3>3. ~Overran(ran, k) => lease'.runtime + (left - 1) * q.timeout <= MaxRuntime
        BY <1>8, <1>10, <2>3
      <3> QED
        BY <1>1, <1>6, <2>1, <3>1, <3>2, <3>3
    <2>8. ASSUME lease'.status # "ENDED", NEW j \in Steps, m'.steps[j].status = "SUCCEEDED"
          PROVE  Accounted(j, request', m', lease', consumed', ran')
      <3>1. Accounted(j, request, m, lease, consumed, ran)
        BY <1>2, <2>3, <2>8 DEF ChargeOK
      <3>2. \A u \in Threads : Charging(request[u], m, j) => Charging(request'[u], m', j)
        BY <1>1, <1>2, <2>1, <2>2 DEF Charging
      <3>3. lease.retries = MaxRetries => lease'.retries = MaxRetries
        BY <1>3, <1>4, <1>10, <2>3
      <3>4. ChargedIn(consumed, m, j) => ChargedIn(consumed', m', j)
        BY <1>2, <1>10 DEF ChargedIn
      <3> QED
        BY <1>1, <1>2, <3>1, <3>2, <3>3, <3>4 DEF Accounted
    <2> QED
      BY <2>2, <2>4, <2>5, <2>6, <2>7, <2>8 DEF ChargeOK
  <1>11. ASSUME due, a \in consumed, UNCHANGED <<lease, consumed>>,
                request' = [request EXCEPT ![t] = next]
         PROVE  ChargeOK(request, m, lease, actions, consumed, ran)'
    <2>1. next.at = "consume" /\ next.step = k /\ next.attempt = q.attempt
      BY <1>1, <1>2 DEF RequestRecord
    <2> HIDE DEF next
    <2>2. request'[t] = next /\ \A u \in Threads : u # t => request'[u] = request[u]
      BY <1>2, <1>11
    <2>3. ~Charging(next, m, k)
      BY <1>1, <1>7, <1>11, <2>1 DEF Charging
    <2>4. \A u \in Threads : /\ Budget(request'[u], lease')
                             /\ Paying(request'[u], m', lease', actions', consumed', ran')
      BY <1>2, <1>5, <2>1, <2>2, <2>3 DEF Budget, Paying, Charging
    <2>5. \A u \in Threads, j \in Steps :
             Charging(request[u], m, j) => Charging(request'[u], m', j)
      BY <1>1, <1>2, <2>1, <2>2 DEF Charging
    <2>6. ASSUME lease'.status # "ENDED", NEW j \in Steps, m'.steps[j].status = "SUCCEEDED"
          PROVE  Accounted(j, request', m', lease', consumed', ran')
      <3>1. Accounted(j, request, m, lease, consumed, ran)
        BY <1>2, <1>11, <2>6 DEF ChargeOK
      <3> QED
        BY <1>1, <1>2, <1>11, <2>5, <3>1 DEF Accounted, ChargedIn
    <2>7. \A b \in consumed' : m'.steps[b[1]].status = "SUCCEEDED"
      BY <1>2, <1>11 DEF ChargeOK
    <2> QED
      BY <2>4, <2>6, <2>7 DEF ChargeOK
  <1> HIDE DEF able, due, done, next
  <1> QED
    BY <1>1, <1>9, <1>10, <1>11

\* Every step of the governed run keeps the charges in order.
LEMMA ChargeStep == GInv /\ SecondsOK /\ ChargeInv /\ [GovernedNext]_governedVars => ChargeInv'
  <1> SUFFICES ASSUME GInv, SecondsOK, ChargeInv, [GovernedNext]_governedVars, ~raced', ~crashed'
               PROVE  ChargeOK(request, m, lease, actions, consumed, ran)'
    BY DEF ChargeInv
  <1>a. RanKept
    BY DurationsKept
  <1>1. CASE UNCHANGED governedVars
    BY <1>1 DEF governedVars, runVars, trustVars, ChargeInv, m
  <1>2. CASE GovernedNext
    <2>1. ~Restart
      BY DEF Restart
    <2>2. ~raced /\ ~crashed
      <3>1. ASSUME NEW t \in Threads, RequestStep(t) PROVE ~raced /\ crashed' = crashed
        <4>1. CASE enter_request(t)
          <5>1. crashed' = crashed
            BY <4>1 DEF enter_request
          <5>2. raced' = raced \/ raced' = (raced \/ \E u \in Threads : phase[u] = "active")
            BY <4>1, Zenon DEF enter_request
          <5>3. raced' = raced => ~raced
            OBVIOUS
          <5>4. raced' = (raced \/ \E u \in Threads : phase[u] = "active") => ~raced
            OBVIOUS
          <5> QED
            BY <5>1, <5>2, <5>3, <5>4, Zenon
        <4>2. CASE leave_request(t)
          <5>1. raced' = raced /\ crashed' = crashed
            BY <4>2 DEF leave_request
          <5> QED
            BY <5>1, Zenon
        <4>3. CASE ~(enter_request(t) \/ leave_request(t))
          <5>1. consume_run_step_actions(t) \/ execute_step(t) =>
                  raced' = raced /\ crashed' = crashed
            BY DEF consume_run_step_actions, execute_step
          <5>2. (\E timeout \in Timeouts : validate_lease_for_run(t, timeout)) => Frame
            BY DEF validate_lease_for_run
          <5>3. \/ ensure_run_capability(t) \/ refuse_request(t) \/ authorize_action(t)
                \/ authorized(t) \/ acquire_lease(t) \/ late_result(t)
                \/ release_lease(t)
                => Frame
            BY DEF ensure_run_capability, refuse_request, authorize_action, authorized,
                   acquire_lease, late_result, release_lease
          <5>4. Frame => raced' = raced /\ crashed' = crashed
            BY DEF Frame
          <5>5. raced' = raced /\ crashed' = crashed
            BY <3>1, <4>3, <5>1, <5>2, <5>3, <5>4, Zenon DEF RequestStep
          <5> QED
            BY <5>5, Zenon
        <4> QED
          BY <4>1, <4>2, <4>3
      <3>2. SupervisorStep \/ TrustStep => raced' = raced /\ crashed' = crashed
        BY DEF SupervisorStep, TrustStep, Frame, attach_capability_lease, end_capability_lease,
               record_action_authorization
      <3>3. ~raced /\ crashed' = crashed
        <4>1. raced' = raced => ~raced
          OBVIOUS
        <4> QED
          BY <1>2, <2>1, <3>1, <3>2, <4>1, Zenon DEF GovernedNext
      <3>4. crashed' = crashed => ~crashed
        OBVIOUS
      <3> QED
        BY <3>3, <3>4, Zenon
    <2>3. ChargeOK(request, m, lease, actions, consumed, ran)
      BY <2>2 DEF ChargeInv
    <2>4. ASSUME NEW t \in Threads, RequestStep(t)
          PROVE  ChargeOK(request, m, lease, actions, consumed, ran)'
      <3>1. CASE \/ enter_request(t) \/ leave_request(t)
                 \/ ensure_run_capability(t) \/ refuse_request(t)
        BY <1>a, <2>2, <2>3, <3>1, EnterLeaveCharge
      <3>2. CASE \E timeout \in Timeouts : validate_lease_for_run(t, timeout)
        BY <1>a, <2>2, <2>3, <3>2, ValidateCharge
      <3>3. CASE authorize_action(t) \/ authorized(t)
        BY <1>a, <2>2, <2>3, <3>3, AuthorizeCharge
      <3>4. CASE acquire_lease(t) \/ (execute_step(t) /\ start_step(t))
        BY <1>a, <2>2, <2>3, <3>4, StartCharge
      <3>5. CASE execute_step(t) /\ (apply_pass_next(t) \/ apply_pass_last(t))
        BY <1>a, <2>2, <2>3, <3>5, PassCharge
      <3>6. CASE \/ late_result(t) \/ release_lease(t)
                 \/ execute_step(t) /\ apply_failure(t)
        BY <1>a, <2>2, <2>3, <3>6, FailureCharge
      <3>7. CASE consume_run_step_actions(t)
        BY <1>a, <2>2, <2>3, <3>7, ConsumeCharge
      <3>8. execute_step(t) =>
              start_step(t) \/ apply_pass_next(t) \/ apply_pass_last(t) \/ apply_failure(t)
        BY DEF execute_step
      <3> QED
        BY <2>4, <3>1, <3>2, <3>3, <3>4, <3>5, <3>6, <3>7, <3>8 DEF RequestStep
    <2> QED
      BY <1>a, <1>2, <2>1, <2>2, <2>3, <2>4, SupervisorCharge, TrustCharge DEF GovernedNext
  <1> QED
    BY <1>1, <1>2

\* No step has passed when the run is created.
LEMMA ChargeStart == GovernedInit => ChargeInv
  <1> SUFFICES ASSUME GovernedInit PROVE ChargeOK(request, m, lease, actions, consumed, ran)
    BY DEF ChargeInv
  <1>1. /\ m = NewRun /\ consumed = {}
        /\ \A t \in Threads : request[t] = NoRequest
    BY GovernedAssumption DEF GovernedInit, m
  <1>2. NoRequest.at = "idle"
    BY DEF NoRequest
  <1>3. \A k \in Steps : m.steps[k].status # "SUCCEEDED"
    BY <1>1, StepsNonEmpty DEF NewRun, AbsentRun, NewStep
  <1> QED
    BY <1>1, <1>2, <1>3 DEF ChargeOK, Budget, Paying, Charging

\* The charges stay in order.
THEOREM ChargeInvariance == GovernedSpec => []ChargeInv
  BY ChargeStart, ChargeStep, GovernedInvariance, SecondsInvariance, PTL DEF GovernedSpec

\* A step that passed is charged to the lease in full, for any number of steps,
\* actions, requests, timeouts, durations and any budget, unless the lease
\* ended, its retries were used up, the process died, a second request got past
\* the lock or the step took longer than its preflight had reserved: what
\* _preflight_aggregate_budget reserves suffices for the shares of the wall time
\* that consume_run_step_actions charges one by one.
THEOREM StepsCharged == GovernedSpec => []UnchargedHasCause
  <1>1. GInv /\ ChargeInv => UnchargedHasCause
    <2> SUFFICES ASSUME GInv, ChargeInv, NEW k \in Steps, m.steps[k].status = "SUCCEEDED",
                        NobodyConsumes(k), ~Charged(k), lease.status # "ENDED", ~crashed, ~raced
                 PROVE  \/ lease.retries = MaxRetries /\ m.steps[k].attempt_count > 1
                        \/ ran[k].seconds > ran[k].reserved
      BY DEF UnchargedHasCause
    <2>1. Accounted(k, request, m, lease, consumed, ran)
      BY DEF ChargeInv, ChargeOK
    <2> QED
      BY <2>1 DEF Accounted, ChargedIn, Charged, Charging, NobodyConsumes, Overran
  <1> QED
    BY <1>1, ChargeInvariance, GovernedInvariance, PTL
=============================================================================
