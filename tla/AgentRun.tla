------------------------------ MODULE AgentRun ------------------------------
(***************************************************************************)
(* The Mission Control run supervisor (backend/app/agent_run_supervisor.py *)
(* behind backend/app/agent_run_routes.py): durable runs made of ordered   *)
(* steps, executed by request threads under a lease, controlled by an      *)
(* operator, recovered by a watchdog and reloaded from SQLite after a      *)
(* crash of the API process.                                               *)
(*                                                                         *)
(* The supervisor's handlers are operators on one run record; an action    *)
(* applies one of them to the store.  The code of a handler between two    *)
(* blocking calls (store.persist, the step executor) is one step.  Clock   *)
(* values are abstract: a lease is live or expired, a retry backoff is due *)
(* or not, and LeaseExpires and BackoffElapses let time pass.              *)
(***************************************************************************)
EXTENDS AgentRunStateMachine

CONSTANTS
    Runs,         \* identifiers of AgentRuns of one AgentTask
    Threads,      \* request threads of the API process
    StepCount,    \* length of DEFAULT_AGENT_RUN_STEPS
    MaxAttempts,  \* max_attempts_per_step
    MaxResumes    \* bound: resume calls the operator makes per run

ASSUME StepCountAssumption == StepCount \in Nat \ {0}
ASSUME MaxAttemptsAssumption == MaxAttempts \in Nat \ {0}
ASSUME MaxResumesAssumption == MaxResumes \in Nat

VARIABLES
    mem,        \* store.agent_runs and store.agent_run_steps, in memory
    disk,       \* the same, as last written by store.persist
    thread,     \* what each request thread is doing in execute-next
    taskReady   \* the AgentTask and its ApprovalRequest are APPROVED

vars == <<mem, disk, thread, taskReady>>

Steps == 0 .. (StepCount - 1)
LeaseState == {"none", "live", "expired"}

AgentRunStep ==
    [status : AgentRunStepStatus, attempt_count : Nat, due : BOOLEAN]

AgentRunRecord ==
    [status          : AgentRunStatus \cup {"ABSENT"},
     pause_requested : BOOLEAN,
     current_step    : Steps,
     lease           : LeaseState,
     resumes         : Nat,
     steps           : [Steps -> AgentRunStep]]

\* A thread outside execute-next, one that holds the lease, and one that is
\* inside the executor for the given attempt of the given step.
ThreadRecord ==
    [phase : {"idle"}]
        \cup [phase : {"acquired"}, run : Runs]
        \cup [phase : {"executing"}, run : Runs, step : Steps, attempt : Nat]

IdleThread == [phase |-> "idle"]

NewStep(status) == [status |-> status, attempt_count |-> 0, due |-> FALSE]

AbsentRun ==
    [status          |-> "ABSENT",
     pause_requested |-> FALSE,
     current_step    |-> 0,
     lease           |-> "none",
     resumes         |-> 0,
     steps           |-> [k \in Steps |-> NewStep("PENDING")]]

NewRun ==
    [AbsentRun EXCEPT !.status = "SCHEDULED", !.steps[0] = NewStep("READY")]

----------------------------------------------------------------------------
(* Handlers, on the record m of one run.                                   *)

Live(m) == m.status \notin TERMINAL_RUN_STATUSES \cup {"ABSENT"}

\* A run that create_agent_run returns instead of creating another one.
Existing(m) == m.status \notin {"ABSENT", "FAILED", "CANCELLED", "BLOCKED"}

\* transition_run, for a legal target.
transition_run(m, target) ==
    [m EXCEPT !.status = target,
              !.lease  = IF target \in TERMINAL_RUN_STATUSES /\ target # m.status
                         THEN "none" ELSE @]

\* transition_step, for a legal target.
transition_step(m, k, target) ==
    [m EXCEPT !.steps[k] =
        [status        |-> target,
         attempt_count |-> IF target = "RUNNING" /\ @.status # "RUNNING"
                           THEN @.attempt_count + 1 ELSE @.attempt_count,
         due           |-> FALSE]]

\* next_retry_at of step k is not in the future.
RetryDue(m, k) == [m EXCEPT !.steps[k].due = TRUE]

\* _require_step_boundary.
StepBoundary(m) ==
    m.steps[m.current_step].status # "RUNNING" /\ m.lease = "none"

\* _ready_step: the first step that has not passed, when it can start now.
FirstOpenStep(m, k) ==
    /\ m.steps[k].status \notin {"SUCCEEDED", "SKIPPED"}
    /\ \A j \in 0 .. (k - 1) : m.steps[j].status \in {"SUCCEEDED", "SKIPPED"}

ready_step(m, k) ==
    /\ FirstOpenStep(m, k)
    /\ \/ m.steps[k].status = "READY"
       \/ m.steps[k].status = "RETRY_WAIT" /\ m.steps[k].due

\* execute_next_step up to the executor call, for the ready step k.
StartStep(m, k) ==
    LET started == transition_step(m, k, "RUNNING") IN
    [started EXCEPT
        !.current_step = k,
        !.status = IF @ \in {"SCHEDULED", "RETRY_WAIT"} THEN "RUNNING" ELSE @]

\* Mutant: the search for the next step starts one step too far.
IsNextPendingSkips(m, k, n) ==
    /\ n > k + 1 /\ m.steps[n].status = "PENDING"
    /\ \A j \in (k + 2) .. (n - 1) : m.steps[j].status # "PENDING"

\* Mutant: the search for the next step stops one step too early.
IsNextPendingShort(m, k, n) ==
    /\ n > k /\ n < StepCount - 1 /\ m.steps[n].status = "PENDING"
    /\ \A j \in (k + 1) .. (n - 1) : m.steps[j].status # "PENDING"

\* _next_pending_step: n is the first PENDING step after k.
IsNextPending(m, k, n) ==
    /\ n > k /\ m.steps[n].status = "PENDING"
    /\ \A j \in (k + 1) .. (n - 1) : m.steps[j].status # "PENDING"

\* Mutant: the attempt that reaches the budget may be repeated.
FailureTargetOffByOne(m, k, decision) ==
    CASE decision = "RETRY_TRANSIENT" ->
            IF m.steps[k].attempt_count <= MaxAttempts
            THEN "RETRY_WAIT" ELSE "NEEDS_HUMAN"
      [] decision \in {"NEEDS_REVISION", "NEEDS_HUMAN"} -> "NEEDS_HUMAN"
      [] decision = "BLOCK_POLICY"   -> "BLOCKED"
      [] decision = "FAIL_PERMANENT" -> "FAILED"

\* The status that _apply_execution_result gives to both step and run.
FailureTarget(m, k, decision) ==
    CASE decision = "RETRY_TRANSIENT" ->
            IF m.steps[k].attempt_count < MaxAttempts
            THEN "RETRY_WAIT" ELSE "NEEDS_HUMAN"
      [] decision \in {"NEEDS_REVISION", "NEEDS_HUMAN"} -> "NEEDS_HUMAN"
      [] decision = "BLOCK_POLICY"   -> "BLOCKED"
      [] decision = "FAIL_PERMANENT" -> "FAILED"

\* The run with another lease; the end of execute_next_step drops it.
WithLease(m, lease) == [m EXCEPT !.lease = lease]

ReleaseLease(m) == WithLease(m, "none")

\* The run after its step k passed and step n became ready.
PassToNext(m, k, n) ==
    ReleaseLease(
        [transition_step(transition_step(m, k, "SUCCEEDED"), n, "READY") EXCEPT
            !.current_step = n, !.status = "RUNNING"])

\* Mutant: the watchdog drops the lease and forgets the step that held it.
RecoverLeaseOnly(m) == ReleaseLease(m)

\* Mutant: the watchdog only looks at leases whose step is RUNNING.
RecoverRunningOnly(m) ==
    IF m.steps[m.current_step].status = "RUNNING"
    THEN ReleaseLease(transition_run(transition_step(m, m.current_step, "NEEDS_HUMAN"),
                                     "NEEDS_HUMAN"))
    ELSE m

\* recover_stale_leases, for a run whose lease has expired.
RecoverRun(m) ==
    LET k == m.current_step
        target == IF m.steps[k].attempt_count < MaxAttempts
                  THEN "RETRY_WAIT" ELSE "NEEDS_HUMAN"
        step  == transition_step(m, k, target)
        moved == IF target = "RETRY_WAIT" THEN RetryDue(step, k) ELSE step
    IN  IF m.steps[k].status = "RUNNING"
        THEN ReleaseLease(
               IF m.status = "RUNNING" \/ (m.status = "RETRY_WAIT" /\ target = "NEEDS_HUMAN")
               THEN transition_run(moved, target) ELSE moved)
        ELSE ReleaseLease(m)

\* pause_agent_run, when the transition to PAUSED is legal.
pause_agent_run(m) ==
    transition_run([m EXCEPT !.pause_requested = TRUE], "PAUSED")

\* resume_agent_run.  No attempt budget is consulted here.
resume_agent_run(m) ==
    LET k == m.current_step
        ready == IF m.steps[k].status \in {"PAUSED", "NEEDS_HUMAN", "RETRY_WAIT"}
                 THEN transition_step(m, k, "READY") ELSE m
    IN  transition_run([ready EXCEPT !.pause_requested = FALSE,
                                     !.resumes = @ + 1], "SCHEDULED")

\* cancel_agent_run.
cancel_agent_run(m) ==
    transition_run(
        [m EXCEPT !.steps = [k \in Steps |->
            IF @[k].status \in TERMINAL_STEP_STATUSES THEN @[k]
            ELSE [@[k] EXCEPT !.status = "CANCELLED", !.due = FALSE]]],
        "CANCELLED")

\* retry_agent_run_step.
retry_agent_run_step(m, k) ==
    LET ready == [transition_step(m, k, "READY") EXCEPT
                    !.current_step = k, !.pause_requested = FALSE]
    IN  IF m.status \in {"NEEDS_HUMAN", "RETRY_WAIT"}
        THEN transition_run(ready, "SCHEDULED") ELSE ready

----------------------------------------------------------------------------
(* Actions.                                                                *)

\* store.persist writes the whole store in one SQLite transaction.
Persist == disk' = mem'

\* A handler that ends in store.persist and one that raises before it.
Commit(r, m) == mem' = [mem EXCEPT ![r] = m] /\ Persist
Abort(r, m)  == mem' = [mem EXCEPT ![r] = m] /\ UNCHANGED disk

Return(t) == thread' = [thread EXCEPT ![t] = IdleThread]

\* The per-run execution lock: no request for run r is inside execute-next.
ExecutionLockFree(r) ==
    \A t \in Threads : thread[t].phase # "idle" => thread[t].run # r

\* External: review of the AgentTask and work on it move its status.
TaskStatusChanges ==
    /\ taskReady' = ~taskReady
    /\ UNCHANGED <<mem, disk, thread>>

\* Mutant: a run that waits for a human is not seen as the task's run.
CreateBesideWaiting(r) ==
    /\ taskReady
    /\ mem[r].status = "ABSENT"
    /\ \A q \in Runs : Existing(mem[q]) => mem[q].status = "NEEDS_HUMAN"
    /\ Commit(r, NewRun)
    /\ UNCHANGED <<thread, taskReady>>

\* POST /agent/runs.  A live or succeeded run of the task is returned as is.
create_agent_run(r) ==
    /\ taskReady
    /\ mem[r].status = "ABSENT"
    /\ \A q \in Runs : ~Existing(mem[q])
    /\ Commit(r, NewRun)
    /\ UNCHANGED <<thread, taskReady>>

\* Mutant: the pause is not looked at.
AcquireIgnoringPause(t, r) ==
    /\ thread[t].phase = "idle"
    /\ ExecutionLockFree(r)
    /\ Live(mem[r]) /\ StepBoundary(mem[r])
    /\ Commit(r, WithLease(mem[r], "live"))
    /\ thread' = [thread EXCEPT ![t] = [phase |-> "acquired", run |-> r]]
    /\ UNCHANGED taskReady

\* POST execute-next up to acquire_run_lease and its persist.
acquire_run_lease(t, r) ==
    /\ thread[t].phase = "idle"
    /\ ExecutionLockFree(r)
    /\ Live(mem[r]) /\ StepBoundary(mem[r])
    /\ ~mem[r].pause_requested /\ mem[r].status # "PAUSED"
    /\ Commit(r, WithLease(mem[r], "live"))
    /\ thread' = [thread EXCEPT ![t] = [phase |-> "acquired", run |-> r]]
    /\ UNCHANGED taskReady

\* execute_next_step: the ready step starts and the start is persisted.
start_step(t) ==
    LET r == thread[t].run IN
    /\ thread[t].phase = "acquired"
    /\ \E k \in Steps :
          /\ ready_step(mem[r], k)
          /\ Commit(r, StartStep(mem[r], k))
          /\ thread' = [thread EXCEPT ![t] =
                [phase |-> "executing", run |-> r, step |-> k,
                 attempt |-> mem[r].steps[k].attempt_count + 1]]
    /\ UNCHANGED taskReady

\* execute_next_step: no step is ready, release_run_lease.
no_ready_step(t) ==
    LET r == thread[t].run IN
    /\ thread[t].phase = "acquired"
    /\ \A k \in Steps : ~ready_step(mem[r], k)
    /\ Commit(r, ReleaseLease(mem[r]))
    /\ Return(t)
    /\ UNCHANGED taskReady

\* The executor passed and there is a next step.
apply_pass_next(t) ==
    LET r == thread[t].run
        k == thread[t].step
        m == transition_step(mem[r], k, "SUCCEEDED")
    IN  /\ thread[t].phase = "executing"
        /\ can_transition_step(mem[r].steps[k].status, "SUCCEEDED")
        /\ \E n \in Steps :
              /\ IsNextPending(m, k, n)
              /\ Commit(r, PassToNext(mem[r], k, n))
        /\ Return(t)
        /\ UNCHANGED taskReady

\* The executor passed and it was the last step.
apply_pass_last(t) ==
    LET r == thread[t].run
        k == thread[t].step
        m == transition_step(mem[r], k, "SUCCEEDED")
    IN  /\ thread[t].phase = "executing"
        /\ can_transition_step(mem[r].steps[k].status, "SUCCEEDED")
        /\ \A n \in Steps : ~IsNextPending(m, k, n)
        /\ IF can_transition_run(mem[r].status, "SUCCEEDED")
           THEN Commit(r, ReleaseLease(transition_run(m, "SUCCEEDED")))
           ELSE Abort(r, m)
        /\ Return(t)
        /\ UNCHANGED taskReady

\* The executor did not pass: retry, human, block or fail.
apply_failure(t) ==
    LET r == thread[t].run
        k == thread[t].step
    IN  /\ thread[t].phase = "executing"
        /\ \E decision \in VerificationDecision \ {"PASS"} :
             LET target == FailureTarget(mem[r], k, decision)
                 m == transition_step(mem[r], k, target)
             IN  /\ can_transition_step(mem[r].steps[k].status, target)
                 /\ IF can_transition_run(mem[r].status, target)
                    THEN Commit(r, ReleaseLease(transition_run(m, target)))
                    ELSE Abort(r, m)
        /\ Return(t)
        /\ UNCHANGED taskReady

\* A late result whose step transition is illegal: the request fails.
apply_rejected(t) ==
    LET r == thread[t].run
        k == thread[t].step
    IN  /\ thread[t].phase = "executing"
        /\ \E decision \in VerificationDecision :
             LET target == IF decision = "PASS" THEN "SUCCEEDED"
                           ELSE FailureTarget(mem[r], k, decision)
             IN  ~can_transition_step(mem[r].steps[k].status, target)
        /\ Return(t)
        /\ UNCHANGED <<mem, disk, taskReady>>

\* POST heartbeat by a client that knows the owner and token of the run's
\* lease, which GET /agent/runs shows to every maintainer.
heartbeat_run(r) ==
    /\ mem[r].lease # "none"
    /\ Commit(r, WithLease(mem[r], "live"))
    /\ UNCHANGED <<thread, taskReady>>

\* POST watchdog/recover-stale: every run whose lease has expired.
recover_stale_leases ==
    /\ \E r \in Runs : mem[r].lease = "expired"
    /\ mem' = [r \in Runs |-> IF mem[r].lease = "expired"
                              THEN RecoverRun(mem[r]) ELSE mem[r]]
    /\ Persist
    /\ UNCHANGED <<thread, taskReady>>

\* POST pause at a step boundary.
pause_run(r) ==
    /\ Live(mem[r]) /\ StepBoundary(mem[r])
    /\ can_transition_run(mem[r].status, "PAUSED")
    /\ Commit(r, pause_agent_run(mem[r]))
    /\ UNCHANGED <<thread, taskReady>>

\* POST pause when PAUSED is not a legal target: pause_requested stays set
\* in memory, the illegal transition raises and nothing is persisted.
pause_run_rejected(r) ==
    /\ Live(mem[r]) /\ StepBoundary(mem[r])
    /\ ~can_transition_run(mem[r].status, "PAUSED")
    /\ Abort(r, [mem[r] EXCEPT !.pause_requested = TRUE])
    /\ UNCHANGED <<thread, taskReady>>

\* POST resume; unlike the other controls it checks no step boundary.
resume_run(r) ==
    /\ mem[r].status \in {"PAUSED", "NEEDS_HUMAN", "RETRY_WAIT"}
    /\ mem[r].resumes < MaxResumes
    /\ Commit(r, resume_agent_run(mem[r]))
    /\ UNCHANGED <<thread, taskReady>>

\* Mutant: the cancellation is not persisted.
CancelUnpersisted(r) ==
    /\ Live(mem[r]) /\ StepBoundary(mem[r])
    /\ Abort(r, cancel_agent_run(mem[r]))
    /\ UNCHANGED <<thread, taskReady>>

\* POST cancel at a step boundary.
cancel_run(r) ==
    /\ Live(mem[r]) /\ StepBoundary(mem[r])
    /\ Commit(r, cancel_agent_run(mem[r]))
    /\ UNCHANGED <<thread, taskReady>>

\* POST retry of step k within its attempt budget.
retry_run(r, k) ==
    /\ Live(mem[r])
    /\ mem[r].steps[k].status \in {"RETRY_WAIT", "NEEDS_HUMAN"}
    /\ mem[r].steps[k].attempt_count < MaxAttempts
    /\ Commit(r, retry_agent_run_step(mem[r], k))
    /\ UNCHANGED <<thread, taskReady>>

\* The clock passes lease_expires_at.  A lease lasts at least a minute
\* (RUN_LEASE_OVERHEAD_SECONDS), so it outlives the dispatch of its step.
LeaseExpires(r) ==
    LET expire(m) == IF m.lease = "live" THEN WithLease(m, "expired") ELSE m
    IN  /\ mem[r].lease = "live"
        /\ \A t \in Threads : ~(thread[t].phase = "acquired" /\ thread[t].run = r)
        /\ mem'  = [mem EXCEPT ![r] = expire(@)]
        /\ disk' = [disk EXCEPT ![r] = expire(@)]
        /\ UNCHANGED <<thread, taskReady>>

\* The clock passes the next_retry_at of a step in RETRY_WAIT.
BackoffElapses(r, k) ==
    LET elapse(m) == IF m.steps[k].status = "RETRY_WAIT"
                     THEN RetryDue(m, k) ELSE m
    IN  /\ mem[r].steps[k].status = "RETRY_WAIT" /\ ~mem[r].steps[k].due
        /\ mem'  = [mem EXCEPT ![r] = elapse(@)]
        /\ disk' = [disk EXCEPT ![r] = elapse(@)]
        /\ UNCHANGED <<thread, taskReady>>

\* Any other handler, or the executor at work on its task, saves the store.
StorePersists ==
    /\ disk' = mem
    /\ UNCHANGED <<mem, thread, taskReady>>

\* The API process dies and restarts: store.load, no thread survives.
Crash ==
    /\ mem' = disk
    /\ thread' = [t \in Threads |-> IdleThread]
    /\ UNCHANGED <<disk, taskReady>>

----------------------------------------------------------------------------

Init ==
    /\ mem = [r \in Runs |-> AbsentRun]
    /\ disk = mem
    /\ thread = [t \in Threads |-> IdleThread]
    /\ taskReady = FALSE

\* What is left of a request once it holds the lease.
FinishRequest(t) ==
    \/ start_step(t)
    \/ no_ready_step(t)
    \/ apply_pass_next(t)
    \/ apply_pass_last(t)
    \/ apply_failure(t)
    \/ apply_rejected(t)

ThreadNext(t) ==
    \/ \E r \in Runs : acquire_run_lease(t, r)
    \/ FinishRequest(t)

OperatorNext(r) ==
    \/ create_agent_run(r)
    \/ pause_run(r)
    \/ pause_run_rejected(r)
    \/ resume_run(r)
    \/ cancel_run(r)
    \/ \E k \in Steps : retry_run(r, k)
    \/ heartbeat_run(r)

Next ==
    \/ \E t \in Threads : ThreadNext(t)
    \/ \E r \in Runs : OperatorNext(r)
    \/ recover_stale_leases
    \/ \E r \in Runs : LeaseExpires(r)
    \/ \E r \in Runs, k \in Steps : BackoffElapses(r, k)
    \/ TaskStatusChanges
    \/ StorePersists
    \/ Crash

Spec == Init /\ [][Next]_vars

\* A heartbeat for a run that no request is executing.
AbandonedHeartbeat(r) == ExecutionLockFree(r) /\ heartbeat_run(r)

\* What comes to an end by itself: a request thread (every executor call has
\* a timeout) and a lease that nobody renews.  The worker calls the watchdog in
\* every cycle, and clients stop renewing the lease of a request that is gone.
Fairness ==
    /\ \A t \in Threads : WF_vars(FinishRequest(t))
    /\ \A r \in Runs : WF_vars(LeaseExpires(r))
    /\ WF_vars(recover_stale_leases)
    /\ <>[][\A r \in Runs : ~AbandonedHeartbeat(r)]_vars

FairSpec == Spec /\ Fairness

----------------------------------------------------------------------------
(* Properties.                                                             *)

\* Every variable has its type.
TypeOK ==
    /\ mem \in [Runs -> AgentRunRecord]
    /\ disk \in [Runs -> AgentRunRecord]
    /\ thread \in [Threads -> ThreadRecord]
    /\ taskReady \in BOOLEAN

\* Only SUCCEEDED steps precede a step that has left PENDING.
OrderedSteps(m) ==
    \A k \in Steps : m.steps[k].status \notin {"PENDING", "CANCELLED"} =>
        \A j \in 0 .. (k - 1) : m.steps[j].status = "SUCCEEDED"

\* "A later step is never made ready before the previous step passes": a step
\* that has left PENDING (other than by cancellation) has only SUCCEEDED
\* steps before it, whatever late results, recoveries, retries, resumes and
\* restarts came before.
StepOrder == \A r \in Runs : OrderedSteps(mem[r])

\* A run that reports SUCCEEDED has passed every one of its steps, and a run
\* whose steps all passed reports SUCCEEDED.
SucceededRunComplete ==
    \A r \in Runs :
        mem[r].status = "SUCCEEDED"
            <=> \A k \in Steps : mem[r].steps[k].status = "SUCCEEDED"

\* The watchdog, which looks for expired leases, finds every RUNNING step.
RecoverableSteps(m) ==
    \A k \in Steps : m.steps[k].status = "RUNNING" =>
        k = m.current_step /\ m.status = "RUNNING" /\ m.lease # "none"

\* A RUNNING step is never out of the watchdog's reach: it is the current
\* step of a RUNNING run that holds a lease.  _require_step_boundary refuses
\* every operator control while a step is RUNNING, so a RUNNING step without a
\* lease would wedge its run for good.
RunningStepIsLeased == \A r \in Runs : RecoverableSteps(mem[r])

\* Attempts stay within the budget plus one for each time the operator resumed
\* the run, however often leases expire, transient failures repeat and the
\* process restarts.
AttemptsBounded ==
    \A r \in Runs, k \in Steps :
        mem[r].steps[k].attempt_count <= MaxAttempts + mem[r].resumes

\* create_agent_run hands out at most one run of a task that is live or has
\* succeeded, whatever became of the earlier ones.
OneLiveRun ==
    \A q, r \in Runs : Existing(mem[q]) /\ Existing(mem[r]) => q = r

\* A step that passes was RUNNING, in the hands of its latest attempt.
PassedOnlyByExecutor ==
    \A r \in Runs, k \in Steps :
       /\ mem[r].steps[k].status # "SUCCEEDED"
       /\ mem'[r].steps[k].status = "SUCCEEDED"
       => /\ mem[r].steps[k].status = "RUNNING"
          /\ \E t \in Threads :
                /\ thread[t].phase = "executing"
                /\ thread[t].run = r /\ thread[t].step = k
                /\ thread[t].attempt = mem[r].steps[k].attempt_count

\* "An expired lease never becomes false success": a step only becomes
\* SUCCEEDED while RUNNING, by the thread that is executing its latest
\* attempt.  A result that arrives after the watchdog has taken the step back
\* is never a success.
NoFalseSuccess == [][PassedOnlyByExecutor]_vars

\* A terminal run keeps its status.
TerminalKept ==
    \A r \in Runs :
       mem[r].status \in TERMINAL_RUN_STATUSES
           => mem'[r].status = mem[r].status

\* "Terminal runs cannot restart": a terminal status survives every operation,
\* and a crash too, because it was persisted when it was reached.
TerminalFinal == [][TerminalKept]_vars

\* No attempt_count goes down.
AttemptsKept ==
    \A r \in Runs, k \in Steps :
       mem'[r].steps[k].attempt_count >= mem[r].steps[k].attempt_count

\* A crash never hands attempts back: the attempt is on disk before the
\* executor sees the step.
AttemptsNeverLost == [][AttemptsKept]_vars

\* A step starts in a live run that is neither paused nor about to be.
StartsAllowed ==
    \A r \in Runs, k \in Steps :
       /\ mem[r].steps[k].status # "RUNNING"
       /\ mem'[r].steps[k].status = "RUNNING"
       => Live(mem[r]) /\ mem[r].status # "PAUSED" /\ ~mem[r].pause_requested

\* Pause and cancel are honoured: no step starts in a run whose operator asked
\* for a pause, that is PAUSED or that is terminal.
ControlHonoured == [][StartsAllowed]_vars

\* What the contract sees of a run.
ContractState(m) ==
    CASE m.status = "ABSENT"    -> "absent"
      [] m.status = "SUCCEEDED" -> "succeeded"
      [] m.status \in {"FAILED", "CANCELLED", "BLOCKED"} -> "closed"
      [] OTHER -> "open"

ContractPassed(m) == {k \in Steps : m.steps[k].status = "SUCCEEDED"}

Contract == INSTANCE AgentRunContract WITH
    state  <- [r \in Runs |-> ContractState(disk[r])],
    passed <- [r \in Runs |-> ContractPassed(disk[r])]

\* The durable state implements the contract of module AgentRunContract: runs
\* open one at a time, steps pass in order, success means every step passed
\* and an ended run never changes again, also when several handlers, a late
\* result or a crash come between two writes.
ImplementsContract == Contract!Spec

\* Doc claim: "retries stop at the configured attempt budget".
RetriesStopAtBudget ==
    \A r \in Runs, k \in Steps : mem[r].steps[k].attempt_count <= MaxAttempts

\* Code claim: a policy violation "blocked the run permanently".
PolicyBlockIsFinal ==
    \A r \in Runs :
        (\E k \in Steps : mem[r].steps[k].status = "BLOCKED")
            => mem[r].status = "BLOCKED"

\* Every step that started comes to a result or is taken back by the watchdog.
RunningStepResolves ==
    \A r \in Runs, k \in Steps :
        mem[r].steps[k].status = "RUNNING" ~> mem[r].steps[k].status # "RUNNING"

\* Every lease is eventually given back, so the operator's controls, which
\* wait for a step boundary, are never refused for ever.
LeaseReturns == \A r \in Runs : mem[r].lease # "none" ~> mem[r].lease = "none"
=============================================================================
