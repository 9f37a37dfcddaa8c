-------------------------- MODULE AgentRunInvariant --------------------------
(***************************************************************************)
(* The inductive invariant of AgentRun, in parts.  PlacedSteps, ... speak  *)
(* of one run record and hold of the run in memory and of the run on disk, *)
(* Synced relates the two, and ThreadsOK says what a request thread knows  *)
(* about its run.  TLC checks it, module AgentRunProofs proves it.         *)
(***************************************************************************)
EXTENDS AgentRun

\* The steps before the current one passed, the ones after it were not
\* started, and only cancellation of the run cancels a step.
PlacedSteps(m) ==
    \A k \in Steps :
        /\ k < m.current_step => m.steps[k].status = "SUCCEEDED"
        /\ k > m.current_step => m.steps[k].status \in {"PENDING", "CANCELLED"}
        /\ m.steps[k].status = "CANCELLED" => m.status = "CANCELLED"

\* How the status of the current step goes with the status of the run.
CurrentStep(m) ==
    LET s == m.steps[m.current_step].status IN
    /\ s \notin {"PAUSED", "SKIPPED"}
    /\ s = "PENDING" <=> m.status = "ABSENT"
    /\ s = "SUCCEEDED" <=> m.status = "SUCCEEDED"
    /\ s = "RUNNING" => m.status = "RUNNING" /\ m.lease # "none"
    /\ s \in {"READY", "RETRY_WAIT"} => Live(m) /\ m.status # "NEEDS_HUMAN"
    /\ s = "NEEDS_HUMAN" => Live(m)
    /\ m.status = "CANCELLED" => s \in {"CANCELLED", "FAILED", "BLOCKED"}

\* Attempts used so far; a step that may start has one left.
BudgetedSteps(m) ==
    \A k \in Steps :
        /\ m.steps[k].attempt_count <= MaxAttempts + m.resumes
        /\ m.steps[k].status \in {"READY", "RETRY_WAIT"} =>
              m.steps[k].attempt_count < MaxAttempts + m.resumes
        /\ m.steps[k].status = "PENDING" => m.steps[k].attempt_count = 0

\* A run is ABSENT as a whole; only the last step ends a run in success.
WholeRun(m) ==
    /\ m.status = "ABSENT" => m = AbsentRun
    /\ m.status # "EVALUATING"
    /\ m.status = "SUCCEEDED" => m.current_step = StepCount - 1
    /\ m.status \in TERMINAL_RUN_STATUSES => m.lease = "none"

RunOK(m) ==
    PlacedSteps(m) /\ CurrentStep(m) /\ BudgetedSteps(m) /\ WholeRun(m)

\* What a handler that raised before store.persist may have left in memory
\* only: pause_requested and a late result's step status.
Synced(m, d) ==
    /\ m.status = d.status
    /\ m.current_step = d.current_step
    /\ m.lease = d.lease
    /\ m.resumes = d.resumes
    /\ \A k \in Steps :
          /\ m.steps[k].attempt_count = d.steps[k].attempt_count
          /\ m.steps[k].status = "RUNNING" <=> d.steps[k].status = "RUNNING"
          /\ m.steps[k].status = "SUCCEEDED" <=> d.steps[k].status = "SUCCEEDED"

AcquiredOK(m) ==
    /\ Live(m) /\ m.status # "PAUSED" /\ ~m.pause_requested
    /\ m.lease = "live"
    /\ m.steps[m.current_step].status # "RUNNING"

ExecutingOK(m, k, attempt) ==
    /\ k = m.current_step
    /\ attempt = m.steps[k].attempt_count
    /\ m.steps[k].status \in
          {"RUNNING", "READY", "RETRY_WAIT", "NEEDS_HUMAN", "CANCELLED"}
    /\ m.steps[k].status # "RUNNING" => m.lease = "none"

ThreadsOK ==
    /\ \A t, u \in Threads :
          /\ thread[t].phase # "idle" /\ thread[u].phase # "idle"
          /\ thread[t].run = thread[u].run
          => t = u
    /\ \A t \in Threads :
          /\ thread[t].phase = "acquired" => AcquiredOK(mem[thread[t].run])
          /\ thread[t].phase = "executing" =>
                ExecutingOK(mem[thread[t].run], thread[t].step, thread[t].attempt)

\* The inductive invariant: every run record, in memory and on disk, is one the
\* handlers of the supervisor can have left, the two agree up to what a handler
\* that raised leaves behind, each request thread still knows its run, and one
\* run at most is live.
IInv ==
    /\ TypeOK
    /\ \A r \in Runs : RunOK(mem[r]) /\ RunOK(disk[r]) /\ Synced(mem[r], disk[r])
    /\ ThreadsOK
    /\ OneLiveRun
=============================================================================
