--------------------------- MODULE AgentRunProofs ---------------------------
(***************************************************************************)
(* Proofs about AgentRun, for any number of runs, threads, steps, attempts *)
(* and resumes.  First what each handler does to one run record, then that *)
(* every action preserves IInv, then the theorems.                         *)
(***************************************************************************)
EXTENDS AgentRunInvariant, TLAPS

USE StepCountAssumption, MaxAttemptsAssumption, MaxResumesAssumption

----------------------------------------------------------------------------
(* The handlers, field by field.                                           *)

\* Records and enums the handlers stay within.
LEMMA StepsNonEmpty == 0 \in Steps /\ Steps \subseteq Nat
  BY DEF Steps

\* transition_step changes one step, keeps the others and counts the starts.
LEMMA TransitionStep ==
  ASSUME NEW m \in AgentRunRecord, NEW k \in Steps,
         NEW target \in AgentRunStepStatus
  PROVE  LET n == transition_step(m, k, target) IN
         /\ n \in AgentRunRecord
         /\ n.status = m.status /\ n.current_step = m.current_step
         /\ n.lease = m.lease /\ n.resumes = m.resumes
         /\ n.pause_requested = m.pause_requested
         /\ \A j \in Steps : j # k => n.steps[j] = m.steps[j]
         /\ n.steps[k].status = target
         /\ n.steps[k].attempt_count =
              IF target = "RUNNING" /\ m.steps[k].status # "RUNNING"
              THEN m.steps[k].attempt_count + 1 ELSE m.steps[k].attempt_count
  <1> DEFINE n == transition_step(m, k, target)
             s == [status        |-> target,
                   attempt_count |-> IF target = "RUNNING" /\ m.steps[k].status # "RUNNING"
                                     THEN m.steps[k].attempt_count + 1
                                     ELSE m.steps[k].attempt_count,
                   due           |-> FALSE]
  <1>1. m.steps \in [Steps -> AgentRunStep]
    BY DEF AgentRunRecord
  <1>2. s \in AgentRunStep
    BY <1>1 DEF AgentRunStep
  <1>3. n = [m EXCEPT !.steps = [m.steps EXCEPT ![k] = s]]
    BY DEF transition_step
  <1>4. [m.steps EXCEPT ![k] = s] \in [Steps -> AgentRunStep]
    BY <1>1, <1>2
  <1> HIDE DEF n
  <1>5. n \in AgentRunRecord
    BY <1>3, <1>4 DEF AgentRunRecord
  <1>6. n.steps = [m.steps EXCEPT ![k] = s]
    BY <1>3 DEF AgentRunRecord
  <1>7. n.status = m.status /\ n.current_step = m.current_step
        /\ n.lease = m.lease /\ n.resumes = m.resumes
        /\ n.pause_requested = m.pause_requested
    BY <1>3 DEF AgentRunRecord
  <1> QED
    BY <1>1, <1>5, <1>6, <1>7 DEF n

\* transition_run changes the status and gives up the lease of an ended run.
LEMMA TransitionRun ==
  ASSUME NEW m \in AgentRunRecord, NEW target \in AgentRunStatus
  PROVE  LET n == transition_run(m, target) IN
         /\ n \in AgentRunRecord
         /\ n.status = target /\ n.current_step = m.current_step
         /\ n.lease = IF target \in TERMINAL_RUN_STATUSES /\ target # m.status
                      THEN "none" ELSE m.lease
         /\ n.resumes = m.resumes /\ n.pause_requested = m.pause_requested
         /\ n.steps = m.steps
  BY DEF transition_run, AgentRunRecord, LeaseState

\* ReleaseLease touches nothing but the lease.
LEMMA Released ==
  ASSUME NEW m \in AgentRunRecord
  PROVE  LET n == ReleaseLease(m) IN
         /\ n \in AgentRunRecord
         /\ n.status = m.status /\ n.current_step = m.current_step
         /\ n.lease = "none" /\ n.resumes = m.resumes
         /\ n.pause_requested = m.pause_requested /\ n.steps = m.steps
  BY DEF ReleaseLease, WithLease, AgentRunRecord, LeaseState
----------------------------------------------------------------------------
(* The handlers preserve RunOK.                                            *)

\* The run that create_agent_run makes, and the one not made yet, are in order.
LEMMA FreshRunOK ==
  /\ AbsentRun \in AgentRunRecord /\ RunOK(AbsentRun)
  /\ NewRun \in AgentRunRecord /\ RunOK(NewRun)
  /\ NewRun.status = "SCHEDULED"
  <1>1. /\ NewStep("PENDING") \in AgentRunStep /\ NewStep("READY") \in AgentRunStep
        /\ NewStep("PENDING").status = "PENDING" /\ NewStep("READY").status = "READY"
        /\ NewStep("PENDING").attempt_count = 0 /\ NewStep("READY").attempt_count = 0
    BY DEF NewStep, AgentRunStep, AgentRunStepStatus
  <1>2. /\ AbsentRun \in AgentRunRecord
        /\ AbsentRun.status = "ABSENT" /\ AbsentRun.current_step = 0
        /\ AbsentRun.lease = "none" /\ AbsentRun.resumes = 0
        /\ AbsentRun.steps = [k \in Steps |-> NewStep("PENDING")]
    BY <1>1, StepsNonEmpty DEF AbsentRun, AgentRunRecord, LeaseState
  <1>3. RunOK(AbsentRun)
    BY <1>1, <1>2, StepsNonEmpty
    DEF RunOK, PlacedSteps, CurrentStep, BudgetedSteps, WholeRun, TERMINAL_RUN_STATUSES
  <1>4. NewRun = [AbsentRun EXCEPT !.status = "SCHEDULED",
                    !.steps = [AbsentRun.steps EXCEPT ![0] = NewStep("READY")]]
    BY DEF NewRun
  <1>5. [AbsentRun.steps EXCEPT ![0] = NewStep("READY")] \in [Steps -> AgentRunStep]
    BY <1>1, <1>2, StepsNonEmpty
  <1>6. /\ NewRun \in AgentRunRecord
        /\ NewRun.status = "SCHEDULED" /\ NewRun.current_step = 0
        /\ NewRun.lease = "none" /\ NewRun.resumes = 0
        /\ NewRun.steps = [AbsentRun.steps EXCEPT ![0] = NewStep("READY")]
    BY <1>2, <1>4, <1>5 DEF AgentRunRecord, AgentRunStatus
  <1>7. RunOK(NewRun)
    BY <1>1, <1>2, <1>6, StepsNonEmpty
    DEF RunOK, PlacedSteps, CurrentStep, BudgetedSteps, WholeRun, Live, TERMINAL_RUN_STATUSES
  <1> QED
    BY <1>2, <1>3, <1>6, <1>7

\* A handler that only touches the current step and the run's own fields.
LEMMA MoveCurrent ==
  ASSUME NEW m \in AgentRunRecord, NEW n \in AgentRunRecord, RunOK(m),
         m.status \notin {"ABSENT", "CANCELLED"},
         n.current_step = m.current_step,
         \A j \in Steps : j # m.current_step => n.steps[j] = m.steps[j],
         n.resumes >= m.resumes,
         n.status \notin {"ABSENT", "CANCELLED", "EVALUATING"},
         n.status = "SUCCEEDED" => n.current_step = StepCount - 1,
         n.status \in TERMINAL_RUN_STATUSES => n.lease = "none",
         CurrentStep(n),
         LET s == n.steps[n.current_step] IN
           /\ s.attempt_count <= MaxAttempts + n.resumes
           /\ s.status \in {"READY", "RETRY_WAIT"} => s.attempt_count < MaxAttempts + n.resumes
           /\ s.status # "CANCELLED"
  PROVE  RunOK(n)
  <1>1. /\ m.current_step \in Steps /\ m.resumes \in Nat /\ n.resumes \in Nat
        /\ \A j \in Steps : m.steps[j].attempt_count \in Nat
        /\ \A j \in Steps : n.steps[j].attempt_count \in Nat
    BY DEF AgentRunRecord, AgentRunStep
  <1>2. PlacedSteps(n)
    BY <1>1, StepsNonEmpty DEF RunOK, PlacedSteps
  <1>3. BudgetedSteps(n)
    BY <1>1, StepsNonEmpty DEF RunOK, BudgetedSteps, CurrentStep
  <1>4. WholeRun(n)
    BY DEF WholeRun
  <1> QED
    BY <1>2, <1>3, <1>4 DEF RunOK

\* The lease of a live run changes: taken, renewed, expired or given back.
LEMMA LeaseOK ==
  ASSUME NEW m \in AgentRunRecord, RunOK(m), Live(m), NEW l \in LeaseState,
         l = "none" => m.steps[m.current_step].status # "RUNNING"
  PROVE  LET n == WithLease(m, l) IN
         /\ n \in AgentRunRecord /\ RunOK(n)
         /\ n.status = m.status /\ n.current_step = m.current_step
         /\ n.lease = l /\ n.resumes = m.resumes
         /\ n.pause_requested = m.pause_requested /\ n.steps = m.steps
  <1> DEFINE n == WithLease(m, l)
  <1>1. /\ n \in AgentRunRecord
        /\ n.status = m.status /\ n.current_step = m.current_step
        /\ n.lease = l /\ n.resumes = m.resumes
        /\ n.pause_requested = m.pause_requested /\ n.steps = m.steps
    BY DEF WithLease, AgentRunRecord
  <1> HIDE DEF n
  <1>2. m.current_step \in Steps /\ m.resumes \in Nat
    BY DEF AgentRunRecord
  <1>3. /\ m.status \notin {"ABSENT", "CANCELLED", "EVALUATING"}
        /\ m.status \notin TERMINAL_RUN_STATUSES
    BY DEF Live, RunOK, WholeRun, TERMINAL_RUN_STATUSES
  <1>4. CurrentStep(n)
    BY <1>1, <1>3 DEF RunOK, CurrentStep, Live
  <1>5. LET s == n.steps[n.current_step] IN
           /\ s.attempt_count <= MaxAttempts + n.resumes
           /\ s.status \in {"READY", "RETRY_WAIT"} => s.attempt_count < MaxAttempts + n.resumes
           /\ s.status # "CANCELLED"
    BY <1>1, <1>2, <1>3 DEF RunOK, BudgetedSteps, PlacedSteps
  <1>6. RunOK(n)
    BY <1>1, <1>2, <1>3, <1>4, <1>5, MoveCurrent DEF TERMINAL_RUN_STATUSES
  <1> QED
    BY <1>1, <1>6 DEF n

\* The ready step of a run is its current step.
LEMMA ReadyIsCurrent ==
  ASSUME NEW m \in AgentRunRecord, RunOK(m), Live(m), NEW k \in Steps,
         ready_step(m, k)
  PROVE  /\ k = m.current_step
         /\ m.steps[k].status \in {"READY", "RETRY_WAIT"}
  <1>1. m.current_step \in Steps
    BY DEF AgentRunRecord
  <1>2. m.steps[k].status \in {"READY", "RETRY_WAIT"}
    BY DEF ready_step
  <1>3. ~(k < m.current_step) /\ ~(k > m.current_step)
    BY <1>1, <1>2, StepsNonEmpty DEF RunOK, PlacedSteps
  <1> QED
    BY <1>1, <1>2, <1>3, StepsNonEmpty

\* execute_next_step starts the current step of a run whose lease it holds.
LEMMA StartStepOK ==
  ASSUME NEW m \in AgentRunRecord, RunOK(m), AcquiredOK(m), NEW k \in Steps,
         ready_step(m, k)
  PROVE  LET n == StartStep(m, k) IN
         /\ n \in AgentRunRecord /\ RunOK(n)
         /\ n.status = "RUNNING" /\ n.current_step = k /\ k = m.current_step
         /\ n.lease = m.lease
         /\ n.steps[k].status = "RUNNING"
         /\ n.steps[k].attempt_count = m.steps[k].attempt_count + 1
         /\ \A j \in Steps : j # k => n.steps[j] = m.steps[j]
  <1> DEFINE a == transition_step(m, k, "RUNNING")
             n == StartStep(m, k)
  <1>1. k = m.current_step /\ m.steps[k].status \in {"READY", "RETRY_WAIT"}
    BY ReadyIsCurrent DEF AcquiredOK
  <1>2. /\ a \in AgentRunRecord
        /\ a.status = m.status /\ a.current_step = m.current_step
        /\ a.lease = m.lease /\ a.resumes = m.resumes
        /\ \A j \in Steps : j # k => a.steps[j] = m.steps[j]
        /\ a.steps[k].status = "RUNNING"
        /\ a.steps[k].attempt_count = m.steps[k].attempt_count + 1
    <2>1. "RUNNING" \in AgentRunStepStatus
      BY DEF AgentRunStepStatus
    <2>2. m.steps[k].status # "RUNNING"
      BY <1>1
    <2> QED
      BY <2>1, <2>2, TransitionStep
  <1>3. n = [a EXCEPT !.current_step = k,
              !.status = IF a.status \in {"SCHEDULED", "RETRY_WAIT"} THEN "RUNNING" ELSE a.status]
    BY DEF StartStep
  <1> HIDE DEF a, n
  <1>4. m.status \in {"SCHEDULED", "RETRY_WAIT", "RUNNING"}
    BY <1>1 DEF AgentRunRecord, AgentRunStatus, AcquiredOK, RunOK, CurrentStep, WholeRun,
                Live, TERMINAL_RUN_STATUSES
  <1>5. /\ n \in AgentRunRecord
        /\ n.status = "RUNNING" /\ n.current_step = k
        /\ n.lease = m.lease /\ n.resumes = m.resumes /\ n.steps = a.steps
    BY <1>2, <1>3, <1>4 DEF AgentRunRecord, AgentRunStatus
  <1>6. m.steps[k].attempt_count \in Nat /\ m.resumes \in Nat
    BY DEF AgentRunRecord, AgentRunStep
  <1>7. CurrentStep(n)
    BY <1>2, <1>5 DEF CurrentStep, AcquiredOK
  <1>8. n.steps[k].attempt_count <= MaxAttempts + n.resumes
    BY <1>1, <1>2, <1>5, <1>6 DEF RunOK, BudgetedSteps
  <1>9. RunOK(n)
    BY <1>1, <1>2, <1>4, <1>5, <1>6, <1>7, <1>8, MoveCurrent DEF TERMINAL_RUN_STATUSES
  <1> QED
    BY <1>1, <1>2, <1>5, <1>9 DEF n

\* A passing result is only accepted for a step that is still RUNNING.
LEMMA PassingStep ==
  ASSUME NEW m \in AgentRunRecord, RunOK(m), NEW k \in Steps, NEW attempt,
         ExecutingOK(m, k, attempt),
         can_transition_step(m.steps[k].status, "SUCCEEDED")
  PROVE  /\ k = m.current_step
         /\ m.steps[k].status = "RUNNING" /\ m.status = "RUNNING"
         /\ \A j \in Steps : j < k => m.steps[j].status = "SUCCEEDED"
         /\ \A j \in Steps : j > k => m.steps[j].status = "PENDING"
  <1>1. m.steps[k].status \in AgentRunStepStatus
    BY DEF AgentRunRecord, AgentRunStep
  <1>2. m.steps[k].status \in {"RUNNING", "SUCCEEDED"}
    BY <1>1 DEF can_transition_step, STEP_TRANSITIONS, AgentRunStepStatus
  <1>3. k = m.current_step /\ m.steps[k].status = "RUNNING" /\ m.status = "RUNNING"
    BY <1>2 DEF ExecutingOK, RunOK, CurrentStep
  <1> QED
    BY <1>3 DEF RunOK, PlacedSteps

\* A pass makes exactly the next step ready and current.
LEMMA PassNextOK ==
  ASSUME NEW m \in AgentRunRecord, RunOK(m), NEW k \in Steps, NEW attempt,
         ExecutingOK(m, k, attempt),
         can_transition_step(m.steps[k].status, "SUCCEEDED"),
         NEW i \in Steps, IsNextPending(transition_step(m, k, "SUCCEEDED"), k, i)
  PROVE  LET n == PassToNext(m, k, i)
         IN /\ n \in AgentRunRecord /\ RunOK(n)
            /\ n.status = "RUNNING" /\ m.status = "RUNNING"
            /\ n.steps[k].status = "SUCCEEDED" /\ i = k + 1
            /\ \A j \in Steps : j # k /\ m.steps[j].status # "SUCCEEDED"
                                        => n.steps[j].status # "SUCCEEDED"
            /\ \A j \in Steps : m.steps[j].status = "SUCCEEDED" => n.steps[j].status = "SUCCEEDED"
            /\ \A j \in Steps : n.steps[j].attempt_count = m.steps[j].attempt_count
            /\ \A j \in Steps : n.steps[j].status # "RUNNING"
  <1> DEFINE a == transition_step(m, k, "SUCCEEDED")
             b == transition_step(a, i, "READY")
             c == [b EXCEPT !.current_step = i, !.status = "RUNNING"]
             n == ReleaseLease(c)
  <1>1. /\ k = m.current_step
        /\ m.steps[k].status = "RUNNING" /\ m.status = "RUNNING"
        /\ \A j \in Steps : j < k => m.steps[j].status = "SUCCEEDED"
        /\ \A j \in Steps : j > k => m.steps[j].status = "PENDING"
    BY PassingStep
  <1>2. "SUCCEEDED" \in AgentRunStepStatus /\ "READY" \in AgentRunStepStatus
    BY DEF AgentRunStepStatus
  <1>3. /\ a \in AgentRunRecord /\ a.resumes = m.resumes
        /\ \A j \in Steps : j # k => a.steps[j] = m.steps[j]
        /\ a.steps[k].status = "SUCCEEDED"
        /\ a.steps[k].attempt_count = m.steps[k].attempt_count
    BY <1>2, TransitionStep
  <1>4. i = k + 1
    <2>1. i > k /\ \A j \in (k + 1) .. (i - 1) : a.steps[j].status # "PENDING"
      BY DEF IsNextPending
    <2>2. ASSUME i # k + 1 PROVE FALSE
      <3>1. k + 1 \in Steps /\ k + 1 \in (k + 1) .. (i - 1) /\ k + 1 # k
        BY <2>1, <2>2 DEF Steps
      <3> QED
        BY <1>1, <1>3, <2>1, <3>1, StepsNonEmpty
    <2> QED
      BY <2>2
  <1> HIDE DEF a
  <1>5. /\ b \in AgentRunRecord /\ b.resumes = a.resumes
        /\ \A j \in Steps : j # i => b.steps[j] = a.steps[j]
        /\ b.steps[i].status = "READY"
        /\ b.steps[i].attempt_count = a.steps[i].attempt_count
    BY <1>2, <1>3, TransitionStep
  <1> HIDE DEF b
  <1>6. /\ c \in AgentRunRecord /\ c.resumes = b.resumes /\ c.steps = b.steps
        /\ c.current_step = i /\ c.status = "RUNNING"
    BY <1>5 DEF AgentRunRecord, AgentRunStatus
  <1> HIDE DEF c
  <1>7. /\ n \in AgentRunRecord /\ n.resumes = c.resumes /\ n.steps = c.steps
        /\ n.current_step = i /\ n.status = "RUNNING"
    BY <1>6, Released
  <1> HIDE DEF n
  <1>8. \A j \in Steps : m.steps[j].attempt_count \in Nat /\ m.resumes \in Nat
    BY DEF AgentRunRecord, AgentRunStep
  <1>9. /\ n.steps[k].status = "SUCCEEDED" /\ n.steps[i].status = "READY"
        /\ \A j \in Steps : j # k /\ j # i => n.steps[j] = m.steps[j]
        /\ \A j \in Steps : n.steps[j].attempt_count = m.steps[j].attempt_count
        /\ m.steps[i].attempt_count = 0 /\ n.resumes = m.resumes
    BY <1>1, <1>3, <1>4, <1>5, <1>6, <1>7, StepsNonEmpty DEF RunOK, BudgetedSteps
  <1>10. PlacedSteps(n)
    BY <1>1, <1>4, <1>7, <1>9, StepsNonEmpty DEF PlacedSteps
  <1>11. CurrentStep(n)
    BY <1>7, <1>9 DEF CurrentStep, Live, TERMINAL_RUN_STATUSES
  <1>12. BudgetedSteps(n)
    BY <1>4, <1>8, <1>9, StepsNonEmpty DEF BudgetedSteps, RunOK
  <1>13. WholeRun(n)
    BY <1>7 DEF WholeRun, TERMINAL_RUN_STATUSES
  <1> QED
    <2>1. /\ \A j \in Steps : j # k /\ m.steps[j].status # "SUCCEEDED"
                                        => n.steps[j].status # "SUCCEEDED"
          /\ \A j \in Steps : m.steps[j].status = "SUCCEEDED" => n.steps[j].status = "SUCCEEDED"
          /\ \A j \in Steps : n.steps[j].status # "RUNNING"
      BY <1>1, <1>4, <1>9, StepsNonEmpty
    <2> QED
      BY <1>1, <1>4, <1>7, <1>9, <1>10, <1>11, <1>12, <1>13, <2>1 DEF RunOK, PassToNext, a, b, c, n

\* The last pass ends the run: SUCCEEDED is always a legal target then.
LEMMA PassLastOK ==
  ASSUME NEW m \in AgentRunRecord, RunOK(m), NEW k \in Steps, NEW attempt,
         ExecutingOK(m, k, attempt),
         can_transition_step(m.steps[k].status, "SUCCEEDED"),
         \A i \in Steps : ~IsNextPending(transition_step(m, k, "SUCCEEDED"), k, i)
  PROVE  LET n == ReleaseLease(transition_run(transition_step(m, k, "SUCCEEDED"), "SUCCEEDED"))
         IN /\ n \in AgentRunRecord /\ RunOK(n)
            /\ can_transition_run(m.status, "SUCCEEDED")
            /\ n.status = "SUCCEEDED" /\ m.status = "RUNNING" /\ k = StepCount - 1
            /\ \A j \in Steps : n.steps[j].status = "SUCCEEDED"
            /\ \A j \in Steps : j # k => m.steps[j].status = "SUCCEEDED"
            /\ \A j \in Steps : n.steps[j].attempt_count = m.steps[j].attempt_count
  <1> DEFINE a == transition_step(m, k, "SUCCEEDED")
             b == transition_run(a, "SUCCEEDED")
             n == ReleaseLease(b)
  <1>1. /\ k = m.current_step
        /\ m.steps[k].status = "RUNNING" /\ m.status = "RUNNING"
        /\ \A j \in Steps : j < k => m.steps[j].status = "SUCCEEDED"
        /\ \A j \in Steps : j > k => m.steps[j].status = "PENDING"
    BY PassingStep
  <1>2. "SUCCEEDED" \in AgentRunStepStatus /\ "SUCCEEDED" \in AgentRunStatus
    BY DEF AgentRunStepStatus, AgentRunStatus
  <1>3. /\ a \in AgentRunRecord /\ a.resumes = m.resumes /\ a.current_step = m.current_step
        /\ \A j \in Steps : j # k => a.steps[j] = m.steps[j]
        /\ a.steps[k].status = "SUCCEEDED"
        /\ a.steps[k].attempt_count = m.steps[k].attempt_count
    BY <1>2, TransitionStep
  <1>4. k = StepCount - 1
    <2>1. ASSUME k # StepCount - 1 PROVE FALSE
      <3>1. k + 1 \in Steps /\ k + 1 > k /\ k + 1 # k
        BY <2>1 DEF Steps
      <3>2. \A j \in (k + 1) .. ((k + 1) - 1) : FALSE
        BY <3>1, StepsNonEmpty
      <3>3. a.steps[k + 1].status = "PENDING"
        BY <1>1, <1>3, <3>1
      <3>4. IsNextPending(a, k, k + 1)
        BY <3>1, <3>2, <3>3 DEF IsNextPending
      <3> QED
        BY <3>1, <3>4
    <2> QED
      BY <2>1
  <1>5. can_transition_run(m.status, "SUCCEEDED")
    BY <1>1 DEF can_transition_run, RUN_TRANSITIONS
  <1> HIDE DEF a
  <1>6. /\ b \in AgentRunRecord /\ b.status = "SUCCEEDED" /\ b.steps = a.steps
        /\ b.current_step = a.current_step /\ b.resumes = a.resumes
    BY <1>2, <1>3, TransitionRun
  <1> HIDE DEF b
  <1>7. /\ n \in AgentRunRecord /\ n.status = "SUCCEEDED" /\ n.steps = b.steps
        /\ n.current_step = b.current_step /\ n.resumes = b.resumes /\ n.lease = "none"
    BY <1>6, Released
  <1> HIDE DEF n
  <1>8. /\ \A j \in Steps : n.steps[j].status = "SUCCEEDED"
        /\ \A j \in Steps : j # k => m.steps[j].status = "SUCCEEDED"
        /\ \A j \in Steps : n.steps[j].attempt_count = m.steps[j].attempt_count
    BY <1>1, <1>3, <1>4, <1>6, <1>7 DEF Steps
  <1>9. PlacedSteps(n)
    <2>1. n.current_step = k
      BY <1>1, <1>3, <1>6, <1>7
    <2>2. \A j \in Steps : ~(j > k)
      BY <1>4 DEF Steps
    <2> QED
      BY <1>8, <2>1, <2>2 DEF PlacedSteps
  <1>10. CurrentStep(n)
    BY <1>1, <1>3, <1>6, <1>7, <1>8 DEF CurrentStep
  <1>11. BudgetedSteps(n)
    BY <1>3, <1>6, <1>7, <1>8 DEF BudgetedSteps, RunOK
  <1>12. WholeRun(n)
    BY <1>1, <1>3, <1>4, <1>6, <1>7 DEF WholeRun
  <1> QED
    BY <1>1, <1>4, <1>5, <1>7, <1>8, <1>9, <1>10, <1>11, <1>12 DEF RunOK, a, b, n

\* What every handler other than a start or a pass does to a run at most: it
\* revives nothing, starts nothing, passes nothing and loses no attempt.
Harmless(m, n) ==
    /\ Existing(n) => Existing(m)
    /\ m.status \in TERMINAL_RUN_STATUSES => n.status = m.status
    /\ n.status = "ABSENT" <=> m.status = "ABSENT"
    /\ n.status = "SUCCEEDED" <=> m.status = "SUCCEEDED"
    /\ \A j \in Steps :
          /\ n.steps[j].status = "SUCCEEDED" <=> m.steps[j].status = "SUCCEEDED"
          /\ n.steps[j].status = "RUNNING" => m.steps[j].status = "RUNNING"
          /\ n.steps[j].attempt_count = m.steps[j].attempt_count

\* What a request thread knows about its run survives the handler.
KeepsThreads(m, n) ==
    /\ AcquiredOK(m) => AcquiredOK(n)
    /\ \A k \in Steps, attempt \in Nat :
          ExecutingOK(m, k, attempt) => ExecutingOK(n, k, attempt)

\* The current step and the run move to matching statuses.
LEMMA MoveBoth ==
  ASSUME NEW m \in AgentRunRecord, NEW n \in AgentRunRecord, RunOK(m),
         m.status \notin {"ABSENT", "CANCELLED", "SUCCEEDED"},
         n.current_step = m.current_step, n.resumes = m.resumes,
         \A j \in Steps : j # m.current_step => n.steps[j] = m.steps[j],
         n.steps[m.current_step].attempt_count = m.steps[m.current_step].attempt_count,
         n.steps[m.current_step].status \in {"RETRY_WAIT", "NEEDS_HUMAN", "BLOCKED", "FAILED"},
         n.steps[m.current_step].status = "RETRY_WAIT" =>
            m.steps[m.current_step].attempt_count < MaxAttempts,
         \/ n.status = n.steps[m.current_step].status
         \/ n.status = m.status /\ Live(m) /\ m.status # "NEEDS_HUMAN",
         n.status \in TERMINAL_RUN_STATUSES => n.lease = "none"
  PROVE  RunOK(n)
  <1> DEFINE c == m.current_step
  <1>1. /\ c \in Steps /\ m.resumes \in Nat /\ m.steps[c].attempt_count \in Nat
    BY DEF AgentRunRecord, AgentRunStep
  <1>2. n.status \notin {"ABSENT", "CANCELLED", "EVALUATING", "SUCCEEDED"}
    BY DEF RunOK, WholeRun
  <1>3. CurrentStep(n)
    BY <1>2 DEF CurrentStep, Live, TERMINAL_RUN_STATUSES
  <1>4. /\ n.steps[c].attempt_count <= MaxAttempts + n.resumes
        /\ n.steps[c].status \in {"READY", "RETRY_WAIT"} =>
              n.steps[c].attempt_count < MaxAttempts + n.resumes
    BY <1>1 DEF RunOK, BudgetedSteps
  <1> QED
    BY <1>1, <1>2, <1>3, <1>4, MoveCurrent

\* The target of a result that did not pass, and the run it applies to.
LEMMA FailingStep ==
  ASSUME NEW m \in AgentRunRecord, RunOK(m), NEW k \in Steps, NEW attempt,
         ExecutingOK(m, k, attempt),
         NEW decision \in VerificationDecision \ {"PASS"},
         can_transition_step(m.steps[k].status, FailureTarget(m, k, decision))
  PROVE  LET target == FailureTarget(m, k, decision) IN
         /\ k = m.current_step /\ Live(m)
         /\ target \in {"RETRY_WAIT", "NEEDS_HUMAN", "BLOCKED", "FAILED"}
         /\ target = "RETRY_WAIT" => m.steps[k].attempt_count < MaxAttempts
         /\ target = "RETRY_WAIT" => m.steps[k].status \in {"RUNNING", "RETRY_WAIT"}
         /\ m.steps[k].status # "SUCCEEDED"
  <1> DEFINE target == FailureTarget(m, k, decision)
  <1>1. target \in {"RETRY_WAIT", "NEEDS_HUMAN", "BLOCKED", "FAILED"}
    BY DEF FailureTarget, VerificationDecision
  <1>2. target = "RETRY_WAIT" => m.steps[k].attempt_count < MaxAttempts
    BY DEF FailureTarget, VerificationDecision
  <1>3. can_transition_step(m.steps[k].status, target)
    OBVIOUS
  <1> HIDE DEF target
  <1>4. k = m.current_step /\
        m.steps[k].status \in {"RUNNING", "READY", "RETRY_WAIT", "NEEDS_HUMAN", "CANCELLED"}
    BY DEF ExecutingOK
  <1>5. m.steps[k].status # "CANCELLED"
    BY <1>1, <1>3 DEF can_transition_step, STEP_TRANSITIONS
  <1>6. target = "RETRY_WAIT" => m.steps[k].status \in {"RUNNING", "RETRY_WAIT"}
    BY <1>3, <1>4 DEF can_transition_step, STEP_TRANSITIONS
  <1>7. Live(m)
    BY <1>4, <1>5 DEF RunOK, CurrentStep, Live, TERMINAL_RUN_STATUSES
  <1> QED
    BY <1>1, <1>2, <1>4, <1>6, <1>7 DEF target

\* A result that did not pass, with a legal target for the run.
LEMMA FailureOK ==
  ASSUME NEW m \in AgentRunRecord, RunOK(m), NEW k \in Steps, NEW attempt,
         ExecutingOK(m, k, attempt),
         NEW decision \in VerificationDecision \ {"PASS"},
         can_transition_step(m.steps[k].status, FailureTarget(m, k, decision))
  PROVE  LET target == FailureTarget(m, k, decision)
             n == ReleaseLease(transition_run(transition_step(m, k, target), target))
         IN  n \in AgentRunRecord /\ RunOK(n) /\ Harmless(m, n)
  <1> DEFINE target == FailureTarget(m, k, decision)
             a == transition_step(m, k, target)
             b == transition_run(a, target)
             n == ReleaseLease(b)
  <1>1. /\ k = m.current_step /\ Live(m)
        /\ target \in {"RETRY_WAIT", "NEEDS_HUMAN", "BLOCKED", "FAILED"}
        /\ target = "RETRY_WAIT" => m.steps[k].attempt_count < MaxAttempts
        /\ m.steps[k].status # "SUCCEEDED"
    BY FailingStep
  <1> HIDE DEF target
  <1>2. target \in AgentRunStepStatus /\ target \in AgentRunStatus /\ target # "RUNNING"
    BY <1>1 DEF AgentRunStepStatus, AgentRunStatus
  <1>3. /\ a \in AgentRunRecord /\ a.resumes = m.resumes /\ a.current_step = m.current_step
        /\ \A j \in Steps : j # k => a.steps[j] = m.steps[j]
        /\ a.steps[k].status = target
        /\ a.steps[k].attempt_count = m.steps[k].attempt_count
    BY <1>2, TransitionStep
  <1> HIDE DEF a
  <1>4. /\ b \in AgentRunRecord /\ b.status = target /\ b.steps = a.steps
        /\ b.current_step = a.current_step /\ b.resumes = a.resumes
    BY <1>2, <1>3, TransitionRun
  <1> HIDE DEF b
  <1>5. /\ n \in AgentRunRecord /\ n.status = target /\ n.steps = a.steps
        /\ n.current_step = m.current_step /\ n.resumes = m.resumes /\ n.lease = "none"
    BY <1>3, <1>4, Released
  <1> HIDE DEF n
  <1>6. m.status \notin {"ABSENT", "CANCELLED", "SUCCEEDED"}
    BY <1>1 DEF Live, TERMINAL_RUN_STATUSES
  <1>7. RunOK(n)
    BY <1>1, <1>3, <1>5, <1>6, MoveBoth
  <1>8. Harmless(m, n)
    BY <1>1, <1>2, <1>3, <1>5, <1>6 DEF Harmless, Existing, Live, TERMINAL_RUN_STATUSES
  <1> QED
    BY <1>5, <1>7, <1>8 DEF n, b, a, target

\* A late result that did not pass and that the run's status refuses: only
\* the step changes, in memory.
LEMMA FailureRaisesOK ==
  ASSUME NEW m \in AgentRunRecord, RunOK(m), NEW k \in Steps, NEW attempt,
         ExecutingOK(m, k, attempt),
         NEW decision \in VerificationDecision \ {"PASS"},
         can_transition_step(m.steps[k].status, FailureTarget(m, k, decision)),
         ~can_transition_run(m.status, FailureTarget(m, k, decision))
  PROVE  LET n == transition_step(m, k, FailureTarget(m, k, decision))
         IN  /\ n \in AgentRunRecord /\ RunOK(n) /\ Harmless(m, n)
             /\ Synced(n, m)
  <1> DEFINE target == FailureTarget(m, k, decision)
             n == transition_step(m, k, target)
  <1>1. /\ k = m.current_step /\ Live(m)
        /\ target \in {"RETRY_WAIT", "NEEDS_HUMAN", "BLOCKED", "FAILED"}
        /\ target = "RETRY_WAIT" => m.steps[k].attempt_count < MaxAttempts
        /\ target = "RETRY_WAIT" => m.steps[k].status \in {"RUNNING", "RETRY_WAIT"}
        /\ m.steps[k].status # "SUCCEEDED"
    BY FailingStep
  <1>2. ~can_transition_run(m.status, target)
    OBVIOUS
  <1> HIDE DEF target
  <1>3. target \in AgentRunStepStatus /\ target # "RUNNING"
    BY <1>1 DEF AgentRunStepStatus
  <1>4. /\ n \in AgentRunRecord /\ n.resumes = m.resumes /\ n.current_step = m.current_step
        /\ n.status = m.status /\ n.lease = m.lease
        /\ \A j \in Steps : j # k => n.steps[j] = m.steps[j]
        /\ n.steps[k].status = target
        /\ n.steps[k].attempt_count = m.steps[k].attempt_count
    BY <1>3, TransitionStep
  <1> HIDE DEF n
  <1>5. m.status \notin TERMINAL_RUN_STATUSES /\ m.status \notin {"ABSENT", "CANCELLED", "SUCCEEDED"}
    BY <1>1 DEF Live, TERMINAL_RUN_STATUSES
  <1>6. m.status # "NEEDS_HUMAN"
    <2>1. ASSUME m.status = "NEEDS_HUMAN" PROVE target = "RETRY_WAIT"
      BY <1>1, <1>2, <2>1 DEF can_transition_run, RUN_TRANSITIONS
    <2>2. m.steps[k].status \in {"RUNNING", "RETRY_WAIT"} => m.status # "NEEDS_HUMAN"
      BY <1>1 DEF RunOK, CurrentStep
    <2> QED
      BY <1>1, <2>1, <2>2
  <1>7. RunOK(n)
    BY <1>1, <1>4, <1>5, <1>6, MoveBoth
  <1>8. m.steps[k].status # "RUNNING"
    <2>1. m.status # "RUNNING"
      BY <1>1, <1>2 DEF can_transition_run, RUN_TRANSITIONS
    <2> QED
      BY <1>1, <2>1 DEF RunOK, CurrentStep
  <1>9. Harmless(m, n) /\ Synced(n, m)
    BY <1>1, <1>3, <1>4, <1>5, <1>8 DEF Harmless, Synced, Existing
  <1> QED
    BY <1>4, <1>7, <1>9 DEF n, target

\* The due flag of a step is read by ready_step only.
LEMMA SetDue ==
  ASSUME NEW m \in AgentRunRecord, NEW k \in Steps
  PROVE  LET n == RetryDue(m, k) IN
         /\ n \in AgentRunRecord
         /\ n.status = m.status /\ n.current_step = m.current_step
         /\ n.lease = m.lease /\ n.resumes = m.resumes
         /\ n.pause_requested = m.pause_requested
         /\ \A j \in Steps : j # k => n.steps[j] = m.steps[j]
         /\ n.steps[k].status = m.steps[k].status
         /\ n.steps[k].attempt_count = m.steps[k].attempt_count
  <1> DEFINE n == RetryDue(m, k)
             s == [m.steps[k] EXCEPT !.due = TRUE]
  <1>1. m.steps \in [Steps -> AgentRunStep]
    BY DEF AgentRunRecord
  <1>2. s \in AgentRunStep /\ s.status = m.steps[k].status
        /\ s.attempt_count = m.steps[k].attempt_count
    BY <1>1 DEF AgentRunStep
  <1>3. n = [m EXCEPT !.steps = [m.steps EXCEPT ![k] = s]]
    BY DEF RetryDue
  <1> HIDE DEF s, n
  <1>4. [m.steps EXCEPT ![k] = s] \in [Steps -> AgentRunStep]
    BY <1>1, <1>2
  <1>5. /\ n \in AgentRunRecord
        /\ n.status = m.status /\ n.current_step = m.current_step
        /\ n.lease = m.lease /\ n.resumes = m.resumes
        /\ n.pause_requested = m.pause_requested
        /\ n.steps = [m.steps EXCEPT ![k] = s]
    BY <1>3, <1>4 DEF AgentRunRecord
  <1> QED
    BY <1>1, <1>2, <1>5 DEF n

\* Time passes for the backoff of a step.
LEMMA ElapseOK ==
  ASSUME NEW m \in AgentRunRecord, RunOK(m), NEW k \in Steps,
         m.steps[k].status = "RETRY_WAIT"
  PROVE  LET n == RetryDue(m, k) IN
         /\ n \in AgentRunRecord /\ RunOK(n) /\ Harmless(m, n) /\ KeepsThreads(m, n)
         /\ Synced(n, m)
  <1> DEFINE n == RetryDue(m, k)
  <1>1. /\ n \in AgentRunRecord
        /\ n.status = m.status /\ n.current_step = m.current_step
        /\ n.lease = m.lease /\ n.resumes = m.resumes
        /\ n.pause_requested = m.pause_requested
        /\ \A j \in Steps : n.steps[j].status = m.steps[j].status
        /\ \A j \in Steps : n.steps[j].attempt_count = m.steps[j].attempt_count
    BY SetDue
  <1> HIDE DEF n
  <1>2. m.current_step \in Steps
    BY DEF AgentRunRecord
  <1>3. m.status # "ABSENT"
    <2>1. m.status = "ABSENT" => m.steps[k].status = "PENDING"
      BY DEF RunOK, WholeRun, AbsentRun, NewStep
    <2> QED
      BY <2>1
  <1>4. PlacedSteps(n) /\ BudgetedSteps(n) /\ WholeRun(n)
    BY <1>1, <1>3 DEF RunOK, PlacedSteps, BudgetedSteps, WholeRun
  <1>5. CurrentStep(n)
    BY <1>1, <1>2 DEF RunOK, CurrentStep, Live
  <1>6. Harmless(m, n) /\ Synced(n, m)
    BY <1>1 DEF Harmless, Existing, Synced
  <1>7. KeepsThreads(m, n)
    BY <1>1, <1>2 DEF KeepsThreads, AcquiredOK, ExecutingOK, Live
  <1> QED
    BY <1>1, <1>4, <1>5, <1>6, <1>7 DEF RunOK, n

\* The watchdog takes back the current step of a run whose lease expired.
LEMMA RecoverOK ==
  ASSUME NEW m \in AgentRunRecord, RunOK(m), m.lease = "expired"
  PROVE  LET n == RecoverRun(m) IN
         /\ n \in AgentRunRecord /\ RunOK(n) /\ Harmless(m, n) /\ KeepsThreads(m, n)
         /\ Existing(n)
  <1> DEFINE k == m.current_step
             target == IF m.steps[k].attempt_count < MaxAttempts
                       THEN "RETRY_WAIT" ELSE "NEEDS_HUMAN"
             a == transition_step(m, k, target)
             b == IF target = "RETRY_WAIT" THEN RetryDue(a, k) ELSE a
             c == transition_run(b, target)
             n == ReleaseLease(c)
  <1>1. k \in Steps
    BY DEF AgentRunRecord
  <1>2. Live(m)
    BY DEF Live, RunOK, WholeRun, AbsentRun
  <1>3. CASE m.steps[k].status = "RUNNING"
    <2>1. m.status = "RUNNING"
      BY <1>3 DEF RunOK, CurrentStep
    <2>2. RecoverRun(m) = n
      BY <1>3, <2>1 DEF RecoverRun
    <2>3. /\ target \in {"RETRY_WAIT", "NEEDS_HUMAN"}
          /\ target = "RETRY_WAIT" => m.steps[k].attempt_count < MaxAttempts
      OBVIOUS
    <2> HIDE DEF target
    <2>4. target \in AgentRunStepStatus /\ target \in AgentRunStatus /\ target # "RUNNING"
      BY <2>3 DEF AgentRunStepStatus, AgentRunStatus
    <2>5. /\ a \in AgentRunRecord /\ a.resumes = m.resumes /\ a.current_step = k
          /\ \A j \in Steps : j # k => a.steps[j] = m.steps[j]
          /\ a.steps[k].status = target
          /\ a.steps[k].attempt_count = m.steps[k].attempt_count
      BY <1>1, <2>4, TransitionStep
    <2> HIDE DEF a
    <2>6. /\ b \in AgentRunRecord /\ b.resumes = m.resumes /\ b.current_step = k
          /\ \A j \in Steps : j # k => b.steps[j] = m.steps[j]
          /\ b.steps[k].status = target
          /\ b.steps[k].attempt_count = m.steps[k].attempt_count
      BY <1>1, <2>5, SetDue
    <2> HIDE DEF b
    <2>7. /\ c \in AgentRunRecord /\ c.status = target /\ c.steps = b.steps
          /\ c.current_step = b.current_step /\ c.resumes = b.resumes
      BY <2>4, <2>6, TransitionRun
    <2> HIDE DEF c
    <2>8. /\ n \in AgentRunRecord /\ n.status = target /\ n.steps = b.steps
          /\ n.current_step = k /\ n.resumes = m.resumes /\ n.lease = "none"
      BY <2>6, <2>7, Released
    <2> HIDE DEF n
    <2>9. RunOK(n)
      BY <1>1, <2>1, <2>3, <2>6, <2>8, MoveBoth
    <2>10. Harmless(m, n)
      BY <1>3, <2>1, <2>3, <2>6, <2>8 DEF Harmless, Existing, TERMINAL_RUN_STATUSES
    <2>11. KeepsThreads(m, n)
      BY <1>1, <2>3, <2>6, <2>8 DEF KeepsThreads, AcquiredOK, ExecutingOK
    <2>12. Existing(n)
      BY <2>3, <2>8 DEF Existing
    <2> QED
      BY <2>2, <2>8, <2>9, <2>10, <2>11, <2>12
  <1>4. CASE m.steps[k].status # "RUNNING"
    <2> DEFINE d == WithLease(m, "none")
    <2>1. RecoverRun(m) = d
      BY <1>4 DEF RecoverRun, ReleaseLease
    <2>2. /\ d \in AgentRunRecord /\ RunOK(d)
          /\ d.status = m.status /\ d.current_step = m.current_step
          /\ d.lease = "none" /\ d.steps = m.steps
      BY <1>2, <1>4, LeaseOK DEF LeaseState
    <2> HIDE DEF d
    <2>3. Harmless(m, d)
      BY <2>2 DEF Harmless, Existing
    <2>4. KeepsThreads(m, d)
      BY <2>2 DEF KeepsThreads, AcquiredOK, ExecutingOK
    <2>5. Existing(d)
      BY <1>2, <2>2 DEF Existing, Live, TERMINAL_RUN_STATUSES
    <2> QED
      BY <2>1, <2>2, <2>3, <2>4, <2>5
  <1> QED
    BY <1>3, <1>4

\* Only pause_requested changes.
LEMMA PauseRequestOK ==
  ASSUME NEW m \in AgentRunRecord, RunOK(m), Live(m), StepBoundary(m)
  PROVE  LET n == [m EXCEPT !.pause_requested = TRUE] IN
         /\ n \in AgentRunRecord /\ RunOK(n) /\ Harmless(m, n) /\ KeepsThreads(m, n)
         /\ Synced(n, m) /\ n.status = m.status /\ n.steps = m.steps
         /\ n.current_step = m.current_step /\ n.lease = m.lease
  <1> DEFINE n == [m EXCEPT !.pause_requested = TRUE]
  <1>1. /\ n \in AgentRunRecord
        /\ n.status = m.status /\ n.current_step = m.current_step
        /\ n.lease = m.lease /\ n.resumes = m.resumes /\ n.steps = m.steps
    BY DEF AgentRunRecord
  <1> HIDE DEF n
  <1>2. m.status # "ABSENT"
    BY DEF Live
  <1>3. RunOK(n)
    BY <1>1, <1>2 DEF RunOK, PlacedSteps, BudgetedSteps, WholeRun, CurrentStep, Live
  <1>4. Harmless(m, n) /\ Synced(n, m)
    BY <1>1 DEF Harmless, Existing, Synced
  <1>5. KeepsThreads(m, n)
    BY <1>1 DEF KeepsThreads, AcquiredOK, ExecutingOK, StepBoundary
  <1> QED
    BY <1>1, <1>3, <1>4, <1>5 DEF n

\* pause_agent_run at a step boundary.
LEMMA PauseOK ==
  ASSUME NEW m \in AgentRunRecord, RunOK(m), Live(m), StepBoundary(m),
         can_transition_run(m.status, "PAUSED")
  PROVE  LET n == pause_agent_run(m) IN
         n \in AgentRunRecord /\ RunOK(n) /\ Harmless(m, n) /\ KeepsThreads(m, n)
  <1> DEFINE a == [m EXCEPT !.pause_requested = TRUE]
             n == pause_agent_run(m)
  <1>1. /\ a \in AgentRunRecord /\ RunOK(a)
        /\ Synced(a, m) /\ a.status = m.status /\ a.steps = m.steps
        /\ a.current_step = m.current_step /\ a.lease = m.lease
    BY PauseRequestOK
  <1>2. n = transition_run(a, "PAUSED")
    BY DEF pause_agent_run
  <1> HIDE DEF a, n
  <1>3. /\ n \in AgentRunRecord /\ n.status = "PAUSED" /\ n.steps = m.steps
        /\ n.current_step = m.current_step /\ n.lease = m.lease /\ n.resumes = m.resumes
    BY <1>1, <1>2, TransitionRun DEF AgentRunStatus, TERMINAL_RUN_STATUSES, Synced
  <1>4. /\ m.status \notin {"ABSENT", "CANCELLED", "SUCCEEDED", "NEEDS_HUMAN"}
        /\ m.status \notin TERMINAL_RUN_STATUSES
    BY DEF Live, TERMINAL_RUN_STATUSES, can_transition_run, RUN_TRANSITIONS
  <1>5. /\ m.current_step \in Steps /\ m.resumes \in Nat
        /\ m.steps[m.current_step].status # "CANCELLED"
        /\ m.steps[m.current_step].status # "RUNNING"
    BY <1>4 DEF AgentRunRecord, RunOK, PlacedSteps, StepBoundary
  <1>6. CurrentStep(n)
    BY <1>3, <1>4, <1>5 DEF RunOK, CurrentStep, Live, TERMINAL_RUN_STATUSES
  <1>7. RunOK(n)
    <2>1. LET s == n.steps[n.current_step] IN
            /\ s.attempt_count <= MaxAttempts + n.resumes
            /\ s.status \in {"READY", "RETRY_WAIT"} => s.attempt_count < MaxAttempts + n.resumes
            /\ s.status # "CANCELLED"
      BY <1>3, <1>5 DEF RunOK, BudgetedSteps
    <2> QED
      BY <1>3, <1>4, <1>5, <1>6, <2>1, MoveCurrent DEF TERMINAL_RUN_STATUSES
  <1>8. Harmless(m, n)
    BY <1>3, <1>4 DEF Harmless, Existing, TERMINAL_RUN_STATUSES
  <1>9. KeepsThreads(m, n)
    BY <1>3 DEF KeepsThreads, AcquiredOK, ExecutingOK, StepBoundary
  <1> QED
    BY <1>3, <1>7, <1>8, <1>9 DEF n

\* The current step goes back to READY: what resume and retry have in common.
LEMMA BackToReady ==
  ASSUME NEW m \in AgentRunRecord, NEW n \in AgentRunRecord, RunOK(m),
         m.status \in {"SCHEDULED", "RUNNING", "PAUSED", "NEEDS_HUMAN", "RETRY_WAIT"},
         n.current_step = m.current_step, n.lease = m.lease,
         n.resumes >= m.resumes, ~n.pause_requested,
         \A j \in Steps : j # m.current_step => n.steps[j] = m.steps[j],
         n.steps[m.current_step].attempt_count = m.steps[m.current_step].attempt_count,
         m.steps[m.current_step].status # "RUNNING",
         \/ n.steps[m.current_step].status = "READY"
         \/ n.steps[m.current_step].status = m.steps[m.current_step].status
            /\ m.steps[m.current_step].status \in {"READY", "BLOCKED", "FAILED"},
         n.steps[m.current_step].status = "READY" =>
            m.steps[m.current_step].attempt_count < MaxAttempts + n.resumes,
         \/ n.status = "SCHEDULED"
         \/ n.status = m.status /\ m.status # "NEEDS_HUMAN"
  PROVE  RunOK(n) /\ Harmless(m, n) /\ KeepsThreads(m, n)
  <1> DEFINE c == m.current_step
  <1>1. /\ c \in Steps /\ m.resumes \in Nat /\ n.resumes \in Nat
        /\ m.steps[c].attempt_count \in Nat
    BY DEF AgentRunRecord, AgentRunStep
  <1>2. /\ n.status \notin TERMINAL_RUN_STATUSES
        /\ m.status \notin TERMINAL_RUN_STATUSES
        /\ n.status \notin {"ABSENT", "CANCELLED", "EVALUATING", "SUCCEEDED", "NEEDS_HUMAN"}
        /\ m.status \notin {"ABSENT", "CANCELLED", "EVALUATING", "SUCCEEDED"}
    BY DEF TERMINAL_RUN_STATUSES
  <1>3. n.steps[c].status \in {"READY", "BLOCKED", "FAILED"}
    OBVIOUS
  <1>4. CurrentStep(n)
    BY <1>2, <1>3 DEF CurrentStep, Live
  <1>5. /\ n.steps[c].attempt_count <= MaxAttempts + n.resumes
        /\ n.steps[c].status \in {"READY", "RETRY_WAIT"} =>
              n.steps[c].attempt_count < MaxAttempts + n.resumes
    BY <1>1, <1>3 DEF RunOK, BudgetedSteps
  <1>6. RunOK(n)
    BY <1>1, <1>2, <1>3, <1>4, <1>5, MoveCurrent
  <1>7. m.steps[c].status # "SUCCEEDED"
    BY <1>2 DEF RunOK, CurrentStep
  <1>8. Harmless(m, n)
    BY <1>1, <1>2, <1>3, <1>7 DEF Harmless, Existing
  <1>9. KeepsThreads(m, n)
    <2>1. AcquiredOK(m) => AcquiredOK(n)
      BY <1>2, <1>3 DEF AcquiredOK, Live
    <2>2. ASSUME NEW k \in Steps, NEW attempt \in Nat, ExecutingOK(m, k, attempt)
          PROVE  ExecutingOK(n, k, attempt)
      BY <1>1, <2>2 DEF ExecutingOK
    <2> QED
      BY <2>1, <2>2 DEF KeepsThreads
  <1> QED
    BY <1>6, <1>8, <1>9

\* resume_agent_run.
LEMMA ResumeOK ==
  ASSUME NEW m \in AgentRunRecord, RunOK(m),
         m.status \in {"PAUSED", "NEEDS_HUMAN", "RETRY_WAIT"}
  PROVE  LET n == resume_agent_run(m) IN
         n \in AgentRunRecord /\ RunOK(n) /\ Harmless(m, n) /\ KeepsThreads(m, n)
  <1> DEFINE k == m.current_step
             a == IF m.steps[k].status \in {"PAUSED", "NEEDS_HUMAN", "RETRY_WAIT"}
                  THEN transition_step(m, k, "READY") ELSE m
             b == [a EXCEPT !.pause_requested = FALSE, !.resumes = a.resumes + 1]
             n == transition_run(b, "SCHEDULED")
  <1>1. resume_agent_run(m) = n
    BY DEF resume_agent_run
  <1>2. /\ k \in Steps /\ m.resumes \in Nat /\ m.steps[k].attempt_count \in Nat
        /\ m.steps[k].status \in AgentRunStepStatus
    BY DEF AgentRunRecord, AgentRunStep
  <1>3. m.steps[k].status \in {"READY", "RETRY_WAIT", "NEEDS_HUMAN", "BLOCKED", "FAILED"}
    BY <1>2 DEF RunOK, CurrentStep, PlacedSteps, AgentRunStepStatus
  <1>4. /\ a \in AgentRunRecord /\ a.resumes = m.resumes /\ a.current_step = k
        /\ a.lease = m.lease
        /\ \A j \in Steps : j # k => a.steps[j] = m.steps[j]
        /\ a.steps[k].attempt_count = m.steps[k].attempt_count
        /\ \/ a.steps[k].status = "READY"
           \/ /\ a.steps[k].status = m.steps[k].status
              /\ m.steps[k].status \in {"READY", "BLOCKED", "FAILED"}
    <2>1. "READY" \in AgentRunStepStatus
      BY DEF AgentRunStepStatus
    <2>2. CASE m.steps[k].status \in {"NEEDS_HUMAN", "RETRY_WAIT"}
      <3>1. a = transition_step(m, k, "READY")
        BY <2>2
      <3> HIDE DEF a
      <3> QED
        BY <1>2, <2>1, <3>1, TransitionStep
    <2>3. CASE m.steps[k].status \in {"READY", "BLOCKED", "FAILED"}
      <3>1. a = m
        BY <2>3
      <3> HIDE DEF a
      <3> QED
        BY <2>3, <3>1
    <2> QED
      BY <1>3, <2>2, <2>3
  <1> HIDE DEF a
  <1>5. /\ b \in AgentRunRecord /\ b.resumes = m.resumes + 1 /\ b.current_step = k
        /\ b.lease = m.lease /\ ~b.pause_requested /\ b.steps = a.steps
    <2>1. a \in AgentRunRecord /\ a.resumes + 1 \in Nat
      BY <1>2, <1>4
    <2>2. /\ b \in AgentRunRecord /\ b.resumes = a.resumes + 1
          /\ b.current_step = a.current_step /\ b.lease = a.lease
          /\ b.pause_requested = FALSE /\ b.steps = a.steps
      BY <2>1 DEF AgentRunRecord
    <2> QED
      BY <1>4, <2>2
  <1> HIDE DEF b
  <1>6. /\ n \in AgentRunRecord /\ n.resumes = m.resumes + 1 /\ n.current_step = k
        /\ n.lease = m.lease /\ ~n.pause_requested /\ n.steps = a.steps
        /\ n.status = "SCHEDULED"
    BY <1>5, TransitionRun DEF AgentRunStatus, TERMINAL_RUN_STATUSES
  <1> HIDE DEF n
  <1>7. m.steps[k].attempt_count < MaxAttempts + n.resumes /\ n.resumes >= m.resumes
    BY <1>2, <1>6 DEF RunOK, BudgetedSteps
  <1>8. RunOK(n) /\ Harmless(m, n) /\ KeepsThreads(m, n)
    BY <1>3, <1>4, <1>6, <1>7, BackToReady
  <1> QED
    BY <1>1, <1>6, <1>8

\* retry_agent_run_step.
LEMMA RetryOK ==
  ASSUME NEW m \in AgentRunRecord, RunOK(m), Live(m), NEW k \in Steps,
         m.steps[k].status \in {"RETRY_WAIT", "NEEDS_HUMAN"},
         m.steps[k].attempt_count < MaxAttempts
  PROVE  LET n == retry_agent_run_step(m, k) IN
         n \in AgentRunRecord /\ RunOK(n) /\ Harmless(m, n) /\ KeepsThreads(m, n)
  <1> DEFINE a == transition_step(m, k, "READY")
             b == [a EXCEPT !.current_step = k, !.pause_requested = FALSE]
             c == transition_run(b, "SCHEDULED")
             n == IF m.status \in {"NEEDS_HUMAN", "RETRY_WAIT"} THEN c ELSE b
  <1>1. retry_agent_run_step(m, k) = n
    BY DEF retry_agent_run_step
  <1>2. /\ m.current_step \in Steps /\ m.resumes \in Nat
        /\ m.steps[k].attempt_count \in Nat /\ m.status \in AgentRunStatus
    BY DEF AgentRunRecord, AgentRunStep, Live
  <1>3. k = m.current_step
    <2>1. ~(k < m.current_step) /\ ~(k > m.current_step)
      BY DEF RunOK, PlacedSteps
    <2>2. k \in Nat /\ m.current_step \in Nat
      BY <1>2, StepsNonEmpty
    <2> HIDE DEF a, b, c, n
    <2> QED
      BY <2>1, <2>2
  <1>4. m.status \in {"SCHEDULED", "RUNNING", "PAUSED", "NEEDS_HUMAN", "RETRY_WAIT"}
    BY <1>2 DEF Live, RunOK, WholeRun, AgentRunStatus, TERMINAL_RUN_STATUSES
  <1>5. "READY" \in AgentRunStepStatus
    BY DEF AgentRunStepStatus
  <1>6. /\ a \in AgentRunRecord /\ a.resumes = m.resumes /\ a.status = m.status
        /\ a.lease = m.lease /\ a.steps[k].status = "READY"
        /\ \A j \in Steps : j # k => a.steps[j] = m.steps[j]
        /\ a.steps[k].attempt_count = m.steps[k].attempt_count
    BY <1>5, TransitionStep
  <1> HIDE DEF a
  <1>7. /\ b \in AgentRunRecord /\ b.resumes = m.resumes /\ b.status = m.status
        /\ b.lease = m.lease /\ b.steps = a.steps /\ b.current_step = k
        /\ ~b.pause_requested
    BY <1>6 DEF AgentRunRecord
  <1> HIDE DEF b
  <1>8. /\ c \in AgentRunRecord /\ c.resumes = m.resumes /\ c.status = "SCHEDULED"
        /\ c.lease = m.lease /\ c.steps = a.steps /\ c.current_step = k
        /\ ~c.pause_requested
    BY <1>7, TransitionRun DEF AgentRunStatus, TERMINAL_RUN_STATUSES
  <1> HIDE DEF c
  <1>9. /\ n \in AgentRunRecord /\ n.resumes = m.resumes
        /\ n.lease = m.lease /\ n.steps = a.steps /\ n.current_step = k
        /\ ~n.pause_requested
        /\ \/ n.status = "SCHEDULED"
           \/ n.status = m.status /\ m.status # "NEEDS_HUMAN"
    BY <1>7, <1>8
  <1> HIDE DEF n
  <1>10. m.steps[k].attempt_count < MaxAttempts + n.resumes /\ n.resumes >= m.resumes
    BY <1>2, <1>9
  <1>11. RunOK(n) /\ Harmless(m, n) /\ KeepsThreads(m, n)
    BY <1>3, <1>4, <1>6, <1>9, <1>10, BackToReady
  <1> QED
    BY <1>1, <1>9, <1>11

\* cancel_agent_run at a step boundary.
LEMMA CancelOK ==
  ASSUME NEW m \in AgentRunRecord, RunOK(m), Live(m), StepBoundary(m)
  PROVE  LET n == cancel_agent_run(m) IN
         n \in AgentRunRecord /\ RunOK(n) /\ Harmless(m, n) /\ KeepsThreads(m, n)
  <1> DEFINE f == [k \in Steps |->
                     IF m.steps[k].status \in TERMINAL_STEP_STATUSES THEN m.steps[k]
                     ELSE [m.steps[k] EXCEPT !.status = "CANCELLED", !.due = FALSE]]
             a == [m EXCEPT !.steps = f]
             n == transition_run(a, "CANCELLED")
  <1>1. cancel_agent_run(m) = n
    BY DEF cancel_agent_run
  <1>2. /\ m.current_step \in Steps /\ m.resumes \in Nat /\ m.status \in AgentRunStatus
        /\ \A j \in Steps : m.steps[j] \in AgentRunStep
    BY DEF AgentRunRecord, Live
  <1>3. \A j \in Steps :
          /\ f[j] \in AgentRunStep
          /\ f[j].attempt_count = m.steps[j].attempt_count
          /\ f[j].status = IF m.steps[j].status \in TERMINAL_STEP_STATUSES
                           THEN m.steps[j].status ELSE "CANCELLED"
    BY <1>2 DEF AgentRunStep, AgentRunStepStatus
  <1>4. f \in [Steps -> AgentRunStep]
    BY <1>3
  <1> HIDE DEF f
  <1>5. /\ a \in AgentRunRecord /\ a.resumes = m.resumes /\ a.status = m.status
        /\ a.lease = m.lease /\ a.steps = f /\ a.current_step = m.current_step
    BY <1>4 DEF AgentRunRecord
  <1> HIDE DEF a
  <1>6. /\ n \in AgentRunRecord /\ n.resumes = m.resumes /\ n.status = "CANCELLED"
        /\ n.lease = "none" /\ n.steps = f /\ n.current_step = m.current_step
    BY <1>5, TransitionRun DEF AgentRunStatus, TERMINAL_RUN_STATUSES, StepBoundary
  <1> HIDE DEF n
  <1>7. PlacedSteps(n)
    BY <1>3, <1>6 DEF RunOK, PlacedSteps, TERMINAL_STEP_STATUSES
  <1>8. /\ m.status \notin {"ABSENT", "SUCCEEDED"} \cup TERMINAL_RUN_STATUSES
    BY DEF Live, TERMINAL_RUN_STATUSES
  <1>9. n.steps[n.current_step].status \in {"CANCELLED", "FAILED", "BLOCKED"}
    BY <1>2, <1>3, <1>6, <1>8 DEF RunOK, CurrentStep, TERMINAL_STEP_STATUSES
  <1>10. CurrentStep(n)
    BY <1>6, <1>9 DEF CurrentStep
  <1>11. BudgetedSteps(n)
    BY <1>3, <1>6 DEF RunOK, BudgetedSteps, TERMINAL_STEP_STATUSES
  <1>12. WholeRun(n)
    BY <1>6 DEF WholeRun
  <1>13. Harmless(m, n)
    BY <1>3, <1>6, <1>8 DEF Harmless, Existing, TERMINAL_STEP_STATUSES
  <1>14. KeepsThreads(m, n)
    <2>1. ~AcquiredOK(m)
      BY DEF AcquiredOK, StepBoundary
    <2>2. ASSUME NEW k \in Steps, NEW attempt \in Nat, ExecutingOK(m, k, attempt)
          PROVE  ExecutingOK(n, k, attempt)
      BY <1>3, <1>6, <2>2 DEF ExecutingOK, TERMINAL_STEP_STATUSES
    <2> QED
      BY <2>1, <2>2 DEF KeepsThreads
  <1> QED
    BY <1>1, <1>6, <1>7, <1>10, <1>11, <1>12, <1>13, <1>14 DEF RunOK

----------------------------------------------------------------------------
(* Every action preserves IInv.                                            *)

\* What a thread that is not idle refers to.
LEMMA ThreadFields ==
  ASSUME TypeOK, NEW t \in Threads
  PROVE  /\ thread[t].phase \in {"idle", "acquired", "executing"}
         /\ thread[t].phase # "idle" => thread[t].run \in Runs
         /\ thread[t].phase = "executing" =>
               thread[t].step \in Steps /\ thread[t].attempt \in Nat
  BY DEF TypeOK, ThreadRecord

\* One run is replaced in memory, and either the store is persisted or the
\* handler raised before it.
LEMMA StoreStep ==
  ASSUME IInv, NEW r \in Runs, NEW n \in AgentRunRecord, RunOK(n),
         Existing(n) => Existing(mem[r]) \/ \A q \in Runs : ~Existing(mem[q]),
         mem' = [mem EXCEPT ![r] = n],
         disk' = mem' \/ (disk' = disk /\ Synced(n, mem[r]))
  PROVE  /\ mem' \in [Runs -> AgentRunRecord] /\ disk' \in [Runs -> AgentRunRecord]
         /\ \A q \in Runs :
               RunOK(mem'[q]) /\ RunOK(disk'[q]) /\ Synced(mem'[q], disk'[q])
         /\ OneLiveRun'
         /\ mem'[r] = n /\ \A q \in Runs : q # r => mem'[q] = mem[q]
  <1>1. /\ mem \in [Runs -> AgentRunRecord] /\ disk \in [Runs -> AgentRunRecord]
        /\ \A q \in Runs : RunOK(mem[q]) /\ RunOK(disk[q]) /\ Synced(mem[q], disk[q])
        /\ \A p, q \in Runs : Existing(mem[p]) /\ Existing(mem[q]) => p = q
    BY DEF IInv, TypeOK, OneLiveRun
  <1>2. mem'[r] = n /\ \A q \in Runs : q # r => mem'[q] = mem[q]
    BY <1>1
  <1>3. mem' \in [Runs -> AgentRunRecord] /\ disk' \in [Runs -> AgentRunRecord]
    BY <1>1
  <1>4. \A q \in Runs : RunOK(mem'[q]) /\ RunOK(disk'[q])
    BY <1>1, <1>2
  <1>5. \A q \in Runs : Synced(mem'[q], disk'[q])
    <2>1. ASSUME NEW m, NEW d, Synced(n, m), Synced(m, d) PROVE Synced(n, d)
      BY <2>1 DEF Synced
    <2>2. \A q \in Runs : Synced(mem'[q], mem'[q])
      BY DEF Synced
    <2> QED
      BY <1>1, <1>2, <2>1, <2>2
  <1>6. \A p, q \in Runs : Existing(mem'[p]) /\ Existing(mem'[q]) => p = q
    BY <1>1, <1>2
  <1> QED
    BY <1>2, <1>3, <1>4, <1>5, <1>6 DEF OneLiveRun

\* An operation on a run that leaves the threads where they are.
LEMMA ControlStep ==
  ASSUME IInv, NEW r \in Runs, NEW n \in AgentRunRecord, RunOK(n),
         Existing(n) => Existing(mem[r]) \/ \A q \in Runs : ~Existing(mem[q]),
         KeepsThreads(mem[r], n),
         mem' = [mem EXCEPT ![r] = n],
         disk' = mem' \/ (disk' = disk /\ Synced(n, mem[r])),
         UNCHANGED <<thread, taskReady>>
  PROVE  IInv'
  <1>1. /\ mem' \in [Runs -> AgentRunRecord] /\ disk' \in [Runs -> AgentRunRecord]
        /\ \A q \in Runs :
               RunOK(mem'[q]) /\ RunOK(disk'[q]) /\ Synced(mem'[q], disk'[q])
        /\ OneLiveRun'
        /\ mem'[r] = n /\ \A q \in Runs : q # r => mem'[q] = mem[q]
    BY StoreStep
  <1>2. TypeOK'
    BY <1>1 DEF IInv, TypeOK
  <1>3. ThreadsOK'
    <2>1. ASSUME NEW t \in Threads
          PROVE  /\ thread[t].phase = "acquired" => AcquiredOK(mem'[thread[t].run])
                 /\ thread[t].phase = "executing" =>
                      ExecutingOK(mem'[thread[t].run], thread[t].step, thread[t].attempt)
      BY <1>1, ThreadFields DEF IInv, ThreadsOK, KeepsThreads
    <2> QED
      BY <2>1 DEF IInv, ThreadsOK
  <1> QED
    BY <1>1, <1>2, <1>3 DEF IInv

\* A request ends and leaves the run n behind.
LEMMA ReturnStep ==
  ASSUME IInv, NEW t \in Threads, thread[t].phase # "idle",
         NEW n \in AgentRunRecord, RunOK(n),
         Existing(n) => Existing(mem[thread[t].run]),
         mem' = [mem EXCEPT ![thread[t].run] = n],
         disk' = mem' \/ (disk' = disk /\ Synced(n, mem[thread[t].run])),
         Return(t), UNCHANGED taskReady
  PROVE  IInv'
  <1> DEFINE r == thread[t].run
  <1>1. r \in Runs
    BY ThreadFields DEF IInv
  <1>2. /\ mem' \in [Runs -> AgentRunRecord] /\ disk' \in [Runs -> AgentRunRecord]
        /\ \A q \in Runs :
               RunOK(mem'[q]) /\ RunOK(disk'[q]) /\ Synced(mem'[q], disk'[q])
        /\ OneLiveRun'
        /\ \A q \in Runs : q # r => mem'[q] = mem[q]
    BY <1>1, StoreStep
  <1>3. /\ thread' \in [Threads -> ThreadRecord]
        /\ thread'[t].phase = "idle"
        /\ \A u \in Threads : u # t => thread'[u] = thread[u]
    BY DEF IInv, TypeOK, Return, IdleThread, ThreadRecord
  <1>4. TypeOK'
    BY <1>2, <1>3 DEF IInv, TypeOK
  <1>5. ThreadsOK'
    <2>1. ASSUME NEW u \in Threads, thread'[u].phase # "idle"
          PROVE  /\ thread'[u] = thread[u] /\ mem'[thread[u].run] = mem[thread[u].run]
                 /\ thread[u].phase = "acquired" => AcquiredOK(mem[thread[u].run])
                 /\ thread[u].phase = "executing" =>
                      ExecutingOK(mem[thread[u].run], thread[u].step, thread[u].attempt)
      <3>1. u # t /\ thread'[u] = thread[u]
        BY <1>3, <2>1
      <3>2. thread[u].run # r /\ thread[u].run \in Runs
        BY <2>1, <3>1, ThreadFields DEF IInv, ThreadsOK
      <3> QED
        BY <1>2, <3>1, <3>2 DEF IInv, ThreadsOK
    <2>2. \A u, v \in Threads :
            /\ thread'[u].phase # "idle" /\ thread'[v].phase # "idle"
            /\ thread'[u].run = thread'[v].run
            => u = v
      BY <2>1 DEF IInv, ThreadsOK
    <2>3. \A u \in Threads :
            /\ thread'[u].phase = "acquired" => AcquiredOK(mem'[thread'[u].run])
            /\ thread'[u].phase = "executing" =>
                  ExecutingOK(mem'[thread'[u].run], thread'[u].step, thread'[u].attempt)
      BY <2>1
    <2> QED
      BY <2>2, <2>3 DEF ThreadsOK
  <1> QED
    BY <1>2, <1>4, <1>5 DEF IInv

(* What a step of the system does to the runs in memory.                   *)

Quiet(m, n) == Harmless(m, n) /\ (Existing(m) => Existing(n))

Created(r) ==
    /\ mem[r].status = "ABSENT" /\ mem'[r] = NewRun
    /\ \A q \in Runs : ~Existing(mem[q])

Started(r) ==
    /\ Live(mem[r]) /\ mem[r].status # "PAUSED" /\ ~mem[r].pause_requested
    /\ mem'[r].status = "RUNNING"
    /\ \A j \in Steps :
          /\ mem'[r].steps[j].status = "SUCCEEDED" <=> mem[r].steps[j].status = "SUCCEEDED"
          /\ mem'[r].steps[j].attempt_count >= mem[r].steps[j].attempt_count

Passed(r) ==
    \E t \in Threads : \E k \in Steps :
        /\ thread[t].phase = "executing" /\ thread[t].run = r /\ thread[t].step = k
        /\ thread[t].attempt = mem[r].steps[k].attempt_count
        /\ mem[r].steps[k].status = "RUNNING" /\ mem[r].status = "RUNNING"
        /\ mem'[r].status = IF k = StepCount - 1 THEN "SUCCEEDED" ELSE "RUNNING"
        /\ \A j \in Steps :
              /\ mem[r].steps[j].status = "SUCCEEDED" <=> j < k
              /\ mem'[r].steps[j].status = "SUCCEEDED" <=> j <= k
              /\ mem'[r].steps[j].status # "RUNNING"
              /\ mem'[r].steps[j].attempt_count = mem[r].steps[j].attempt_count

Effect ==
    \/ \A q \in Runs : Quiet(mem[q], mem'[q])
    \/ \E r \in Runs :
          /\ Harmless(mem[r], mem'[r]) \/ Created(r) \/ Started(r) \/ Passed(r)
          /\ \A q \in Runs : q # r => mem'[q] = mem[q]

\* A run that does not change.
LEMMA QuietSame == ASSUME NEW m PROVE Quiet(m, m) /\ KeepsThreads(m, m)
  BY DEF Quiet, Harmless, KeepsThreads

\* The effect of a handler that is harmless to run r.
LEMMA HarmlessEffect ==
  ASSUME IInv, NEW r \in Runs, NEW n \in AgentRunRecord, Harmless(mem[r], n),
         mem' = [mem EXCEPT ![r] = n]
  PROVE  Effect
  <1>1. mem'[r] = n /\ \A q \in Runs : q # r => mem'[q] = mem[q]
    BY DEF IInv, TypeOK
  <1> QED
    BY <1>1 DEF Effect

\* POST /agent/runs.
LEMMA create_step ==
  ASSUME IInv, NEW r \in Runs, create_agent_run(r)
  PROVE  IInv' /\ Effect
  <1>1. /\ mem[r].status = "ABSENT" /\ \A q \in Runs : ~Existing(mem[q])
        /\ mem' = [mem EXCEPT ![r] = NewRun] /\ disk' = mem'
        /\ UNCHANGED <<thread, taskReady>>
    BY DEF create_agent_run, Commit, Persist
  <1>2. KeepsThreads(mem[r], NewRun)
    <2>1. mem[r] = AbsentRun /\ AbsentRun.current_step = 0
          /\ AbsentRun.steps[0].status = "PENDING"
      BY <1>1, StepsNonEmpty DEF IInv, RunOK, WholeRun, AbsentRun, NewStep
    <2>2. ~AcquiredOK(mem[r])
      BY <1>1 DEF AcquiredOK, Live
    <2>3. ASSUME NEW k \in Steps, NEW attempt \in Nat PROVE ~ExecutingOK(mem[r], k, attempt)
      BY <2>1 DEF ExecutingOK
    <2> QED
      BY <2>2, <2>3 DEF KeepsThreads
  <1>3. IInv'
    BY <1>1, <1>2, FreshRunOK, ControlStep
  <1>4. Effect
    BY <1>1 DEF Effect, Created, IInv, TypeOK
  <1> QED
    BY <1>3, <1>4

\* heartbeat_run: a run with a lease is live and its step, if a request knows
\* it, is RUNNING.
LEMMA heartbeat_step ==
  ASSUME IInv, NEW r \in Runs, heartbeat_run(r)
  PROVE  IInv' /\ Effect
  <1> DEFINE n == WithLease(mem[r], "live")
  <1>1. /\ mem[r].lease # "none"
        /\ mem' = [mem EXCEPT ![r] = n] /\ disk' = mem' /\ UNCHANGED <<thread, taskReady>>
    BY DEF heartbeat_run, Commit, Persist
  <1>2. mem[r] \in AgentRunRecord /\ RunOK(mem[r])
    BY DEF IInv, TypeOK
  <1>3. Live(mem[r])
    BY <1>1, <1>2 DEF Live, RunOK, WholeRun, AbsentRun
  <1>4. /\ n \in AgentRunRecord /\ RunOK(n)
        /\ n.status = mem[r].status /\ n.current_step = mem[r].current_step
        /\ n.lease = "live" /\ n.pause_requested = mem[r].pause_requested
        /\ n.steps = mem[r].steps
    BY <1>2, <1>3, LeaseOK DEF LeaseState
  <1> HIDE DEF n
  <1>5. Harmless(mem[r], n)
    BY <1>4 DEF Harmless, Existing
  <1>6. KeepsThreads(mem[r], n)
    <2>1. AcquiredOK(mem[r]) => AcquiredOK(n)
      BY <1>4 DEF AcquiredOK, Live
    <2>2. ASSUME NEW k \in Steps, NEW attempt \in Nat, ExecutingOK(mem[r], k, attempt)
          PROVE  ExecutingOK(n, k, attempt)
      BY <1>1, <1>4, <2>2 DEF ExecutingOK
    <2> QED
      BY <2>1, <2>2 DEF KeepsThreads
  <1>7. Existing(n) => Existing(mem[r])
    BY <1>5 DEF Harmless
  <1>8. IInv'
    BY <1>1, <1>4, <1>6, <1>7, ControlStep
  <1>9. Effect
    BY <1>1, <1>4, <1>5, HarmlessEffect
  <1> QED
    BY <1>8, <1>9

\* The operator's controls and the late pause.
LEMMA operator_step ==
  ASSUME IInv, NEW r \in Runs, OperatorNext(r)
  PROVE  IInv' /\ Effect
  <1>1. mem[r] \in AgentRunRecord /\ RunOK(mem[r])
    BY DEF IInv, TypeOK
  <1>2. ASSUME NEW n \in AgentRunRecord, RunOK(n), Harmless(mem[r], n), KeepsThreads(mem[r], n),
               mem' = [mem EXCEPT ![r] = n],
               disk' = mem' \/ (disk' = disk /\ Synced(n, mem[r])),
               UNCHANGED <<thread, taskReady>>
        PROVE  IInv' /\ Effect
    <2>1. Existing(n) => Existing(mem[r])
      BY <1>2 DEF Harmless
    <2>2. IInv'
      BY <1>2, <2>1, ControlStep
    <2>3. Effect
      BY <1>2, HarmlessEffect
    <2> QED
      BY <2>2, <2>3
  <1>3. CASE create_agent_run(r)
    BY <1>3, create_step
  <1>4. CASE pause_run(r)
    <2>1. /\ Live(mem[r]) /\ StepBoundary(mem[r]) /\ can_transition_run(mem[r].status, "PAUSED")
          /\ mem' = [mem EXCEPT ![r] = pause_agent_run(mem[r])] /\ disk' = mem'
          /\ UNCHANGED <<thread, taskReady>>
      BY <1>4 DEF pause_run, Commit, Persist
    <2> QED
      BY <1>1, <1>2, <2>1, PauseOK
  <1>5. CASE pause_run_rejected(r)
    <2>1. /\ Live(mem[r]) /\ StepBoundary(mem[r])
          /\ mem' = [mem EXCEPT ![r] = [mem[r] EXCEPT !.pause_requested = TRUE]]
          /\ disk' = disk /\ UNCHANGED <<thread, taskReady>>
      BY <1>5 DEF pause_run_rejected, Abort
    <2> DEFINE n == [mem[r] EXCEPT !.pause_requested = TRUE]
    <2>2. /\ n \in AgentRunRecord /\ RunOK(n) /\ Harmless(mem[r], n)
          /\ KeepsThreads(mem[r], n) /\ Synced(n, mem[r])
      BY <1>1, <2>1, PauseRequestOK
    <2>3. mem' = [mem EXCEPT ![r] = n]
      BY <2>1
    <2> HIDE DEF n
    <2> QED
      BY <1>2, <2>1, <2>2, <2>3
  <1>6. CASE resume_run(r)
    <2>1. /\ mem[r].status \in {"PAUSED", "NEEDS_HUMAN", "RETRY_WAIT"}
          /\ mem' = [mem EXCEPT ![r] = resume_agent_run(mem[r])] /\ disk' = mem'
          /\ UNCHANGED <<thread, taskReady>>
      BY <1>6 DEF resume_run, Commit, Persist
    <2> QED
      BY <1>1, <1>2, <2>1, ResumeOK
  <1>7. CASE cancel_run(r)
    <2>1. /\ Live(mem[r]) /\ StepBoundary(mem[r])
          /\ mem' = [mem EXCEPT ![r] = cancel_agent_run(mem[r])] /\ disk' = mem'
          /\ UNCHANGED <<thread, taskReady>>
      BY <1>7 DEF cancel_run, Commit, Persist
    <2> QED
      BY <1>1, <1>2, <2>1, CancelOK
  <1>8. CASE \E k \in Steps : retry_run(r, k)
    <2>1. PICK k \in Steps : retry_run(r, k)
      BY <1>8
    <2>2. /\ Live(mem[r]) /\ mem[r].steps[k].status \in {"RETRY_WAIT", "NEEDS_HUMAN"}
          /\ mem[r].steps[k].attempt_count < MaxAttempts
          /\ mem' = [mem EXCEPT ![r] = retry_agent_run_step(mem[r], k)] /\ disk' = mem'
          /\ UNCHANGED <<thread, taskReady>>
      BY <2>1 DEF retry_run, Commit, Persist
    <2> QED
      BY <1>1, <1>2, <2>2, RetryOK
  <1> QED
    BY <1>3, <1>4, <1>5, <1>6, <1>7, <1>8, heartbeat_step DEF OperatorNext

\* A thread takes the lease of a run at a step boundary.
LEMMA acquire_step ==
  ASSUME IInv, NEW t \in Threads, NEW r \in Runs, acquire_run_lease(t, r)
  PROVE  IInv' /\ Effect
  <1> DEFINE m == mem[r]
             n == WithLease(m, "live")
  <1>1. /\ thread[t].phase = "idle"
        /\ \A u \in Threads : thread[u].phase # "idle" => thread[u].run # r
        /\ Live(m) /\ StepBoundary(m) /\ ~m.pause_requested /\ m.status # "PAUSED"
        /\ mem' = [mem EXCEPT ![r] = n] /\ disk' = mem'
        /\ thread' = [thread EXCEPT ![t] = [phase |-> "acquired", run |-> r]]
        /\ UNCHANGED taskReady
    BY DEF acquire_run_lease, ExecutionLockFree, Commit, Persist
  <1>2. m \in AgentRunRecord /\ RunOK(m)
    BY DEF IInv, TypeOK
  <1>3. /\ n \in AgentRunRecord /\ RunOK(n)
        /\ n.status = m.status /\ n.current_step = m.current_step
        /\ n.lease = "live" /\ n.pause_requested = m.pause_requested /\ n.steps = m.steps
    BY <1>1, <1>2, LeaseOK DEF LeaseState
  <1> HIDE DEF n
  <1>4. Harmless(m, n) /\ AcquiredOK(n)
    BY <1>1, <1>3 DEF Harmless, Existing, AcquiredOK, Live, StepBoundary
  <1>5. /\ mem' \in [Runs -> AgentRunRecord] /\ disk' \in [Runs -> AgentRunRecord]
        /\ \A q \in Runs :
               RunOK(mem'[q]) /\ RunOK(disk'[q]) /\ Synced(mem'[q], disk'[q])
        /\ OneLiveRun'
        /\ mem'[r] = n /\ \A q \in Runs : q # r => mem'[q] = mem[q]
    <2>1. Existing(n) => Existing(mem[r])
      BY <1>4 DEF Harmless
    <2> QED
      BY <1>1, <1>3, <2>1, StoreStep
  <1>6. /\ thread' \in [Threads -> ThreadRecord]
        /\ thread'[t].phase = "acquired" /\ thread'[t].run = r
        /\ \A u \in Threads : u # t => thread'[u] = thread[u]
    BY <1>1 DEF IInv, TypeOK, ThreadRecord
  <1>7. TypeOK'
    BY <1>1, <1>5, <1>6 DEF IInv, TypeOK
  <1>8. ThreadsOK'
    <2>1. ASSUME NEW u \in Threads, u # t, thread'[u].phase # "idle"
          PROVE  /\ thread'[u] = thread[u] /\ thread[u].run \in Runs /\ thread[u].run # r
                 /\ mem'[thread[u].run] = mem[thread[u].run]
      BY <1>1, <1>5, <1>6, <2>1, ThreadFields DEF IInv
    <2>2. \A u, v \in Threads :
            /\ thread'[u].phase # "idle" /\ thread'[v].phase # "idle"
            /\ thread'[u].run = thread'[v].run
            => u = v
      BY <1>6, <2>1 DEF IInv, ThreadsOK
    <2>3. \A u \in Threads :
            /\ thread'[u].phase = "acquired" => AcquiredOK(mem'[thread'[u].run])
            /\ thread'[u].phase = "executing" =>
                  ExecutingOK(mem'[thread'[u].run], thread'[u].step, thread'[u].attempt)
      BY <1>4, <1>5, <1>6, <2>1 DEF IInv, ThreadsOK
    <2> QED
      BY <2>2, <2>3 DEF ThreadsOK
  <1>9. Effect
    BY <1>1, <1>3, <1>4, HarmlessEffect
  <1> QED
    BY <1>5, <1>7, <1>8, <1>9 DEF IInv

\* The thread starts the ready step.
LEMMA start_step_step ==
  ASSUME IInv, NEW t \in Threads, start_step(t)
  PROVE  IInv' /\ Effect
  <1> DEFINE r == thread[t].run
             m == mem[r]
  <1>1. thread[t].phase = "acquired" /\ UNCHANGED taskReady /\ r \in Runs
    BY ThreadFields DEF start_step, IInv
  <1>2. PICK k \in Steps :
          /\ ready_step(m, k)
          /\ mem' = [mem EXCEPT ![r] = StartStep(m, k)] /\ disk' = mem'
          /\ thread' = [thread EXCEPT ![t] =
                [phase |-> "executing", run |-> r, step |-> k,
                 attempt |-> m.steps[k].attempt_count + 1]]
    BY DEF start_step, Commit, Persist
  <1> DEFINE n == StartStep(m, k)
  <1>3. m \in AgentRunRecord /\ RunOK(m) /\ AcquiredOK(m)
    BY <1>1 DEF IInv, TypeOK, ThreadsOK
  <1>4. m.steps[k].attempt_count \in Nat
    BY <1>3 DEF AgentRunRecord, AgentRunStep
  <1>5. /\ n \in AgentRunRecord /\ RunOK(n)
        /\ n.status = "RUNNING" /\ n.current_step = k /\ k = m.current_step
        /\ n.lease = m.lease /\ n.steps[k].status = "RUNNING"
        /\ n.steps[k].attempt_count = m.steps[k].attempt_count + 1
        /\ \A j \in Steps : j # k => n.steps[j] = m.steps[j]
    BY <1>2, <1>3, StartStepOK
  <1> HIDE DEF n
  <1>6. Existing(m)
    BY <1>3 DEF AcquiredOK, Live, Existing, TERMINAL_RUN_STATUSES
  <1>7. /\ mem' \in [Runs -> AgentRunRecord] /\ disk' \in [Runs -> AgentRunRecord]
        /\ \A q \in Runs :
               RunOK(mem'[q]) /\ RunOK(disk'[q]) /\ Synced(mem'[q], disk'[q])
        /\ OneLiveRun'
        /\ mem'[r] = n /\ \A q \in Runs : q # r => mem'[q] = mem[q]
    <2>1. mem' = [mem EXCEPT ![r] = n]
      BY <1>2 DEF n
    <2> QED
      BY <1>1, <1>2, <1>5, <1>6, <2>1, StoreStep
  <1>8. /\ thread' \in [Threads -> ThreadRecord]
        /\ thread'[t].phase = "executing" /\ thread'[t].run = r /\ thread'[t].step = k
        /\ thread'[t].attempt = n.steps[k].attempt_count
        /\ \A u \in Threads : u # t => thread'[u] = thread[u]
    <2>1. [phase |-> "executing", run |-> r, step |-> k,
           attempt |-> m.steps[k].attempt_count + 1] \in ThreadRecord
      BY <1>1, <1>4 DEF ThreadRecord
    <2> QED
      BY <1>2, <1>5, <2>1 DEF IInv, TypeOK
  <1>9. TypeOK'
    BY <1>1, <1>7, <1>8 DEF IInv, TypeOK
  <1>10. ExecutingOK(n, k, n.steps[k].attempt_count)
    BY <1>5 DEF ExecutingOK
  <1>11. ThreadsOK'
    <2>1. ASSUME NEW u \in Threads, u # t, thread'[u].phase # "idle"
          PROVE  /\ thread'[u] = thread[u] /\ thread[u].run \in Runs /\ thread[u].run # r
                 /\ mem'[thread[u].run] = mem[thread[u].run]
      BY <1>1, <1>7, <1>8, <2>1, ThreadFields DEF IInv, ThreadsOK
    <2>2. \A u, v \in Threads :
            /\ thread'[u].phase # "idle" /\ thread'[v].phase # "idle"
            /\ thread'[u].run = thread'[v].run
            => u = v
      BY <1>8, <2>1 DEF IInv, ThreadsOK
    <2>3. \A u \in Threads :
            /\ thread'[u].phase = "acquired" => AcquiredOK(mem'[thread'[u].run])
            /\ thread'[u].phase = "executing" =>
                  ExecutingOK(mem'[thread'[u].run], thread'[u].step, thread'[u].attempt)
      BY <1>7, <1>8, <1>10, <2>1 DEF IInv, ThreadsOK
    <2> QED
      BY <2>2, <2>3 DEF ThreadsOK
  <1>12. Started(r)
    <2>1. m.steps[k].status # "SUCCEEDED"
      BY <1>2 DEF ready_step
    <2>2. \A j \in Steps : m.steps[j].attempt_count \in Nat
      BY <1>3 DEF AgentRunRecord, AgentRunStep
    <2>3. \A j \in Steps :
            /\ n.steps[j].status = "SUCCEEDED" <=> m.steps[j].status = "SUCCEEDED"
            /\ n.steps[j].attempt_count >= m.steps[j].attempt_count
      BY <1>5, <2>1, <2>2
    <2>4. Live(m) /\ m.status # "PAUSED" /\ ~m.pause_requested
      BY <1>3 DEF AcquiredOK
    <2>5. mem'[r] = n /\ n.status = "RUNNING"
      BY <1>5, <1>7
    <2> QED
      BY <2>3, <2>4, <2>5 DEF Started
  <1>13. Effect
    BY <1>1, <1>2, <1>7, <1>12 DEF Effect
  <1> QED
    BY <1>7, <1>9, <1>11, <1>13 DEF IInv

\* The other ways for a request to end: nothing was ready, the step passed,
\* it did not pass, or its late result was refused.
LEMMA return_step ==
  ASSUME IInv, NEW t \in Threads,
         \/ no_ready_step(t) \/ apply_pass_next(t) \/ apply_pass_last(t)
         \/ apply_failure(t) \/ apply_rejected(t)
  PROVE  IInv' /\ Effect
  <1> DEFINE r == thread[t].run
             k == thread[t].step
             m == mem[r]
  <1>1. thread[t].phase \in {"acquired", "executing"} /\ r \in Runs
    BY ThreadFields
    DEF no_ready_step, apply_pass_next, apply_pass_last, apply_failure, apply_rejected, IInv
  <1>2. m \in AgentRunRecord /\ RunOK(m)
    BY <1>1 DEF IInv, TypeOK
  <1>3. ASSUME NEW n \in AgentRunRecord, RunOK(n), Existing(n) => Existing(m),
               mem' = [mem EXCEPT ![r] = n], disk' = mem' \/ (disk' = disk /\ Synced(n, m)),
               Return(t), UNCHANGED taskReady
        PROVE  IInv'
    BY <1>1, <1>3, ReturnStep
  <1>4. ASSUME NEW n \in AgentRunRecord, RunOK(n), Harmless(m, n),
               mem' = [mem EXCEPT ![r] = n], disk' = mem' \/ (disk' = disk /\ Synced(n, m)),
               Return(t), UNCHANGED taskReady
        PROVE  IInv' /\ Effect
    <2>1. Existing(n) => Existing(m)
      BY <1>4 DEF Harmless
    <2> QED
      BY <1>1, <1>3, <1>4, <2>1, HarmlessEffect
  <1>5. thread[t].phase = "executing" =>
          /\ k \in Steps /\ thread[t].attempt \in Nat
          /\ ExecutingOK(m, k, thread[t].attempt)
    BY ThreadFields DEF IInv, ThreadsOK
  <1>6. CASE no_ready_step(t)
    <2> DEFINE n == ReleaseLease(m)
    <2>1. /\ thread[t].phase = "acquired" /\ mem' = [mem EXCEPT ![r] = n] /\ disk' = mem'
          /\ Return(t) /\ UNCHANGED taskReady
      BY <1>6 DEF no_ready_step, Commit, Persist
    <2>2. AcquiredOK(m)
      BY <2>1 DEF IInv, ThreadsOK
    <2>3. n = WithLease(m, "none")
      BY DEF ReleaseLease
    <2>4. n \in AgentRunRecord /\ RunOK(n) /\ n.status = m.status /\ n.steps = m.steps
      <3>1. Live(m) /\ m.steps[m.current_step].status # "RUNNING" /\ "none" \in LeaseState
        BY <2>2 DEF AcquiredOK, LeaseState
      <3> QED
        BY <1>2, <2>3, <3>1, LeaseOK
    <2> HIDE DEF n
    <2>5. Harmless(m, n)
      BY <2>4 DEF Harmless, Existing
    <2> QED
      BY <1>4, <2>1, <2>4, <2>5
  <1>7. CASE apply_pass_next(t)
    <2>1. /\ thread[t].phase = "executing" /\ Return(t) /\ UNCHANGED taskReady
          /\ can_transition_step(m.steps[k].status, "SUCCEEDED")
      BY <1>7 DEF apply_pass_next
    <2>2. PICK i \in Steps :
            /\ IsNextPending(transition_step(m, k, "SUCCEEDED"), k, i)
            /\ mem' = [mem EXCEPT ![r] = PassToNext(m, k, i)]
            /\ disk' = mem'
      BY <1>7 DEF apply_pass_next, Commit, Persist
    <2> DEFINE n == PassToNext(m, k, i)
    <2>3. /\ n \in AgentRunRecord /\ RunOK(n)
          /\ n.status = "RUNNING" /\ m.status = "RUNNING"
          /\ n.steps[k].status = "SUCCEEDED" /\ i = k + 1
          /\ \A j \in Steps : j # k /\ m.steps[j].status # "SUCCEEDED"
                                        => n.steps[j].status # "SUCCEEDED"
          /\ \A j \in Steps : m.steps[j].status = "SUCCEEDED" => n.steps[j].status = "SUCCEEDED"
          /\ \A j \in Steps : n.steps[j].attempt_count = m.steps[j].attempt_count
          /\ \A j \in Steps : n.steps[j].status # "RUNNING"
      <3>1. /\ m \in AgentRunRecord /\ RunOK(m) /\ k \in Steps
            /\ ExecutingOK(m, k, thread[t].attempt)
            /\ can_transition_step(m.steps[k].status, "SUCCEEDED")
            /\ IsNextPending(transition_step(m, k, "SUCCEEDED"), k, i)
        BY <1>2, <1>5, <2>1, <2>2
      <3> HIDE DEF m, k
      <3> QED
        BY <3>1, PassNextOK
    <2>4. mem' = [mem EXCEPT ![r] = n]
      BY <2>2
    <2> HIDE DEF n
    <2>5. /\ m.steps[k].status = "RUNNING"
          /\ \A j \in Steps : j < k => m.steps[j].status = "SUCCEEDED"
          /\ \A j \in Steps : j > k => m.steps[j].status = "PENDING"
      BY <1>2, <1>5, <2>1, PassingStep
    <2>6. Existing(m) /\ k # StepCount - 1
      BY <1>5, <2>1, <2>3 DEF Existing, Steps
    <2>7. mem'[r] = n /\ \A q \in Runs : q # r => mem'[q] = mem[q]
      BY <1>1, <2>4 DEF IInv, TypeOK
    <2>8. ASSUME NEW j \in Steps
          PROVE  /\ m.steps[j].status = "SUCCEEDED" <=> j < k
                 /\ n.steps[j].status = "SUCCEEDED" <=> j <= k
      <3>1. j \in Nat /\ k \in Nat /\ k \in Steps
        BY <1>5, <2>1, StepsNonEmpty
      <3>2. CASE j < k
        BY <2>3, <2>5, <3>1, <3>2
      <3>3. CASE j = k
        BY <2>3, <2>5, <3>1, <3>3
      <3>4. CASE j > k
        BY <2>3, <2>5, <3>1, <3>4
      <3> QED
        BY <3>1, <3>2, <3>3, <3>4
    <2>9. thread[t].attempt = m.steps[k].attempt_count
      BY <1>5, <2>1 DEF ExecutingOK
    <2>10. Passed(r)
      BY <1>5, <2>1, <2>3, <2>5, <2>6, <2>7, <2>8, <2>9 DEF Passed
    <2>11. Effect
      BY <1>1, <2>2, <2>7, <2>10 DEF Effect
    <2>12. IInv'
      BY <1>3, <2>1, <2>2, <2>3, <2>4, <2>6
    <2> QED
      BY <2>11, <2>12
  <1>8. CASE apply_pass_last(t)
    <2> DEFINE n == ReleaseLease(transition_run(transition_step(m, k, "SUCCEEDED"), "SUCCEEDED"))
    <2>1. /\ thread[t].phase = "executing" /\ Return(t) /\ UNCHANGED taskReady
          /\ can_transition_step(m.steps[k].status, "SUCCEEDED")
          /\ \A i \in Steps : ~IsNextPending(transition_step(m, k, "SUCCEEDED"), k, i)
      BY <1>8 DEF apply_pass_last
    <2>2. /\ n \in AgentRunRecord /\ RunOK(n)
          /\ can_transition_run(m.status, "SUCCEEDED")
          /\ n.status = "SUCCEEDED" /\ m.status = "RUNNING" /\ k = StepCount - 1
          /\ \A j \in Steps : n.steps[j].status = "SUCCEEDED"
          /\ \A j \in Steps : j # k => m.steps[j].status = "SUCCEEDED"
          /\ \A j \in Steps : n.steps[j].attempt_count = m.steps[j].attempt_count
      BY <1>2, <1>5, <2>1, PassLastOK
    <2>3. mem' = [mem EXCEPT ![r] = n] /\ disk' = mem'
      BY <1>8, <2>2 DEF apply_pass_last, Commit, Persist
    <2> HIDE DEF n
    <2>4. Existing(m)
      BY <2>2 DEF Existing
    <2>5. mem'[r] = n /\ \A q \in Runs : q # r => mem'[q] = mem[q]
      BY <1>1, <2>3 DEF IInv, TypeOK
    <2>6. m.steps[k].status = "RUNNING"
      BY <1>2, <1>5, <2>1, PassingStep
    <2>7. \A j \in Steps :
            /\ m.steps[j].status = "SUCCEEDED" <=> j < k
            /\ n.steps[j].status = "SUCCEEDED" <=> j <= k
      <3>1. \A j \in Steps : j <= k /\ (j < k <=> j # k)
        BY <2>2 DEF Steps
      <3> QED
        BY <2>2, <2>6, <3>1
    <2>8. thread[t].attempt = m.steps[k].attempt_count
      BY <1>5, <2>1 DEF ExecutingOK
    <2>9. Passed(r)
      BY <1>5, <2>1, <2>2, <2>5, <2>6, <2>7, <2>8 DEF Passed
    <2>10. Effect
      BY <1>1, <2>3, <2>5, <2>9 DEF Effect
    <2>11. IInv'
      BY <1>3, <2>1, <2>2, <2>3, <2>4
    <2> QED
      BY <2>10, <2>11
  <1>9. CASE apply_failure(t)
    <2>1. /\ thread[t].phase = "executing" /\ Return(t) /\ UNCHANGED taskReady
      BY <1>9 DEF apply_failure
    <2>2. PICK decision \in VerificationDecision \ {"PASS"} :
            LET target == FailureTarget(m, k, decision)
                a == transition_step(m, k, target)
            IN  /\ can_transition_step(m.steps[k].status, target)
                /\ IF can_transition_run(m.status, target)
                   THEN Commit(r, ReleaseLease(transition_run(a, target)))
                   ELSE Abort(r, a)
      BY <1>9 DEF apply_failure
    <2> DEFINE target == FailureTarget(m, k, decision)
               a == transition_step(m, k, target)
    <2>3. CASE can_transition_run(m.status, target)
      <3> DEFINE n == ReleaseLease(transition_run(a, target))
      <3>1. n \in AgentRunRecord /\ RunOK(n) /\ Harmless(m, n)
        BY <1>2, <1>5, <2>1, <2>2, FailureOK
      <3>2. mem' = [mem EXCEPT ![r] = n] /\ disk' = mem'
        BY <2>2, <2>3 DEF Commit, Persist
      <3> HIDE DEF n
      <3> QED
        BY <1>4, <2>1, <3>1, <3>2
    <2>4. CASE ~can_transition_run(m.status, target)
      <3>1. a \in AgentRunRecord /\ RunOK(a) /\ Harmless(m, a) /\ Synced(a, m)
        BY <1>2, <1>5, <2>1, <2>2, <2>4, FailureRaisesOK
      <3>2. mem' = [mem EXCEPT ![r] = a] /\ disk' = disk
        BY <2>2, <2>4 DEF Abort
      <3> HIDE DEF a
      <3> QED
        BY <1>4, <2>1, <3>1, <3>2
    <2> QED
      BY <2>3, <2>4
  <1>10. CASE apply_rejected(t)
    <2>1. Return(t) /\ mem' = mem /\ disk' = disk /\ UNCHANGED taskReady
      BY <1>10 DEF apply_rejected
    <2>2. mem' = [mem EXCEPT ![r] = m]
      BY <2>1 DEF IInv, TypeOK
    <2>3. Harmless(m, m) /\ Synced(m, m)
      BY DEF Harmless, Synced
    <2> QED
      BY <1>2, <1>4, <2>1, <2>2, <2>3
  <1> QED
    BY <1>6, <1>7, <1>8, <1>9, <1>10

\* The watchdog and the clock change any number of runs, each quietly.
LEMMA QuietStep ==
  ASSUME IInv,
         mem' \in [Runs -> AgentRunRecord], disk' \in [Runs -> AgentRunRecord],
         \A q \in Runs :
            RunOK(mem'[q]) /\ RunOK(disk'[q]) /\ Synced(mem'[q], disk'[q]),
         \A q \in Runs : Quiet(mem[q], mem'[q]),
         \A q \in Runs : \A k \in Steps, attempt \in Nat :
            ExecutingOK(mem[q], k, attempt) => ExecutingOK(mem'[q], k, attempt),
         \A t \in Threads : thread[t].phase = "acquired" =>
            (AcquiredOK(mem[thread[t].run]) => AcquiredOK(mem'[thread[t].run])),
         thread' = thread, taskReady' \in BOOLEAN
  PROVE  IInv' /\ Effect
  <1>1. TypeOK'
    BY DEF IInv, TypeOK
  <1>2. ThreadsOK'
    <2>1. ASSUME NEW t \in Threads
          PROVE  /\ thread[t].phase = "acquired" => AcquiredOK(mem'[thread[t].run])
                 /\ thread[t].phase = "executing" =>
                      ExecutingOK(mem'[thread[t].run], thread[t].step, thread[t].attempt)
      BY ThreadFields DEF IInv, ThreadsOK
    <2> QED
      BY <2>1 DEF IInv, ThreadsOK
  <1>3. OneLiveRun'
    BY DEF IInv, OneLiveRun, Quiet, Harmless
  <1>4. Effect
    BY DEF Effect
  <1> QED
    BY <1>1, <1>2, <1>3, <1>4 DEF IInv

\* A record is in sync with itself.
LEMMA SyncedSame == ASSUME NEW m PROVE Synced(m, m)
  BY DEF Synced

\* POST watchdog/recover-stale.
LEMMA recover_step ==
  ASSUME IInv, recover_stale_leases
  PROVE  IInv' /\ Effect
  <1>1. /\ mem' = [q \in Runs |-> IF mem[q].lease = "expired"
                                  THEN RecoverRun(mem[q]) ELSE mem[q]]
        /\ disk' = mem' /\ thread' = thread /\ taskReady' = taskReady
    BY DEF recover_stale_leases, Persist
  <1>2. ASSUME NEW q \in Runs
        PROVE  /\ mem'[q] \in AgentRunRecord /\ RunOK(mem'[q])
               /\ Quiet(mem[q], mem'[q]) /\ KeepsThreads(mem[q], mem'[q])
    <2>1. mem[q] \in AgentRunRecord /\ RunOK(mem[q])
      BY DEF IInv, TypeOK
    <2>2. CASE mem[q].lease = "expired"
      <3>1. mem'[q] = RecoverRun(mem[q])
        BY <1>1, <2>2
      <3> QED
        BY <2>1, <2>2, <3>1, RecoverOK DEF Quiet
    <2>3. CASE mem[q].lease # "expired"
      <3>1. mem'[q] = mem[q]
        BY <1>1, <2>3
      <3> QED
        BY <2>1, <3>1, QuietSame
    <2> QED
      BY <2>2, <2>3
  <1>3. mem' \in [Runs -> AgentRunRecord]
    <2>1. mem' = [q \in Runs |-> mem'[q]]
      BY <1>1
    <2> QED
      BY <1>2, <2>1
  <1>4. \A q \in Runs : Synced(mem'[q], disk'[q]) /\ RunOK(disk'[q])
    BY <1>1, <1>2, SyncedSame
  <1>5. \A t \in Threads : thread[t].phase = "acquired" =>
          (AcquiredOK(mem[thread[t].run]) => AcquiredOK(mem'[thread[t].run]))
    BY <1>2, ThreadFields DEF IInv, KeepsThreads
  <1>6. \A q \in Runs : \A k \in Steps, attempt \in Nat :
          ExecutingOK(mem[q], k, attempt) => ExecutingOK(mem'[q], k, attempt)
    BY <1>2 DEF KeepsThreads
  <1>7. disk' \in [Runs -> AgentRunRecord] /\ taskReady' \in BOOLEAN
    BY <1>1, <1>3 DEF IInv, TypeOK
  <1> QED
    BY <1>1, <1>2, <1>3, <1>4, <1>5, <1>6, <1>7, QuietStep

\* External: the review of the task.
LEMMA task_step ==
  ASSUME IInv, TaskStatusChanges
  PROVE  IInv' /\ Effect
  <1>1. mem' = mem /\ disk' = disk /\ thread' = thread /\ taskReady' \in BOOLEAN
    BY DEF TaskStatusChanges
  <1> QED
    BY <1>1, QuietSame, QuietStep DEF IInv, TypeOK

\* The store is saved in the state it is in.
LEMMA persist_step ==
  ASSUME IInv, StorePersists
  PROVE  IInv' /\ Effect
  <1>1. mem' = mem /\ disk' = mem /\ thread' = thread /\ taskReady' = taskReady
    BY DEF StorePersists
  <1> QED
    BY <1>1, QuietSame, SyncedSame, QuietStep DEF IInv, TypeOK

\* The clock passes the lease of run r.
LEMMA expire_step ==
  ASSUME IInv, NEW r \in Runs, LeaseExpires(r)
  PROVE  IInv' /\ Effect
  <1> DEFINE m == mem[r]
             d == disk[r]
             mm == WithLease(m, "expired")
             dd == WithLease(d, "expired")
  <1>1. /\ m \in AgentRunRecord /\ RunOK(m) /\ d \in AgentRunRecord /\ RunOK(d)
        /\ Synced(m, d) /\ mem \in [Runs -> AgentRunRecord]
        /\ disk \in [Runs -> AgentRunRecord] /\ taskReady \in BOOLEAN
    BY DEF IInv, TypeOK
  <1>2. m.lease = "live" /\ d.lease = "live"
    BY <1>1 DEF LeaseExpires, Synced
  <1>3. /\ mem' = [mem EXCEPT ![r] = mm] /\ disk' = [disk EXCEPT ![r] = dd]
        /\ thread' = thread /\ taskReady' = taskReady
        /\ \A t \in Threads : ~(thread[t].phase = "acquired" /\ thread[t].run = r)
    BY <1>2 DEF LeaseExpires
  <1>4. Live(m) /\ Live(d)
    BY <1>1, <1>2 DEF Live, RunOK, WholeRun, AbsentRun
  <1>5. "expired" \in LeaseState
    BY DEF LeaseState
  <1>6. /\ mm \in AgentRunRecord /\ RunOK(mm) /\ mm.lease = "expired"
        /\ mm.status = m.status /\ mm.current_step = m.current_step
        /\ mm.resumes = m.resumes /\ mm.steps = m.steps
    BY <1>1, <1>4, <1>5, LeaseOK
  <1>7. /\ dd \in AgentRunRecord /\ RunOK(dd) /\ dd.lease = "expired"
        /\ dd.status = d.status /\ dd.current_step = d.current_step
        /\ dd.resumes = d.resumes /\ dd.steps = d.steps
    BY <1>1, <1>4, <1>5, LeaseOK
  <1> HIDE DEF mm, dd
  <1>8. Synced(mm, dd)
    BY <1>1, <1>6, <1>7 DEF Synced
  <1>9. Quiet(m, mm)
    BY <1>6 DEF Quiet, Harmless, Existing
  <1>10. ASSUME NEW k \in Steps, NEW attempt \in Nat, ExecutingOK(m, k, attempt)
         PROVE  ExecutingOK(mm, k, attempt)
    BY <1>2, <1>6, <1>10 DEF ExecutingOK
  <1>11. /\ mem'[r] = mm /\ \A q \in Runs : q # r => mem'[q] = mem[q]
         /\ disk'[r] = dd /\ \A q \in Runs : q # r => disk'[q] = disk[q]
         /\ mem' \in [Runs -> AgentRunRecord] /\ disk' \in [Runs -> AgentRunRecord]
    BY <1>1, <1>3, <1>6, <1>7
  <1>12. \A q \in Runs : RunOK(mem'[q]) /\ RunOK(disk'[q]) /\ Synced(mem'[q], disk'[q])
    BY <1>6, <1>7, <1>8, <1>11 DEF IInv
  <1>13. \A q \in Runs : Quiet(mem[q], mem'[q])
    BY <1>9, <1>11, QuietSame
  <1>14. \A q \in Runs : \A k \in Steps, attempt \in Nat :
           ExecutingOK(mem[q], k, attempt) => ExecutingOK(mem'[q], k, attempt)
    BY <1>10, <1>11
  <1>15. \A t \in Threads : thread[t].phase = "acquired" =>
           (AcquiredOK(mem[thread[t].run]) => AcquiredOK(mem'[thread[t].run]))
    BY <1>3, <1>11, ThreadFields DEF IInv
  <1> QED
    BY <1>1, <1>3, <1>11, <1>12, <1>13, <1>14, <1>15, QuietStep

\* The clock passes the backoff of step k of run r.
LEMMA elapse_step ==
  ASSUME IInv, NEW r \in Runs, NEW k \in Steps, BackoffElapses(r, k)
  PROVE  IInv' /\ Effect
  <1> DEFINE elapse(m) == IF m.steps[k].status = "RETRY_WAIT" THEN RetryDue(m, k) ELSE m
             mm == elapse(mem[r])
             dd == elapse(disk[r])
  <1>1. /\ mem' = [mem EXCEPT ![r] = mm] /\ disk' = [disk EXCEPT ![r] = dd]
        /\ thread' = thread /\ taskReady' = taskReady
    BY DEF BackoffElapses
  <1>2. ASSUME NEW m \in AgentRunRecord, RunOK(m)
        PROVE  /\ elapse(m) \in AgentRunRecord /\ RunOK(elapse(m)) /\ Harmless(m, elapse(m))
               /\ KeepsThreads(m, elapse(m)) /\ Synced(elapse(m), m)
    <2>1. CASE m.steps[k].status = "RETRY_WAIT"
      BY <1>2, <2>1, ElapseOK
    <2>2. CASE m.steps[k].status # "RETRY_WAIT"
      BY <1>2, <2>2, QuietSame, SyncedSame DEF Quiet
    <2> QED
      BY <2>1, <2>2
  <1>3. /\ mem \in [Runs -> AgentRunRecord] /\ disk \in [Runs -> AgentRunRecord]
        /\ taskReady \in BOOLEAN
        /\ RunOK(mem[r]) /\ RunOK(disk[r]) /\ Synced(mem[r], disk[r])
    BY DEF IInv, TypeOK
  <1>4. /\ mm \in AgentRunRecord /\ RunOK(mm) /\ Harmless(mem[r], mm)
        /\ KeepsThreads(mem[r], mm) /\ Synced(mm, mem[r])
    BY <1>2, <1>3
  <1>5. dd \in AgentRunRecord /\ RunOK(dd) /\ Synced(dd, disk[r])
    BY <1>2, <1>3
  <1> HIDE DEF mm, dd
  <1>6. Synced(mm, dd)
    BY <1>3, <1>4, <1>5 DEF Synced
  <1>7. Quiet(mem[r], mm)
    BY <1>4 DEF Quiet, Existing, Synced
  <1>8. /\ mem'[r] = mm /\ \A q \in Runs : q # r => mem'[q] = mem[q]
        /\ disk'[r] = dd /\ \A q \in Runs : q # r => disk'[q] = disk[q]
        /\ mem' \in [Runs -> AgentRunRecord] /\ disk' \in [Runs -> AgentRunRecord]
    BY <1>1, <1>3, <1>4, <1>5
  <1>9. \A q \in Runs : RunOK(mem'[q]) /\ RunOK(disk'[q]) /\ Synced(mem'[q], disk'[q])
    BY <1>4, <1>5, <1>6, <1>8 DEF IInv
  <1>10. \A q \in Runs : Quiet(mem[q], mem'[q]) /\ KeepsThreads(mem[q], mem'[q])
    BY <1>4, <1>7, <1>8, QuietSame
  <1>11. \A q \in Runs : \A j \in Steps, attempt \in Nat :
           ExecutingOK(mem[q], j, attempt) => ExecutingOK(mem'[q], j, attempt)
    BY <1>10 DEF KeepsThreads
  <1>12. \A t \in Threads : thread[t].phase = "acquired" =>
           (AcquiredOK(mem[thread[t].run]) => AcquiredOK(mem'[thread[t].run]))
    BY <1>10, ThreadFields DEF IInv, KeepsThreads
  <1> QED
    BY <1>1, <1>3, <1>8, <1>9, <1>10, <1>11, <1>12, QuietStep

\* A crash takes every run back to what is on disk.
LEMMA crash_step ==
  ASSUME IInv, Crash
  PROVE  IInv' /\ Effect
  <1>1. /\ mem' = disk /\ disk' = disk /\ taskReady' = taskReady
        /\ thread' = [t \in Threads |-> IdleThread]
    BY DEF Crash
  <1>2. \A t \in Threads : thread'[t].phase = "idle"
    BY <1>1 DEF IdleThread
  <1>3. TypeOK'
    BY <1>1 DEF IInv, TypeOK, ThreadRecord, IdleThread
  <1>4. ThreadsOK'
    BY <1>2 DEF ThreadsOK
  <1>5. ASSUME NEW q \in Runs PROVE Quiet(mem[q], disk[q])
    <2>1. Synced(mem[q], disk[q])
      BY DEF IInv
    <2> QED
      BY <2>1 DEF Synced, Quiet, Harmless, Existing
  <1>6. OneLiveRun'
    BY <1>1, <1>5 DEF IInv, OneLiveRun, Quiet, Harmless
  <1>7. \A q \in Runs : RunOK(mem'[q]) /\ RunOK(disk'[q]) /\ Synced(mem'[q], disk'[q])
    BY <1>1, SyncedSame DEF IInv
  <1>8. Effect
    BY <1>1, <1>5 DEF Effect
  <1> QED
    BY <1>3, <1>4, <1>6, <1>7, <1>8 DEF IInv

\* A step that changes nothing.
LEMMA stutter_step ==
  ASSUME IInv, UNCHANGED vars
  PROVE  IInv' /\ Effect
  <1>1. mem' = mem /\ disk' = disk /\ thread' = thread /\ taskReady' = taskReady
    BY DEF vars
  <1> QED
    BY <1>1, QuietSame, QuietStep DEF IInv, TypeOK

\* Every step keeps the invariant and has one of the effects above.
LEMMA NextStep ==
  ASSUME IInv, [Next]_vars
  PROVE  IInv' /\ Effect
  <1>1. ASSUME NEW t \in Threads, ThreadNext(t) PROVE IInv' /\ Effect
    BY <1>1, acquire_step, start_step_step, return_step DEF ThreadNext, FinishRequest
  <1>2. ASSUME NEW r \in Runs, OperatorNext(r) PROVE IInv' /\ Effect
    BY <1>2, operator_step
  <1>3. ASSUME NEW r \in Runs, LeaseExpires(r) PROVE IInv' /\ Effect
    BY <1>3, expire_step
  <1>4. ASSUME NEW r \in Runs, NEW k \in Steps, BackoffElapses(r, k) PROVE IInv' /\ Effect
    BY <1>4, elapse_step
  <1> QED
    BY <1>1, <1>2, <1>3, <1>4, recover_step, task_step, persist_step,
       crash_step, stutter_step DEF Next

\* The store starts empty.
LEMMA InitStep == Init => IInv
  <1> SUFFICES ASSUME Init PROVE IInv
    OBVIOUS
  <1>1. /\ mem = [r \in Runs |-> AbsentRun] /\ disk = mem
        /\ thread = [t \in Threads |-> IdleThread] /\ taskReady = FALSE
    BY DEF Init
  <1>2. AbsentRun \in AgentRunRecord /\ RunOK(AbsentRun)
    BY FreshRunOK
  <1>3. TypeOK
    BY <1>1, <1>2 DEF TypeOK, ThreadRecord, IdleThread
  <1>4. ThreadsOK
    BY <1>1 DEF ThreadsOK, IdleThread
  <1>5. OneLiveRun
    BY <1>1 DEF OneLiveRun, Existing, AbsentRun
  <1>6. \A r \in Runs : RunOK(mem[r]) /\ RunOK(disk[r]) /\ Synced(mem[r], disk[r])
    BY <1>1, <1>2, SyncedSame
  <1> QED
    BY <1>3, <1>4, <1>5, <1>6 DEF IInv

----------------------------------------------------------------------------
(* The theorems.                                                           *)

\* The invariant holds of every behaviour, for every number of runs, threads,
\* steps, attempts and resumes.
THEOREM Invariance == Spec => []IInv
  <1>1. IInv /\ [Next]_vars => IInv'
    BY NextStep
  <1> QED
    BY <1>1, InitStep, PTL DEF Spec

\* Every variable keeps its type.
THEOREM TypeCorrect == Spec => []TypeOK
  <1>1. IInv => TypeOK
    BY DEF IInv
  <1> QED
    BY <1>1, Invariance, PTL

\* A step that has left PENDING has only SUCCEEDED steps before it.
THEOREM StepsInOrder == Spec => []StepOrder
  <1>1. ASSUME IInv PROVE StepOrder
    <2> SUFFICES ASSUME NEW r \in Runs, NEW k \in Steps,
                        mem[r].steps[k].status \notin {"PENDING", "CANCELLED"},
                        NEW j \in 0 .. (k - 1)
                 PROVE  mem[r].steps[j].status = "SUCCEEDED"
      BY DEF StepOrder, OrderedSteps
    <2>1. PlacedSteps(mem[r]) /\ mem[r].current_step \in Steps
      BY <1>1 DEF IInv, TypeOK, RunOK, AgentRunRecord
    <2>2. ~(k > mem[r].current_step)
      BY <2>1 DEF PlacedSteps
    <2>3. j \in Steps /\ j < mem[r].current_step
      BY <2>1, <2>2 DEF Steps
    <2> QED
      BY <2>1, <2>3 DEF PlacedSteps
  <1> QED
    BY <1>1, Invariance, PTL

\* SUCCEEDED is reported exactly when every step has passed.
THEOREM SuccessIsComplete == Spec => []SucceededRunComplete
  <1>1. ASSUME IInv PROVE SucceededRunComplete
    <2> SUFFICES ASSUME NEW r \in Runs
                 PROVE  mem[r].status = "SUCCEEDED"
                          <=> \A k \in Steps : mem[r].steps[k].status = "SUCCEEDED"
      BY DEF SucceededRunComplete
    <2>1. /\ PlacedSteps(mem[r]) /\ CurrentStep(mem[r]) /\ WholeRun(mem[r])
          /\ mem[r].current_step \in Steps
      BY <1>1 DEF IInv, TypeOK, RunOK, AgentRunRecord
    <2>2. ASSUME mem[r].status = "SUCCEEDED", NEW k \in Steps
          PROVE  mem[r].steps[k].status = "SUCCEEDED"
      <3>1. k = mem[r].current_step \/ k < mem[r].current_step
        BY <2>1, <2>2 DEF WholeRun, Steps
      <3> QED
        BY <2>1, <2>2, <3>1 DEF PlacedSteps, CurrentStep
    <2>3. ASSUME \A k \in Steps : mem[r].steps[k].status = "SUCCEEDED"
          PROVE  mem[r].status = "SUCCEEDED"
      BY <2>1, <2>3 DEF CurrentStep
    <2> QED
      BY <2>2, <2>3
  <1> QED
    BY <1>1, Invariance, PTL

\* A RUNNING step is the current step of a RUNNING run that holds a lease, so
\* the watchdog can always take it back.
THEOREM RunningStepLeased == Spec => []RunningStepIsLeased
  <1>1. ASSUME IInv PROVE RunningStepIsLeased
    <2> SUFFICES ASSUME NEW r \in Runs, NEW k \in Steps, mem[r].steps[k].status = "RUNNING"
                 PROVE  k = mem[r].current_step /\ mem[r].status = "RUNNING"
                        /\ mem[r].lease # "none"
      BY DEF RunningStepIsLeased, RecoverableSteps
    <2>1. /\ PlacedSteps(mem[r]) /\ CurrentStep(mem[r]) /\ mem[r].current_step \in Steps
      BY <1>1 DEF IInv, TypeOK, RunOK, AgentRunRecord
    <2>2. k = mem[r].current_step
      BY <2>1 DEF PlacedSteps, Steps
    <2> QED
      BY <2>1, <2>2 DEF CurrentStep
  <1> QED
    BY <1>1, Invariance, PTL

\* Attempts stay within the budget plus one per resume.
THEOREM AttemptsWithinBudget == Spec => []AttemptsBounded
  <1>1. ASSUME IInv PROVE AttemptsBounded
    BY <1>1 DEF IInv, RunOK, BudgetedSteps, AttemptsBounded
  <1> QED
    BY <1>1, Invariance, PTL

\* At most one run of the task is live or succeeded.
THEOREM LiveRunUnique == Spec => []OneLiveRun
  <1>1. IInv => OneLiveRun
    BY DEF IInv
  <1> QED
    BY <1>1, Invariance, PTL

\* What creation leaves in a run.
LEMMA CreatedRun ==
  ASSUME IInv, NEW r \in Runs, Created(r), NEW j \in Steps
  PROVE  /\ mem'[r].status = "SCHEDULED"
         /\ mem'[r].steps[j].status \in {"READY", "PENDING"}
         /\ mem'[r].steps[j].attempt_count = 0
         /\ mem[r].steps[j].status = "PENDING"
         /\ mem[r].steps[j].attempt_count = 0
  <1>1. mem[r] = AbsentRun /\ mem'[r] = NewRun
    BY DEF Created, IInv, RunOK, WholeRun
  <1>2. /\ AbsentRun.steps = [k \in Steps |-> NewStep("PENDING")]
        /\ NewRun.status = "SCHEDULED"
        /\ NewRun.steps = [AbsentRun.steps EXCEPT ![0] = NewStep("READY")]
    BY DEF AbsentRun, NewRun
  <1> QED
    BY <1>1, <1>2 DEF NewStep

\* The effect of a step on one run.
LEMMA RunEffect ==
  ASSUME Effect, NEW r \in Runs
  PROVE  Harmless(mem[r], mem'[r]) \/ Created(r) \/ Started(r) \/ Passed(r)
  <1>1. Harmless(mem[r], mem[r])
    BY QuietSame DEF Quiet
  <1> QED
    BY <1>1 DEF Effect, Quiet

\* A late result, a recovery, a retry or a crash never makes a step pass: only
\* the thread that executes the latest attempt of a RUNNING step does.
THEOREM NoLateSuccess == Spec => NoFalseSuccess
  <1>1. ASSUME IInv, [Next]_vars PROVE PassedOnlyByExecutor
    <2> SUFFICES ASSUME NEW r \in Runs, NEW k \in Steps,
                        mem[r].steps[k].status # "SUCCEEDED",
                        mem'[r].steps[k].status = "SUCCEEDED"
                 PROVE  /\ mem[r].steps[k].status = "RUNNING"
                        /\ \E t \in Threads :
                              /\ thread[t].phase = "executing"
                              /\ thread[t].run = r /\ thread[t].step = k
                              /\ thread[t].attempt = mem[r].steps[k].attempt_count
      BY DEF PassedOnlyByExecutor
    <2>1. Harmless(mem[r], mem'[r]) \/ Created(r) \/ Started(r) \/ Passed(r)
      BY <1>1, NextStep, RunEffect
    <2>2. ~Harmless(mem[r], mem'[r]) /\ ~Started(r)
      BY DEF Harmless, Started
    <2>3. ~Created(r)
      BY <1>1, CreatedRun
    <2>4. PICK t \in Threads, i \in Steps :
            /\ thread[t].phase = "executing" /\ thread[t].run = r /\ thread[t].step = i
            /\ thread[t].attempt = mem[r].steps[i].attempt_count
            /\ mem[r].steps[i].status = "RUNNING"
            /\ \A j \in Steps :
                  /\ mem[r].steps[j].status = "SUCCEEDED" <=> j < i
                  /\ mem'[r].steps[j].status = "SUCCEEDED" <=> j <= i
      BY <2>1, <2>2, <2>3 DEF Passed
    <2>5. i = k
      BY <2>4, StepsNonEmpty
    <2> QED
      BY <2>4, <2>5
  <1> QED
    BY <1>1, Invariance, PTL DEF Spec, NoFalseSuccess

\* A terminal run keeps its status through every operation and every crash.
THEOREM TerminalRunsFinal == Spec => TerminalFinal
  <1>1. ASSUME IInv, [Next]_vars PROVE TerminalKept
    <2> SUFFICES ASSUME NEW r \in Runs, mem[r].status \in TERMINAL_RUN_STATUSES
                 PROVE  mem'[r].status = mem[r].status
      BY DEF TerminalKept
    <2>1. Harmless(mem[r], mem'[r]) \/ Created(r) \/ Started(r) \/ Passed(r)
      BY <1>1, NextStep, RunEffect
    <2> QED
      BY <2>1 DEF Harmless, Created, Started, Passed, Live, TERMINAL_RUN_STATUSES
  <1> QED
    BY <1>1, Invariance, PTL DEF Spec, TerminalFinal

\* No attempt is ever handed back, in particular not by a crash.
THEOREM AttemptsDurable == Spec => AttemptsNeverLost
  <1>1. ASSUME IInv, [Next]_vars PROVE AttemptsKept
    <2> SUFFICES ASSUME NEW r \in Runs, NEW k \in Steps
                 PROVE  mem'[r].steps[k].attempt_count >= mem[r].steps[k].attempt_count
      BY DEF AttemptsKept
    <2>1. Harmless(mem[r], mem'[r]) \/ Created(r) \/ Started(r) \/ Passed(r)
      BY <1>1, NextStep, RunEffect
    <2>2. mem[r].steps[k].attempt_count \in Nat
      BY <1>1 DEF IInv, TypeOK, AgentRunRecord, AgentRunStep
    <2>3. CASE Created(r)
      BY <1>1, <2>3, CreatedRun
    <2>4. CASE Harmless(mem[r], mem'[r])
      BY <2>2, <2>4 DEF Harmless
    <2>5. CASE Started(r)
      BY <2>5 DEF Started
    <2>6. CASE Passed(r)
      BY <2>2, <2>6 DEF Passed
    <2> QED
      BY <2>1, <2>3, <2>4, <2>5, <2>6
  <1> QED
    BY <1>1, Invariance, PTL DEF Spec, AttemptsNeverLost

\* No step starts in a paused, pausing or ended run.
THEOREM ControlsHonoured == Spec => ControlHonoured
  <1>1. ASSUME IInv, [Next]_vars PROVE StartsAllowed
    <2> SUFFICES ASSUME NEW r \in Runs, NEW k \in Steps,
                        mem[r].steps[k].status # "RUNNING",
                        mem'[r].steps[k].status = "RUNNING"
                 PROVE  Live(mem[r]) /\ mem[r].status # "PAUSED" /\ ~mem[r].pause_requested
      BY DEF StartsAllowed
    <2>1. Harmless(mem[r], mem'[r]) \/ Created(r) \/ Started(r) \/ Passed(r)
      BY <1>1, NextStep, RunEffect
    <2>2. ~Created(r)
      BY <1>1, CreatedRun
    <2> QED
      BY <2>1, <2>2 DEF Harmless, Started, Passed
  <1> QED
    BY <1>1, Invariance, PTL DEF Spec, ControlHonoured
=============================================================================
