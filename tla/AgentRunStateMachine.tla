------------------------ MODULE AgentRunStateMachine ------------------------
(***************************************************************************)
(* The status enums and the two transition tables of Mission Control       *)
(* (backend/app/agent_run_state_machine.py).  Every handler of the run     *)
(* supervisor changes a status through these tables, with the exceptions   *)
(* that module AgentRun names.                                             *)
(***************************************************************************)
EXTENDS Naturals, FiniteSets

AgentRunStatus ==
    {"SCHEDULED", "RUNNING", "EVALUATING", "RETRY_WAIT", "PAUSED",
     "NEEDS_HUMAN", "BLOCKED", "SUCCEEDED", "FAILED", "CANCELLED"}

AgentRunStepStatus ==
    {"PENDING", "READY", "RUNNING", "RETRY_WAIT", "PAUSED", "NEEDS_HUMAN",
     "BLOCKED", "SUCCEEDED", "FAILED", "CANCELLED", "SKIPPED"}

VerificationDecision ==
    {"PASS", "RETRY_TRANSIENT", "NEEDS_REVISION", "NEEDS_HUMAN",
     "BLOCK_POLICY", "FAIL_PERMANENT"}

TERMINAL_RUN_STATUSES == {"BLOCKED", "SUCCEEDED", "FAILED", "CANCELLED"}

TERMINAL_STEP_STATUSES ==
    {"BLOCKED", "SUCCEEDED", "FAILED", "CANCELLED", "SKIPPED"}

RUN_TRANSITIONS ==
    [SCHEDULED   |-> {"RUNNING", "PAUSED", "NEEDS_HUMAN", "CANCELLED",
                      "BLOCKED", "FAILED"},
     RUNNING     |-> {"SCHEDULED", "EVALUATING", "RETRY_WAIT", "PAUSED",
                      "NEEDS_HUMAN", "BLOCKED", "SUCCEEDED", "FAILED",
                      "CANCELLED"},
     EVALUATING  |-> {"RUNNING", "RETRY_WAIT", "NEEDS_HUMAN", "BLOCKED",
                      "SUCCEEDED", "FAILED", "CANCELLED"},
     RETRY_WAIT  |-> {"SCHEDULED", "RUNNING", "PAUSED", "NEEDS_HUMAN",
                      "BLOCKED", "FAILED", "CANCELLED"},
     PAUSED      |-> {"SCHEDULED", "RUNNING", "CANCELLED"},
     NEEDS_HUMAN |-> {"SCHEDULED", "RUNNING", "BLOCKED", "FAILED",
                      "CANCELLED"},
     BLOCKED     |-> {},
     SUCCEEDED   |-> {},
     FAILED      |-> {},
     CANCELLED   |-> {}]

STEP_TRANSITIONS ==
    [PENDING     |-> {"READY", "PAUSED", "NEEDS_HUMAN", "BLOCKED",
                      "CANCELLED", "SKIPPED"},
     READY       |-> {"RUNNING", "PAUSED", "NEEDS_HUMAN", "BLOCKED",
                      "CANCELLED", "SKIPPED"},
     RUNNING     |-> {"SUCCEEDED", "RETRY_WAIT", "NEEDS_HUMAN", "BLOCKED",
                      "FAILED", "CANCELLED"},
     RETRY_WAIT  |-> {"READY", "NEEDS_HUMAN", "BLOCKED", "FAILED",
                      "CANCELLED"},
     PAUSED      |-> {"READY", "CANCELLED"},
     NEEDS_HUMAN |-> {"READY", "BLOCKED", "FAILED", "CANCELLED"},
     BLOCKED     |-> {},
     SUCCEEDED   |-> {},
     FAILED      |-> {},
     CANCELLED   |-> {},
     SKIPPED     |-> {}]

can_transition_run(current, target) ==
    target = current \/ target \in RUN_TRANSITIONS[current]

\* Mutant: only terminal statuses are protected.
CanTransitionAnyOpenStep(current, target) ==
    target = current \/ current \notin TERMINAL_STEP_STATUSES

can_transition_step(current, target) ==
    target = current \/ target \in STEP_TRANSITIONS[current]
=============================================================================
