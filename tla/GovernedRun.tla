---------------------------- MODULE GovernedRun ----------------------------
(***************************************************************************)
(* Trust enforcement around the execution of a run: execute_run_next_step  *)
(* of backend/app/agent_run_routes.py takes the run's execution lock,      *)
(* gives the run a capability lease (trust_run_capability.py), has every   *)
(* action of the next step allowed by policy and, under a STRICT lease, by *)
(* a human (agent_run_trust.py, trust_action_authorization.py), executes   *)
(* the step and charges its actions to the lease.                          *)
(*                                                                         *)
(* The module composes the supervisor's handlers of AgentRun with          *)
(* ExecutionLock, for one run.  Every request comes from one worker_id, so *)
(* that overlapping requests share the run's lease token.  The code of a   *)
(* request between two calls of store.persist is one step.                 *)
(***************************************************************************)
EXTENDS AgentRun

CONSTANTS
    Run,           \* the run
    Locks,         \* Lock objects that can exist at the same time
    NoLock,
    ActionCount,   \* actions of each step; 0 outside SIDE_EFFECT_STEPS
    Timeouts,      \* timeout_seconds of requests
    MaxRuntime,    \* scope.max_runtime_seconds
    MaxRetries,    \* scope.max_retries
    AttemptBound,  \* bound: attempts whose actions are told apart
    Durations      \* seconds a step can take from its first start to its end

ASSUME GovernedAssumption ==
    /\ Runs = {Run} /\ NoLock \notin Locks
    /\ ActionCount \in [Steps -> Nat]
    /\ Timeouts \subseteq Nat \ {0}
    /\ MaxRuntime \in Nat /\ MaxRetries \in Nat /\ AttemptBound \in Nat
    /\ Durations \subseteq Nat

VARIABLES
    registry, locked, phase, ref,   \* of ExecutionLock
    request,   \* where each request is, with the step and actions it captured
    holders,   \* the requests that know the current lease_token of the run
    lease,     \* the capability lease of the run
    actions,   \* the latest policy decision of each proposed action
    consumed,  \* store.action_consumptions
    ran,       \* how long each step took, and what its preflight had reserved (history)
    raced,     \* two requests were active at the same time (history)
    crashed    \* the process died (history)

Lock == INSTANCE ExecutionLock

lockVars  == <<registry, locked, phase, ref>>
runVars   == <<mem, disk, thread, taskReady>>
trustVars == <<lease, actions, consumed>>
governedVars == <<runVars, lockVars, request, holders, trustVars, ran, raced, crashed>>

m == mem[Run]

\* _action_id: step, attempt and place in the step's list of actions.
ActionId ==
    UNION {{<<k, n, i>> : n \in 1 .. AttemptBound, i \in 1 .. ActionCount[k]} : k \in Steps}

NoAction == [decision |-> "none", timeout |-> 0]
NoCapability == [status |-> "none", strict |-> FALSE, runtime |-> 0, retries |-> 0]
NewCapability(strict) == [NoCapability EXCEPT !.status = "ACTIVE", !.strict = strict]
NoRequest == [at |-> "idle", step |-> 0, attempt |-> 0, timeout |-> 0, next |-> 0]

\* POST /agent/runs has created the run.
GovernedInit ==
    /\ mem = [r \in Runs |-> NewRun] /\ disk = mem
    /\ thread = [t \in Threads |-> IdleThread]
    /\ taskReady = TRUE
    /\ Lock!Init
    /\ request = [t \in Threads |-> NoRequest]
    /\ holders = {}
    /\ lease = NoCapability
    /\ actions = [a \in ActionId |-> NoAction]
    /\ consumed = {}
    /\ ran = [k \in Steps |-> [seconds |-> 0, reserved |-> 0]]
    /\ raced = FALSE /\ crashed = FALSE

\* The lease token is forgotten wherever the run's lease is dropped.
TokenFollowsLease == holders' = IF mem'[Run].lease = "none" THEN {} ELSE holders

Goto(t, at) == request' = [request EXCEPT ![t].at = at]
At(t, at) == phase[t] = "active" /\ request[t].at = at
Frame == UNCHANGED <<lockVars, taskReady, ran, raced, crashed>>

----------------------------------------------------------------------------
(* The lock around a request.                                              *)

enter_request(t) ==
    /\ \/ Lock!setdefault(t) /\ UNCHANGED <<request, raced>>
       \/ /\ Lock!acquire(t)
          /\ raced' = (raced \/ \E u \in Threads : phase[u] = "active")
          /\ request' = [request EXCEPT ![t] = [NoRequest EXCEPT !.at = "start"]]
       \/ Lock!refuse(t) /\ UNCHANGED <<request, raced>>
    /\ UNCHANGED <<runVars, holders, trustVars, ran, crashed>>

leave_request(t) ==
    /\ \/ request[t].at = "done" /\ Lock!release(t)
       \/ Lock!pop(t)
    /\ request' = [request EXCEPT ![t] = NoRequest]
    /\ UNCHANGED <<runVars, holders, trustVars, ran, raced, crashed>>

----------------------------------------------------------------------------
(* The capability lease.                                                   *)

\* attach_capability_lease: before the first side effect, between two steps.
Attachable ==
    /\ lease.status = "none"
    /\ m.status \notin TERMINAL_RUN_STATUSES \cup {"EVALUATING"}
    /\ StepBoundary(m)
    /\ \A k \in Steps : ActionCount[k] > 0 => m.steps[k].attempt_count = 0
    /\ MaxAttempts <= MaxRetries + 1

\* POST capability-lease, with a lease the operator had issued.
attach_capability_lease(strict) ==
    /\ Attachable
    /\ lease' = NewCapability(strict)
    /\ UNCHANGED <<mem, thread, request, holders, actions, consumed>>
    /\ Persist
    /\ Frame

\* The lease is revoked or expires.
end_capability_lease ==
    /\ lease.status = "ACTIVE"
    /\ lease' = [lease EXCEPT !.status = "ENDED"]
    /\ UNCHANGED <<runVars, request, holders, actions, consumed>>
    /\ Frame

\* ensure_run_capability of a request whose run has no lease yet.
ensure_run_capability(t) ==
    /\ At(t, "start") /\ lease.status = "none" /\ StepBoundary(m)
    /\ IF Attachable
       THEN /\ lease' = NewCapability(TRUE)
            /\ request' = [request EXCEPT ![t].at = "attached", ![t].step = m.current_step]
            /\ UNCHANGED mem /\ Persist
       ELSE Goto(t, "done") /\ UNCHANGED <<lease, mem, disk>>
    /\ UNCHANGED <<thread, holders, actions, consumed>>
    /\ Frame

----------------------------------------------------------------------------
(* authorize_run_step.                                                     *)

\* _mark_blocked and _mark_needs_human: the step first, then the run.  An
\* illegal transition raises; saved is what had been persisted before.
Mark(k, target, saved) ==
    LET step == IF m.steps[k].status = target THEN m ELSE transition_step(m, k, target)
    IN  IF m.steps[k].status # target /\ ~can_transition_step(m.steps[k].status, target)
        THEN UNCHANGED mem /\ disk' = saved
        ELSE IF m.status = target THEN Commit(Run, step)
        ELSE IF can_transition_run(m.status, target)
        THEN Commit(Run, transition_run(step, target))
        ELSE mem' = [mem EXCEPT ![Run] = step] /\ disk' = saved

\* _require_step_boundary refuses the request.
refuse_request(t) ==
    /\ At(t, "start") /\ ~StepBoundary(m)
    /\ Goto(t, "done")
    /\ UNCHANGED <<runVars, holders, trustVars>>
    /\ Frame

\* _validate_lease_for_run and _preflight_aggregate_budget for the current
\* step, whose actions are fixed here.
validate_lease_for_run(t, timeout) ==
    LET k == IF request[t].at = "start" THEN m.current_step ELSE request[t].step
        runtime == lease.runtime + ActionCount[k] * timeout
    IN  /\ At(t, "attached") \/ (At(t, "start") /\ StepBoundary(m))
        /\ lease.status # "none"
        /\ m.steps[k].attempt_count < AttemptBound
        /\ IF ActionCount[k] > 0 /\ (lease.status # "ACTIVE" \/ runtime > MaxRuntime)
           THEN Mark(k, "BLOCKED", disk) /\ Goto(t, "done")
           ELSE /\ request' = [request EXCEPT ![t] =
                     [at |-> IF ActionCount[k] = 0 THEN "execute" ELSE "authorize",
                      step |-> k, attempt |-> m.steps[k].attempt_count + 1,
                      timeout |-> timeout, next |-> 1]]
                /\ UNCHANGED <<mem, disk>>
        /\ TokenFollowsLease
        /\ UNCHANGED <<thread, trustVars>>
        /\ Frame

\* evaluate_gateway_action: the policy's first word on an action.
FirstDecision(q) ==
    IF \/ lease.status # "ACTIVE"
       \/ lease.runtime + q.timeout > MaxRuntime
       \/ q.attempt - 1 > MaxRetries
    THEN "BLOCK"
    ELSE IF lease.strict THEN "REQUIRE_APPROVAL" ELSE "ALLOW"

Current(q) == <<q.step, q.attempt, q.next>>

\* Mutant: a pending decision only stops the first action of a step.
AuthorizeFirst(t) ==
    LET q == request[t]
        known == actions[Current(q)]
        decision == IF known.decision = "none" THEN FirstDecision(q) ELSE known.decision
    IN  /\ At(t, "authorize") /\ q.next <= ActionCount[q.step]
        /\ actions' = [actions EXCEPT ![Current(q)] =
                          [decision |-> decision, timeout |-> q.timeout]]
        /\ IF decision = "ALLOW" \/ q.next > 1
           THEN request' = [request EXCEPT ![t].next = @ + 1] /\ UNCHANGED <<mem, disk>>
           ELSE Mark(q.step, "NEEDS_HUMAN", mem) /\ Goto(t, "done")
        /\ TokenFollowsLease
        /\ UNCHANGED <<thread, lease, consumed>>
        /\ Frame

\* One round of the loop over the step's actions.  A known action must have
\* the same payload, which holds the timeout of the request that proposed it.
authorize_action(t) ==
    LET q == request[t]
        known == actions[Current(q)]
        new == known.decision = "none"
        changed == ~new /\ known.timeout # q.timeout
        decision == IF new THEN FirstDecision(q) ELSE known.decision
        saved == IF new THEN mem ELSE disk
    IN  /\ At(t, "authorize") /\ q.next <= ActionCount[q.step]
        /\ actions' = IF new THEN [actions EXCEPT ![Current(q)] =
                                     [decision |-> decision, timeout |-> q.timeout]]
                      ELSE actions
        /\ IF changed \/ decision = "BLOCK"
           THEN Mark(q.step, "BLOCKED", saved) /\ Goto(t, "done")
           ELSE IF decision = "REQUIRE_APPROVAL"
           THEN Mark(q.step, "NEEDS_HUMAN", saved) /\ Goto(t, "done")
           ELSE /\ request' = [request EXCEPT ![t].next = @ + 1]
                /\ disk' = saved /\ UNCHANGED mem
        /\ TokenFollowsLease
        /\ UNCHANGED <<thread, lease, consumed>>
        /\ Frame

\* A step and a run that wait for a human go on, each on its own account.
Reopened(k) ==
    LET step == IF m.steps[k].status = "NEEDS_HUMAN"
                THEN transition_step(m, k, "READY") ELSE m
    IN  IF m.status = "NEEDS_HUMAN" THEN transition_run(step, "SCHEDULED") ELSE step

\* Every action is allowed: the end of authorize_run_step.
authorized(t) ==
    /\ At(t, "authorize") /\ request[t].next > ActionCount[request[t].step]
    /\ Commit(Run, Reopened(request[t].step))
    /\ Goto(t, "execute")
    /\ UNCHANGED <<thread, holders, trustVars>>
    /\ Frame

\* _apply_durable_run_decision of a denial.
Denied(k) ==
    LET step == IF m.steps[k].status = "NEEDS_HUMAN"
                THEN transition_step(m, k, "BLOCKED") ELSE m
    IN  IF m.status = "NEEDS_HUMAN" THEN transition_run(step, "BLOCKED") ELSE step

\* A reviewer decides an action that waits, or repeats an earlier ALLOW.
record_action_authorization(a, allow) ==
    /\ \/ actions[a].decision = "REQUIRE_APPROVAL"
       \/ actions[a].decision = "ALLOW" /\ lease.strict /\ allow
    /\ actions' = [actions EXCEPT ![a].decision = IF allow THEN "ALLOW" ELSE "BLOCK"]
    /\ Commit(Run, IF allow THEN Reopened(a[1]) ELSE Denied(a[1]))
    /\ TokenFollowsLease
    /\ UNCHANGED <<thread, request, lease, consumed>>
    /\ Frame

----------------------------------------------------------------------------
(* execute_next_step, with the handlers of AgentRun.                       *)

\* acquire_run_lease: an unexpired lease of the same worker is shared.
acquire_lease(t) ==
    /\ At(t, "execute") /\ thread[t].phase = "idle"
    /\ IF Live(m) /\ ~m.pause_requested /\ m.status # "PAUSED"
       THEN /\ IF m.lease = "live"
               THEN holders' = holders \cup {t} /\ UNCHANGED <<mem, disk>>
               ELSE holders' = {t} /\ Commit(Run, WithLease(m, "live"))
            /\ thread' = [thread EXCEPT ![t] = [phase |-> "acquired", run |-> Run]]
            /\ UNCHANGED request
       ELSE Goto(t, "done") /\ UNCHANGED <<mem, disk, thread, holders>>
    /\ UNCHANGED trustVars
    /\ Frame

\* transition_step stamps duration_ms when a step ends: wall time since its
\* first attempt started, waits and earlier attempts included.
Stamped(t, seconds) ==
    [k \in Steps |->
        IF m.steps[k].status # "SUCCEEDED" /\ m'.steps[k].status = "SUCCEEDED"
        THEN [seconds |-> seconds, reserved |-> ActionCount[k] * request[t].timeout]
        ELSE ran[k]]

execute_step(t) ==
    /\ start_step(t) \/ apply_pass_next(t) \/ apply_pass_last(t) \/ apply_failure(t)
    /\ \E seconds \in Durations : ran' = Stamped(t, seconds)
    /\ IF thread'[t].phase # "idle" THEN UNCHANGED request
       ELSE IF disk' = mem'
       THEN request' = [request EXCEPT ![t].at = "consume", ![t].next = 1]
       ELSE Goto(t, "done")
    /\ TokenFollowsLease
    /\ UNCHANGED trustVars
    /\ UNCHANGED <<lockVars, taskReady, raced, crashed>>

late_result(t) ==
    /\ apply_rejected(t)
    /\ Goto(t, "done")
    /\ UNCHANGED <<holders, trustVars>>
    /\ Frame

\* No step is ready: release_run_lease, which drops the lease of this token.
release_lease(t) ==
    /\ thread[t].phase = "acquired"
    /\ \A k \in Steps : ~ready_step(m, k)
    /\ IF t \in holders THEN Commit(Run, ReleaseLease(m)) ELSE UNCHANGED <<mem, disk>>
    /\ Return(t)
    /\ IF m.status = "RETRY_WAIT"
       THEN request' = [request EXCEPT ![t].at = "consume", ![t].next = 1]
       ELSE Goto(t, "done")
    /\ TokenFollowsLease
    /\ UNCHANGED trustVars
    /\ Frame

----------------------------------------------------------------------------
(* consume_run_step_actions.                                               *)

\* Mutant: every action is charged the second that is left over.
ShareRoundedUp(seconds, n, i) == seconds \div n + 1

\* What the i-th of n actions is charged of the step's wall time.
Share(seconds, n, i) == seconds \div n + (IF i <= seconds % n THEN 1 ELSE 0)

\* consume_effective_action for the next action.  An action that is charged
\* already is passed over; a refusal raises and leaves the rest of the step's
\* actions uncharged.
consume_run_step_actions(t) ==
    LET q == request[t]
        a == Current(q)
        k == q.step
        retry == IF q.next = 1 /\ m.steps[k].attempt_count > 1 THEN 1 ELSE 0
        runtime == lease.runtime + Share(ran[k].seconds, ActionCount[k], q.next)
        due == /\ m.steps[k].status = "SUCCEEDED" /\ q.next <= ActionCount[k]
               /\ actions[a].decision = "ALLOW"
    IN  /\ At(t, "consume")
        /\ UNCHANGED <<mem, thread, taskReady, holders, actions>>
        /\ IF due /\ a \in consumed
           THEN request' = [request EXCEPT ![t].next = @ + 1]
                /\ UNCHANGED <<lease, consumed, disk>>
           ELSE IF /\ due /\ lease.status = "ACTIVE"
                   /\ runtime <= MaxRuntime /\ lease.retries + retry <= MaxRetries
           THEN /\ lease' = [lease EXCEPT !.runtime = runtime, !.retries = @ + retry]
                /\ consumed' = consumed \cup {a}
                /\ request' = [request EXCEPT ![t].next = @ + 1]
                /\ Persist
           ELSE Goto(t, "done") /\ UNCHANGED <<lease, consumed, disk>>
        /\ UNCHANGED <<lockVars, ran, raced, crashed>>

----------------------------------------------------------------------------

RequestStep(t) ==
    \/ enter_request(t) \/ leave_request(t)
    \/ ensure_run_capability(t) \/ refuse_request(t)
    \/ \E timeout \in Timeouts : validate_lease_for_run(t, timeout)
    \/ authorize_action(t) \/ authorized(t)
    \/ acquire_lease(t) \/ execute_step(t) \/ late_result(t) \/ release_lease(t)
    \/ consume_run_step_actions(t)

\* The operator's and the watchdog's handlers and the clock, as in AgentRun.
SupervisorStep ==
    /\ \/ pause_run(Run) \/ pause_run_rejected(Run) \/ resume_run(Run) \/ cancel_run(Run)
       \/ \E k \in Steps : retry_run(Run, k) \/ BackoffElapses(Run, k)
       \/ recover_stale_leases \/ LeaseExpires(Run)
    /\ TokenFollowsLease
    /\ UNCHANGED <<request, trustVars>>
    /\ Frame

TrustStep ==
    \/ \E strict \in BOOLEAN : attach_capability_lease(strict)
    \/ end_capability_lease
    \/ \E a \in ActionId, allow \in BOOLEAN : record_action_authorization(a, allow)

\* The process dies: the lock registry and the requests are gone.
Restart ==
    /\ Crash
    /\ registry' = NoLock /\ locked' = {}
    /\ phase' = [t \in Threads |-> "idle"] /\ ref' = [t \in Threads |-> NoLock]
    /\ request' = [t \in Threads |-> NoRequest]
    /\ holders' = {}
    /\ crashed' = TRUE
    /\ UNCHANGED <<trustVars, ran, raced>>

GovernedNext ==
    \/ \E t \in Threads : RequestStep(t)
    \/ SupervisorStep
    \/ TrustStep
    \/ Restart

GovernedSpec == GovernedInit /\ [][GovernedNext]_governedVars

----------------------------------------------------------------------------
(* Properties.                                                             *)

\* Every variable has its type.
GovernedTypeOK ==
    /\ TypeOK
    /\ Lock!TypeOK
    /\ request \in [Threads ->
         [at : {"idle", "start", "attached", "authorize", "execute", "consume", "done"},
          step : Steps, attempt : 0 .. AttemptBound, timeout : Timeouts \cup {0},
          next : Nat]]
    /\ holders \subseteq Threads
    /\ lease \in [status : {"none", "ACTIVE", "ENDED"}, strict : BOOLEAN,
                  runtime : 0 .. MaxRuntime, retries : 0 .. MaxRetries]
    /\ actions \in [ActionId ->
         [decision : {"none", "REQUIRE_APPROVAL", "ALLOW", "BLOCK"},
          timeout : Timeouts \cup {0}]]
    /\ consumed \subseteq ActionId
    /\ ran \in [Steps -> [seconds : Nat, reserved : Nat]]

\* No side effect starts unless every action of exactly that attempt has been
\* allowed, whatever retries, resumes, repeated decisions, recoveries and
\* restarts came before (authorize_run_step).  The one exception is a second
\* request that got past the execution lock.
StartedWasAllowed ==
    [][\A k \in Steps :
          /\ m.steps[k].status # "RUNNING" /\ m'.steps[k].status = "RUNNING"
          /\ ~raced
          => \A i \in 1 .. ActionCount[k] :
                actions[<<k, m'.steps[k].attempt_count, i>>].decision = "ALLOW"
      ]_governedVars

\* A request has ended, or has not come to the actions of step k.
NobodyConsumes(k) ==
    \A t \in Threads : ~(request[t].at = "consume" /\ request[t].step = k)

Charged(k) ==
    \A i \in 1 .. ActionCount[k] : <<k, m.steps[k].attempt_count, i>> \in consumed

\* A step that passed is charged to the lease in full, unless the lease ended
\* or its retries were used up meanwhile, the process died, a second request
\* got past the lock, or the step took longer than _preflight_aggregate_budget
\* had reserved for it.  The shares of the wall time never add up to a refusal
\* otherwise (consume_run_step_actions).
UnchargedHasCause ==
    \A k \in Steps :
        (m.steps[k].status = "SUCCEEDED" /\ NobodyConsumes(k) /\ ~Charged(k))
            => \/ lease.status = "ENDED" \/ crashed \/ raced
               \/ lease.retries = MaxRetries /\ m.steps[k].attempt_count > 1
               \/ ran[k].seconds > ran[k].reserved

\* Doc claim: "Every allowed side effect produces immutable consumption
\* evidence", here only while the lease is active and nothing crashed or raced.
EverySideEffectCharged ==
    \A k \in Steps :
        (/\ m.steps[k].status = "SUCCEEDED" /\ NobodyConsumes(k)
         /\ lease.status = "ACTIVE" /\ ~crashed /\ ~raced) => Charged(k)

\* No entry of _EXECUTION_LOCKS outlives the requests, however releases,
\* refusals and new requests interleave.
NoLockLeak == Lock!NoLockLeak

\* Each locked Lock object is owned by exactly one active request: a lock
\* without an owner would answer 409 for ever.
LockedHasOwner == Lock!LockedHasOwner
=============================================================================
