# Aixion Control Tower: TLA+ models and proofs

This directory holds a formal model of the Aixion Control Tower backend, the
TLC configurations that check it on small instances, and TLAPS proofs of its
main properties for every instance. It is translated from the source under
`src/`; `PROJECT.json` maps each definition to the lines it stands for.

Check a run with `tlc -config <cfg> <module>` and the proofs with
`tlapm <module>.tla` for `Induction`, `AgentRunProofs`, `AgentRunRefinement`,
`TrustControlProofs`, `GovernedRunProofs`, `AgentTaskFlowProofs`,
`ApprovalSystemProofs` and `ConnectorWebhookProofs`.

## 1. The system

The control tower lets AI agents propose work on repositories, puts the
proposals before human reviewers (web API and Android client), and executes the
approved ones through a durable, leased run supervisor and a GitHub worker. The
backend is one FastAPI process: synchronous handlers run in a thread pool,
asynchronous ones on the event loop, and all share one in-memory store that is
written to SQLite as a whole by `store.persist`.

| Component | State | Operations | Interacts with | What is hard | What makes it correct |
|---|---|---|---|---|---|
| Run supervisor (`agent_run_supervisor.py`, `_routes`, `_state_machine`, `_models`) | `AgentRun`, its ordered `AgentRunStep`s, leases, retry clocks | create, execute-next, heartbeat, watchdog, pause, resume, cancel, retry | store, step executor, worker script, trust control | results that arrive after the lease expired; controls between two steps of a request; a crash at any point | steps pass in order, no false success, attempts bounded and durable, terminal is final, nothing is wedged |
| Execution lock (`agent_run_routes.py`) | registry of `Lock` objects | acquire, release | every execute-next request | fetch under the guard, lock outside it | one active request per run; no leaked or orphaned lock |
| Step executor and verifier (`agent_run_verifier.py`) | none of its own | classify a result or an exception | GitHub worker | timeouts, exceptions as results | every result is one of six decisions |
| Durable store (`store.py`) | all entities, in memory and in SQLite | load, persist | everyone | memory ahead of disk after a handler raised; several processes on one file | disk is a state the handlers produced |
| Trust control (`trust_*.py`) | capability leases, attestations, proposed actions, decisions, consumptions, grants, event chain | attest, issue, revoke, evaluate, authorize, consume, grant | run supervisor, reviewers | a lease revoked or exhausted between authorisation and consumption | budgets never exceeded, attestations immutable, no self-approval |
| Run governance (`agent_run_trust.py`, `trust_run_capability.py`) | lease attached to a run | ensure, authorize step, consume step | supervisor, trust control | several actions per step, the first refusal stops the rest | a step that passed was authorised |
| Approvals and GitHub runner (`main.py`, `approval_*.py`, `github_runner.py`) | `ApprovalRequest` and its integrity hash | submit, decide, execute | agent tasks, GitHub | status set before a series of awaits | no execution of what was not approved |
| Agent tasks (`agent_task_*.py`, `agent_routes.py`) | `AgentTask`, events | create, status change, retry, cancel | approvals, worker, supervisor | several actors move one status | a cancelled task is not executed |
| GitHub worker (`agent_worker_*.py`) | worker lease on a task, branch, files, validation, pull request | claim, plan, apply, validate, open PR | SQLite directly, GitHub | claims in SQLite against whole-store writes | one worker per task |
| MCP gateway (`mcp_*.py`) | pending calls, child servers | call, decide, forward, retry | approvals, child servers | forward under a lease, restart, dead letters | a mutating call is forwarded only if approved, attempts bounded |
| Connectors and webhooks (`connector_*.py`) | connectors, nonce history, rate window | verify, create task, events | agent tasks | duplicate delivery, truncated history | a nonce counts once |
| Users and sessions (`auth*.py`, `session_`, `role_`, `invite_`, `recovery_routes.py`) | users, sessions, invites | login, refresh, revoke, invite, recover | every route | token rotation, last owner | a revoked session stays revoked |
| Agent credentials (`agent_auth.py`) | hashed credentials | issue, rotate, revoke | agent routes | rotation against use | a revoked credential is refused |
| Notifications and push (`notifications.py`, mobile `notifications/`) | notifications, device registrations | notify, register, open deep link | mobile client | token refresh against logout | a device belongs to the signed-in user |
| Mobile view models (`mobile/android/.../feature/*`) | screen state, request sequence numbers | refresh, open, decide | approvals API | answers out of order | a decision is about what is shown |
| Risk engine, metrics, reports, release and demo scripts, settings | none | pure functions and read-only views | | | |

`PROJECT.json` lists the components with their status and, under `hazards`, the
places in the code that a test hardly reaches.

## 2. What is modelled now

### AgentRunStateMachine

The status enumerations of `agent_run_models.py` and the two transition tables
of `agent_run_state_machine.py`, as functions from a status to the set of its
successors, with `can_transition_run` and `can_transition_step`.

### AgentRun

The run supervisor as seen through its routes.

*State.* `mem` is the in-memory store restricted to runs and steps: per run its
status (`ABSENT` before it is created), `pause_requested`, the current step, the
lease and per step its status, `attempt_count` and whether its retry backoff has
elapsed (`due`). `disk` is what `store.persist` last wrote. `thread` says where
each request thread is inside execute-next: outside, holding the lease, or in
the executor for a given attempt. `taskReady` is the condition of
`create_agent_run` on the task and its approval; both are other components'
state, so it changes freely.

*Actions.* One per handler, split where the code blocks on `store.persist` or on
the executor:

| Code | Action |
|---|---|
| `create_agent_run` | `create_agent_run` |
| `execute_run_next_step` up to `acquire_run_lease` | `acquire_run_lease` |
| `_ready_step` and the start of the step | `start_step`, or `no_ready_step` |
| executor result, `_apply_execution_result`, release | `apply_pass_next`, `apply_pass_last`, `apply_failure`, or `apply_rejected` when the step transition is illegal and the handler raises |
| `heartbeat_run` | `heartbeat_run` |
| `recover_stale_leases` | `recover_stale_leases` (all expired leases in one call) |
| `pause_agent_run` | `pause_run`, or `pause_run_rejected` when the transition raises after `pause_requested` was set |
| `resume_agent_run`, `cancel_agent_run`, `retry_agent_run_step` | `resume_run`, `cancel_run`, `retry_run` |
| any other `store.persist` | `StorePersists` |
| process death and `store.load` | `Crash` |
| the clock | `LeaseExpires`, `BackoffElapses` |

Handlers are operators on one run record (`StartStep`, `RecoverRun`,
`resume_agent_run`, ...); the actions apply them and either `Commit` (memory and
disk) or `Abort` (the handler raised: memory only). The mutated operators that
show each property can fail stand next to the original, marked `Mutant`.

*Abstractions and assumptions.*

- Handler code between two blocking calls is one step. Python threads could be
  preempted inside it; the code has no lock there, so this is an assumption.
- A lease is at least `RUN_LEASE_OVERHEAD_SECONDS` (a minute) longer than the
  executor's timeouts, so it does not expire between `acquire_run_lease` and the
  start of the step. It may expire at any time once the executor runs.
- The execution lock is exclusive here and capability enforcement
  (`ensure_run_capability`, `authorize_run_step`, `consume_run_step_actions`) is
  off. GovernedRun has both.
- Every known client of the run may send its lease token in a heartbeat, for
  the token is part of the run's JSON.
- `resumes` counts resume calls; it is a history variable for the attempt bound
  and is capped by `MaxResumes`.
- Not represented because no reachable code assigns or reads it: the statuses
  `EVALUATING` (run), `PAUSED` and `SKIPPED` (step), the `cancel_requested`
  branch of `execute_next_step` (a run with the flag is already `CANCELLED`), the
  `SUCCEEDED` branch after `_ready_step`, `recompute_run_status`. Events, audit
  entries, evidence and timestamps other than the two clocks are left out.

### AgentRunContract

The abstract specification: at most one open run, steps pass one by one and in
order, success exactly at the last one, an ended run never changes. `AgentRun`
implements it with its *durable* state (`ContractState` and `ContractPassed` of
`disk`), so a crash is a stuttering step: nothing a client may rely on is lost.

### ExecutionLock

`_acquire_execution_lock` and `_release_execution_lock` for one run, at the grain
of the guarded blocks and of `Lock.acquire`/`Lock.release`. GovernedRun
instantiates it around its requests.

### TrustControl

The agent trust control plane for one approval.

*State.* One variable per store table: `approval` (whether it is APPROVED and
sealed, and by whom), `attestations`, `lease` (with status, subject, mode, expiry
and what was `spent` per resource), `proposed`, `latest` (what
`latest_policy_decision` returns, and whether a human made it), `authorizations`,
`consumptions`, `grant`; `request` holds the requests between their check and
their write; `now` is the clock; `history` records which grants, revocations and
charges an overlapping request disturbed.

*Actions.* One per handler:

| Code | Action |
|---|---|
| `decide_approval` | `approve`, `leave_approved` (also the runner's EXECUTING, FAILED, READY_FOR_PR) |
| `record_reviewer_attestation` | same name |
| `issue_capability_lease`, `refresh_lease_status` | same names |
| `revoke_capability_lease` | same name (the lease is marked), `revoke_walk` (over the grants), `revoke_aborted` (the walk raises) |
| `evaluate_gateway_action` with `evaluate_proposed_action` | same names, split into `evaluate_unleased`, `HasReasons` and `evaluate_leased` |
| `record_action_authorization` | same name; the branches that return the stored decision change nothing here |
| `consume_effective_action` | `consume_check` (to the last comparison), `consume_write` |
| `issue_credential_grant` | same name (the lease is looked at), `grant_write` (the grant is stored) |
| `revoke_credential_grant`, `introspect_credential` | same names |

FastAPI runs synchronous routes in a thread pool and these handlers hold no lock,
so the three that act on what they have checked are cut there:
`consume_effective_action` between its comparisons and its write,
`issue_credential_grant` between the test of the lease and the store (with a
second reading of the clock for the expiry), `revoke_capability_lease` between
the mark on the lease and the walk over the grants. A grant stored while the walk
is under way changes the size of the dictionary, and the walk may raise. The
other handlers are one step each; that is an assumption for the same reason.

*Abstractions.*

- `ActionKind` stands for everything fixed about an action and its lease: agent,
  provider, action type, repository, branch, auto-merge, run and task identity,
  paths, command, domains and retry number. V1 scopes reject high-risk action
  types, so the escalation of SUPERVISED leases is unreachable and SUPERVISED
  behaves as BOUNDED.
- A resource is runtime, cost, pull requests or retries. An action estimates the
  first two, one pull request if it creates one, and no retries, whose number is
  compared with the limit alone.
- The payload of an approval is never edited once sealed (no handler does), so it
  has one hash. Hashes and signatures are injective; identifiers the server draws
  are not guessed, those of actions are the client's to choose.
- `payload` in a consumption is the action as it was consumed; the store keeps
  the amounts under the action's identifier only.
- Every handler ends in `persist`, so memory and disk agree between handlers. The
  status CONSUMED is never assigned. The clock does not advance inside a step.
- What a decision does to a durable run (`_apply_durable_run_decision`) and to the
  task of the approval is in GovernedRun and AgentTaskFlow; the
  flight recorder's events are left out. `consume_gateway_action` in
  `trust_service.py` has no caller.

### GovernedRun

`execute_run_next_step` with capability enforcement on, for one run: it EXTENDS
AgentRun, takes its handlers as they are and puts ExecutionLock and the trust
checks around them.

*State.* AgentRun's and ExecutionLock's variables; `request`, where each request
is and which step, attempt, timeout and action it has captured; `holders`, the
requests that know the run's lease token; `lease`, `actions` (the latest decision
per action identifier: step, attempt, place) and `consumed`, the trust tables as
far as a run uses them; `ran`, the wall time `transition_step` has stamped on a
step that passed (any of `Durations`: it counts from the start of the *first*
attempt, waits included, and nothing caps it) and what the preflight reserved for
it.

| Code | Action |
|---|---|
| `_acquire_execution_lock`, `_release_execution_lock` | `enter_request`, `leave_request` |
| `_require_step_boundary` refuses | `refuse_request` |
| `ensure_run_capability`, the capability-lease route | `ensure_run_capability`, `attach_capability_lease` |
| `_validate_lease_for_run`, `_preflight_aggregate_budget` | `validate_lease_for_run` |
| one round of the loop of `authorize_run_step`, and its end | `authorize_action`, `authorized` |
| a reviewer's decision with `_apply_durable_run_decision` | `record_action_authorization` |
| `execute_next_step` | `acquire_lease`, `execute_step`, `late_result`, `release_lease` |
| one round of `consume_run_step_actions` | `consume_run_step_actions` |
| revocation or expiry; process death | `end_capability_lease`; `Restart` |

A charge is the action's share of the wall time (`Share`: the quotient, and one
second more for the first ones), compared with what is left of the lease, as
`consume_effective_action` does; an action that is charged already is passed over.
The code of a request between two calls of `persist` is one step. All requests
come from one `worker_id`, which is what makes two of them share a lease token.
Heartbeats, changes of the task and unrelated saves are left to AgentRun's runs.
Facts a reader may not expect: an action identifier carries the request's
`timeout_seconds` in its payload, so a second request with another timeout blocks
the run for good; on a PAUSED run `authorize_run_step` marks the step in memory
and then raises; repeating an old ALLOW reopens a run that waits for another
reason; a second request that got past the lock can start an attempt nobody
authorized and release the first one's lease.

### AgentTaskFlow

One agent task, its operators and its workers: `agent_task_*.py`, the agents'
routes, `agent_worker_claims.py`, the five worker steps and the orchestrator.

*State.* `disk` is the task's row, `mem` the object each process has in its
store; `worker` says for each worker what it was started for (the flow in a clone,
the flow with `--no-isolated-workspace` in the caller's directory, a plan, the dry
run, or the script of a single step such as `agent_worker_github_pr.py`, described
in `docs/AGENT_WORKER_GITHUB_PR.md:38-51`), which flow step it is at and whether its object is still the one in the store (`shared`) or one that
another claim has replaced (`own`). `fresh` are the leases that have not expired,
`github` is the branch, the files and who opened the pull request; `validated`
(where commands passed with every file there) and `lapsed` are histories.

*Actions.* The operators' handlers keep the names of the code; `persist` is a
step of its own, for any request of the process may save in between. A worker
claims (`claim_agent_task_for_worker`, `claim_refused`), acts on GitHub
(`create_branch`, `apply_file_change` file by file, `create_pull_request`), runs
validation (`start_validation`, `finish_validation`), and ends its step with
success (`finish_*`), a refusal or failure after which the lease is released
(`fail_step`), or an exception nobody catches, after which it stays
(`step_raised`). `next_step` is the orchestrator, or the run supervisor for
`Supervised` workers, which repeats a failed step; it passes over the workspace
when none was asked for. The planning scripts, the dry run and the scripts of one
step claim in the same way and end after it. `crash(p)` reloads a process.

*Abstractions.* Which paths, commands and branches a plan refuses is an input
(`fail_step` may always happen); GitHub creates a branch and a pull request once
and may lose its answer; `retries` counts retry events; notifications and
evidence are left out.

### Approvals, GithubRunner, McpGateway, ApprovalSystem

One approval request. **Approvals** has the risk engine as an operator
(`assess_approval_request`, a fold of `RaiseLevel` over the files, with paths
reduced to the classes the markers tell apart), creation and `decide_approval`.
**GithubRunner** is `execute_github_change` cut at its awaits (`find_branch`,
`create_ref`, `put_file` per file, `open_pull_request`, `finish_execution`, or
`execution_failed` from any of them), and the table of `approval_lifecycle.py`.
**McpGateway** is one mutating tool call: `submit_tool_call`, the resolve request
cut where threads can interleave (checks, take the call, test the lease, assign
it, forward, record), the operator's retry (checks and assignments apart), lease
expiry and the child server's registry entry. `unsettled` tells how forwards that
reached the child ended without success: it refused (an HTTP error or
`{"ok": false}`), or no answer came; the code treats both alike and sends again.
**ApprovalSystem** composes the three: both executors go by the status of the same
approval, and a crash stops all requests.

*Abstractions.* A payload hash is the payload (SHA-256 is taken as injective).
No handler edits a stored payload, so the comparison of hashes never fails; it is
in the model all the same. `received` saturates at two. The methods
`*_for_test` are left out.

Facts a reader may not expect: a tool call's approval has the single path
`mcp://<server>/<tool>` (`mcp_gateway.py:248-251`), made of names the client
chose; the risk engine never looks at it, so a path with a blocked marker gets the
level HIGH, can be approved and can be executed by the GitHub runner, which is the
exception in `ExecutedIsSafe`; resolving before any decision closes the request
as BLOCKED_BY_DECISION for good; a second resolver may mark a request ORPHANED
while the first forwards it; a late failure handler overwrites a final status; the
router sends the calls of a disabled or unknown server to an in-memory test
server and reports them FORWARDED; an exception or a crash during a
forward leaves the request FORWARDING until its lease expires and is never
compared with `max_attempts`, so such a call is attempted without end (the model
stops counting at `AttemptBound`); `decide_approval` consults
no transition table, so a denial during EXECUTING is overwritten and an approval
during EXECUTING allows a second execution; a crash leaves the approval EXECUTING
until somebody decides again; after a lost answer to the pull request every later
execution fails.

### ConnectorWebhook

A connector with HMAC v1 signatures (`connector_webhook.py`,
`connector_credentials.py`, `connector_routes.py`).

*State.* `connector` (enabled, the rate limit, `secret_ref`, the `config` with
secret hash, nonce history and rate window, and what it has led to), `disk`, the
clock, the messages accepted so far as they were signed, the webhook being handled
and the owner's requests; `history` records which nonces, secrets and counts were
lost to an overwrite or replaced by what the owner sent, and the highest limit.

*Actions.* The webhook handler is a coroutine that never suspends after its body
was read (`request.json` reuses it), so webhooks do not overlap; the owner's routes run in the thread pool
and overlap it. Hence the webhook is cut where it reads and where it replaces
`connector.config` (`receive`, `_assert_hmac_v1_not_replayed`, `read_rate`,
`_enforce_connector_rate_limit`, `handle_connector_webhook`), and an owner's
request into its read (`issue_connector_secret`, `revoke_connector_secret`,
`update_connector`), its `write_config` and its `answer`, which saves.
`update_connector` is the PATCH route: it sets the limit and the status and merges
any keys the client sent into `config` (`connector_routes.py:217-218`), among them
a nonce history (`PatchedNonces`), a rate window (`PatchedStarts`,
`PatchedCounts`), a retired secret's hash or none.

*Abstractions.* A message is first accepted with a timestamp that is ahead of the
server's clock by one of `Skews`, any set of values within the tolerance. Bearer
connectors, health counters and the mapping of payloads
are left out; a payload creates a task, appends an event or is refused. The two
reads of the configuration in `_assert_hmac_v1_not_replayed` are one. The nonce
history is a function from a message to the second it was seen in, as the
dictionary of the code is; which of several nonces of one second the truncation
drops depends on the order of the dictionary, and the model allows each.

Facts a reader may not expect: every write replaces the whole `config`, so a
stale one can restore a rotated secret's hash, forget a nonce or a count; an owner
who edits what GET showed and sends it back with PATCH does the same without any
overlap, since `_safe_config` shows the history and the counters; more
than 200 nonces inside the window make an old one forgotten, although the default
rate of 60 a minute allows 600 in that time; a nonce is used up also when the request
is then rate-limited or its payload refused, so the sender's retry is refused; the
window is safe exactly because the TTL is twice the tolerance and compared with
`<=`.

### AgentRunInvariant, AgentRunRefinement, Induction and the `*Proofs` modules

The inductive invariants and the proofs (section 5). The invariant of AgentRun
has a module of its own, that of TrustControl stands at the end of its module,
the others at the beginning of the proofs.

## 3. The runs

| Run | Instance | Shows |
|---|---|---|
| `run_safety` | 2 runs, 2 threads, 2 steps, 2 attempts, 1 resume | `RunningStepIsLeased`, `AttemptsBounded`, `OneLiveRun`, `NoFalseSuccess`, `TerminalFinal`, `ControlHonoured`, and that the durable state implements the contract; 197,532 states |
| `run_order` | 1 run, 2 threads, 3 steps, 3 attempts, 2 resumes, `FairSpec` | `StepOrder`, `SucceededRunComplete`; every started step resolves (`RunningStepResolves`), every lease returns (`LeaseReturns`); 26,928 states |
| `trust_leases` | 2 users, 1 agent and the unbound subject, 2 leases, 2 grants, 2 request threads, time 0..2 | `OneLiveLease`, `StrayGrantHasRace`, `CredentialNeverRevives`, `DenialIsFinal`; 2,416,719 states |
| `trust_overlap` | 2 leases, 2 actions, 2 request threads, budget 2, amounts 1 and 2, no tick | under any overlap `BudgetsHold`, `StrictNeedsHuman`, `DeniedNeverConsumed`; a charge is lost or a record replaced only by a request that was overtaken (`ChargesExact`, `ReplacedByOvertaken`); 824,627 states |
| `governed` | 1 run of 1 step with 2 actions, 2 request threads, 2 attempts, timeouts 1 and 2, wall times 2, 4 and 5, runtime budget 4, retry budget 1 | an attempt starts only when each of its actions was allowed (`StartedWasAllowed`); a success without its charges has a cause (`UnchargedHasCause`); `NoLockLeak`; 2,081,660 states |
| `task_flow` | 1 task, 2 workers of the server process (one under the run supervisor, one started for the flow without a workspace, a plan, the dry run or the pull request alone), 2 files, 1 retry | a pull request of the flow is complete and validated, one of the single-step script stands for the branch (`PullRequestComplete`); two live claims only after a lease lapsed (`OneLiveClaim`); a superseded worker changes nothing (`SupersededIsHarmless`); 2,546,789 states |
| `approvals` | 8 payloads and a tool call with a blocked path, 2 executions, 2 resolvers, 2 attempts | `ExecutedIsSafe`, `ReadyIsComplete`, `OverlapNeedsDecision`, `ReceivedWasApproved`, `RepeatHasCause`, `OrphanNeedsOverlap`, and under fairness `ExecutionConcludes`; 1,281,004 states |
| `webhook` | 2 messages (one creates, one appends), 1 owner, tolerance 1, TTL 2, window 2, history of 1, rate limit 1 or 2, 2 owner requests or restarts, 3 of these and accepted messages together, time 0..2 | `EffectOnce`, `RateLimitHolds`, `RetiredSecretRefused`; 3,817,656 states |
| `cancelled_task` | as `task_flow`, both workers under the supervisor | violation: `OperatorStopStands` |
| `forwarded_twice` | as `approvals` | violation: `ForwardedOnce` |
| `uncharged_step` | 1 thread, 2 steps with 1 action each, wall time 0 | violation: `EverySideEffectCharged` |
| `lost_charge` | as `trust_overlap` | violation: `ChargesSum` |

The properties of `trust_leases`, `trust_overlap`, `governed`, `task_flow`,
`approvals` and `webhook` that say "only if" name every exception the code really has. They are the strongest statements
that hold: each exception is reached in the model, and some of them are the
violations above.

*Further configurations*, to be run by hand: `MCAgentRun_budget.cfg` and
`MCAgentRun_block.cfg` (violations of `RetriesStopAtBudget` and
`PolicyBlockIsFinal`), `MCTrustControl_signed.cfg` (violation of
`SignedDecisionStands`), `MCAgentTaskFlow_scripts.cfg` (violation of `OneLiveClaim`
when a worker script is a process of its own) and `MCConnectorWebhook_replay.cfg`
(violation of `NoReplay`).

*Bounds.* Two runs are what `OneLiveRun` and the contract need: one that ended
and its successor. Two threads let one request be late while another starts
(of the other run, since the lock excludes a second one of the same run). Two
attempts give one retry and then the exhausted budget, three steps a first, a
middle and a last one; one resume exceeds the budget once, two do it again after
another failure. Retries, crashes, recoveries, heartbeats and status changes of
the task are not bounded.

In TrustControl two leases are a lease that ended and its successor, two actions
compete for one budget of two units, amounts of one and two units fit together
or not, and two requests are the smallest overlap. Two ticks let a lease expire,
a second one follow it, and that one expire as well; the action runs have no tick,
since a lease that ends by expiry is to them one that was revoked. Identifiers are
used once, resubmissions and repeated approvals are unbounded. The action runs have a single
user, who approved the own request under `prevent_self_approval` off, because
reviewing is the subject of `trust_leases`.

In GovernedRun two actions let the second be refused or charged after the first,
two timeouts let a second request come with another payload, and a budget of 4
fits the two actions of a step at one attempt and not at every sequence of two.
Wall times of 2, 4 and 5 seconds are at what timeouts of 1 and 2 reserve for two
actions and above it, even (equal shares) and odd (one second left over).
The race through the lock needs two requests and two lock objects: the popped
one and its successor.
There is one step here (order is the subject of `run_order`), and resuming adds
attempts beyond `AttemptBound`, so `MaxResumes` is 0.

In AgentTaskFlow two workers are a holder and its successor, two files (one
created, one updated) let a step fail between them, and one retry follows a
failed validation. Of the single-step scripts the run has the one for the pull
request, the only one that can open one early; the proofs have all. In ApprovalSystem the payloads are one per branch of the risk
engine, with the risky file before a harmless one; two executions and two
resolvers are the smallest overlap, two attempts a failure and the dead letter.
A tool call's approval is executed on GitHub by one executor at most
(`ToolExecutors`); its path is of the blocked class, which no step of the runner
or the gateway looks at. In ConnectorWebhook the distances keep their proportions (TTL
twice the tolerance), the history holds one nonce so that a second message
truncates it, and two ticks reach the end of the TTL and of a window. A first
delivery is signed ahead by the whole tolerance, because that message can be
delivered again for longest; the limit goes up and down between 1 and 2; what the
owner sends is an empty history, a count of zero, a retired secret or none.
`MaxActivity` bounds the owner's requests, restarts and accepted messages
together. Overlapping requests of two owners, other skews and other values sent
are beyond this run; the proofs cover any.

Where runs, threads, locks, leases or actions are interchangeable, symmetry is
used, for safety only: never in `run_order` or `approvals`, which check liveness.
Deadlock is not checked in the four newer modules: a finished task, an executed
approval, an ended run and a connector at its time bound may rest.

*Fairness.* A request that holds the lease finishes (`WF` on `FinishRequest`):
its only blocking call is the executor, whose subprocesses and HTTP calls have
timeouts and whose exceptions become results. A lease nobody renews expires: the
clock. The watchdog runs: `scripts/run_mission_control_worker.py` calls it at the
start of every cycle. The last conjunct says that clients eventually stop
sending heartbeats for a run that no request is executing; the code would accept
them for ever, and then neither property holds. Nothing is assumed of the
operator, of new requests or of crashes, which may go on for ever.
`ExecutionConcludes` assumes that an execution that has begun goes on (`WF` on
`Execution`): each of its awaits is an HTTP request with a timeout of 30 seconds.

## 4. Where code and documentation disagree

1. `docs/AGENT_WORKER_CONTRACT.md:63` lists, under "A worker must refuse to
   continue if", "task was cancelled, denied, failed, or already done". A step
   sets the task's status at its end whatever an operator has made of it since
   the claim, and takes a saved cancellation or denial back (run
   `cancelled_task`). `docs/AGENT_TASK_CANCELLATION.md:26` grants that there is no
   automatic stop signal; what the run shows is more, that the cancellation itself
   is undone.
2. `docs/MCP_APPROVAL_DEMO_RUNBOOK.md:25` says "The gateway resolve endpoint
   forwards the approved request exactly once." Two resolvers can both pass the
   test of `_acquire_pending_lease`, and a refusal or a lost answer makes the call
   forwardable again (run `forwarded_twice`). What holds, and is proved, is
   `RepeatHasCause`.
3. `docs/TRUST_PRODUCTION_READINESS.md:78` says "Every allowed side effect
   produces immutable consumption evidence." Retries are charged after the step
   and checked nowhere before it, so the second of two steps that needed a retry
   is refused its consumption while its side effect stands (run
   `uncharged_step`). So is a step whose wall time, counted from its first attempt,
   is longer than what the preflight reserved. What holds, and is proved, is
   `UnchargedHasCause`.
4. `store.py:49` says "A re-entrant lock serializes writes across FastAPI worker
   threads". The lock covers `persist`, not the budget read before it: of two
   overlapping requests for two actions of one lease one charge is lost (run
   `lost_charge`). In the same way two overlapping requests for one action both
   find no consumption recorded and the later one replaces the earlier, against
   `trust_consumption.py:59` ("Action consumption is immutable once recorded.").
   What holds under any overlap, and is proved, is that the *stored* consumption
   of a lease stays within its budget, and that a charge is lost or a record
   replaced only by a request that another one overtook between its check and its
   write (`ChargesExact`, `ReplacedByOvertaken`): a lock around
   `consume_effective_action` would remove both.

By the further configurations:

5. `docs/MISSION_CONTROL_RUN_SUPERVISOR.md:103` says "retries stop at the
   configured attempt budget". `resume_agent_run` puts a `NEEDS_HUMAN` step back
   to `READY` without looking at the budget (`MCAgentRun_budget.cfg`). What holds,
   and is proved, is `AttemptsBounded`: budget plus one per resume.
6. `agent_run_supervisor.py:445` says "Policy violation blocked the run
   permanently." If the lease expired during execution, the watchdog recovered
   it and the operator paused the run, the late block moves the step to
   `BLOCKED`, raises on `PAUSED -> BLOCKED`, and is only in memory
   (`MCAgentRun_block.cfg`).
7. `docs/AGENT_TRUST_CONTROL_PLANE.md:86` says "The signed decision is immutable
   and becomes the latest effective policy decision." Submitting the action again
   under its identifier evaluates it again, and the new decision is the latest
   (`MCTrustControl_signed.cfg`). An allowed action then waits for approval for
   good, since a second decision only returns the stored one. What holds, and is
   proved, is that a denied payload is never consumed and that STRICT consumption
   always has its exact human decision.
8. A worker script is a process of its own on the same file: a save of the server
   can erase its claim, and a second worker claims the task while the first is at
   work (`MCAgentTaskFlow_scripts.cfg`).
9. The repository's `README.md:77` says "No HMAC callback replay within the nonce
   window." `_clean_hmac_nonce_history` keeps the last 200 nonces only, and they are
   recorded before the rate limit is looked at, so one of the window may be
   forgotten and its message replayed (`MCConnectorWebhook_replay.cfg`, with no
   request of the owner). What holds, and is proved, is `EffectOnce`.

`agent_run_routes.py:151` refuses a request because "Another execution request is
already active for this AgentRun." The registry entry is popped while another
request may hold a reference to the popped lock, and a third one then creates a
new lock. GovernedRun reaches this (`raced`), which is why its two main
properties except it.

## 5. The proofs

### AgentRun

The constants are arbitrary: any sets of runs and threads, `StepCount` and
`MaxAttempts` positive naturals, `MaxResumes` a natural (the three `ASSUME`s of
`AgentRun`). `AgentRunProofs` proves `Spec => []IInv` and from it every safety
property of the runs on `AgentRun`; `AgentRunRefinement` proves
`Spec => ImplementsContract`.

*The invariant.* `StepOrder` alone is not inductive: a late result changes a step
without looking at the others. `IInv` adds, for each run record,

- `PlacedSteps`: everything before the current step passed, everything after it
  was not started;
- `CurrentStep`: which step status goes with which run status (a `RUNNING` step
  only in a `RUNNING`, leased run; a retriable one only in a live run);
- `BudgetedSteps`: a step that may start has an attempt left;
- `WholeRun`: an absent run is blank, a terminal run has no lease;

for memory and disk together `Synced` (after a handler that raised they differ
only in `pause_requested` and in the status of a step that neither runs nor has
passed; this is why a crash is harmless), and for the threads `ThreadsOK` (one
request per run; a thread in the executor still refers to the current step and
its latest attempt, and if the step was taken back the lease is gone).

*The argument.* One lemma per handler shows that it maps a good record to a good
one (`StartStepOK`, `RecoverOK`, `ResumeOK`, ...). One lemma per action lifts it
to the store and also proves an `Effect`: which kinds of change the step makes
to a run (created, started, passed, or one that neither starts nor passes a step
nor revives an ended run). The action properties and the refinement follow from `Effect` and
`IInv` without going through the actions again.

### TrustControl

Again for arbitrary sets of users, agents, leases, actions, grants, threads and
resources, any budgets and any overlap. The assumptions are that
`NoLease` is no lease, that budgets and inputs are naturals and that modes and
kinds are among the code's. `TrustControlProofs` proves `Spec => []TrustInvariant`
and every property of `trust_leases` and `trust_overlap` from it.

*The invariant.* `BudgetsHold` needs the projections of requests under way to be
within the budget as well (`RequestsJustified`). `StrictNeedsHuman` and
`DeniedNeverConsumed` relate a consumption to decisions that may be superseded at
any moment; what persists is the *mode* of an issued lease and the set of
authorizations. So the invariant says that the policy's own ALLOW is never under
a STRICT lease and its REQUIRE_APPROVAL only under one or without a lease
(`DecisionsFollowMode`), that authorizations exist only there and once per action
(`AuthorizationsFollowMode`), and that every request and consumption is
`Justified` by a mode or by an ALLOW on its payload. A denied payload under a
STRICT lease then has no ALLOW, and under another lease there is no denial.

*The argument.* `LeaseStep` shows once that every handler keeps the terms of every
issued lease (`Kept`), and one frame lemma per table which handlers change it;
the parts of the invariant and the action properties follow from these with the
one or two handlers that matter to each.

*Grants.* `StrayGrantHasRace` needs two facts about requests under way: a lifetime
that was compared ended before its lease at that time (`GrantRequestsHold`), and
every grant is of an issued lease (`GrantsOfIssuedLeases`). Each race is then one
step: a grant stored on a revoked lease is `late`, one stored after a tick
`delayed`, a walk that met a new grant may be `aborted`.

*Charges.* `ChargeInvariant` says that what a request's check found (the action
not consumed, the projection made from what is spent) still stands when it writes,
unless another write has overtaken it, and with it that the budget of a lease no
overtaken request has charged is the sum of its recorded consumptions; the sums
are those of `Induction`. `ChargesExact` and `ReplacedByOvertaken` follow for any
number of overlapping requests.

### Induction

The library's induction theorems take an operator as a parameter, which the
provers cannot instantiate. `Induction` derives what is needed without one: the
order on the naturals is well founded, so a non-empty set of naturals has a least
element (`LeastNatural`), so a *set* that contains 0 and is closed under
successor contains every natural (`NaturalsClosed`), and a set of subsets of a
finite set that holds a subset once it holds every smaller one holds them all
(`SubsetsClosed`). A claim is then proved by forming the set of the numbers or
subsets it holds for. In this way the recursive functions behind the community
modules' folds are shown to exist, and with them what `FoldLeft` computes for the
risk engine and that `SumFunctionOnSet` is a sum: independent of the order
(`SumsAnyOrder`), monotone (`SumGrows`), subadditive (`SumTogether`), zero on
zeros, and one larger when the function is one larger at one place
(`SumOneMore`).

### GovernedRun and ExecutionLock

For any requests, lock objects, steps, actions per step, attempts, timeouts and
budgets, `GovernedRunProofs` proves every property of the run `governed`.

*The invariants.* `LockInv`: a request refers to a lock object exactly while it is
inside, an active one holds it alone, and a locked or registered object has such
a request. `GInv` adds the types, what holds of each request whatever else runs
(`RequestOK`), and, as long as no second request got past the lock (`~raced`),
`SerialInv`: one active request; memory and disk agree on the current step and on
all attempts; every RUNNING step has its actions allowed for exactly that
attempt; an undecided action belongs to the attempt to come; and what the request
captured before it waited is still true when it acts (`AloneOK`). `StartedWasAllowed`
is not inductive without the last two: a decision made late, or repeated, changes
an action of an attempt that may already be over. `ChargeInv` follows the budget
from the preflight to the last charge (`Budget`, `Paying`): what is left of the
lease covers the shares of the actions not charged yet as long as the wall time is
within what was reserved, so only an ended lease, used-up retries, a crash, a race
or a longer wall time leaves a step uncharged. That the shares of any wall time
add up to it, and never exceed a reservation it is within, is shown by integer
arithmetic.

*The argument.* The handlers of AgentRun are reused as operators on the run
record; one lemma per handler says that it neither starts nor passes a step, or
which one (`Moves`, `Passes`). The actions then need only the parts of `SerialInv`
they disturb.

### AgentTaskFlow

For any workers, processes, files and retries, `AgentTaskFlowProofs` proves every
property of `task_flow`. `FlowInv` says what has reached the repository when a
worker of the flow is at a position, with validation in the place where its flow
validates (`Reached`); positions of other workers stay covered
because branch, files, validation and pull request only grow. `ShareInv`: of the
workers of one process at most one holds the object in the store, and no other
worker's lease is on it; this gives `SupersededIsHarmless`. `OneLiveClaim` is
proved under the hypothesis that all workers are threads of the API process, and
needs it: the store of another process can save over a claim
(`MCAgentTaskFlow_scripts.cfg` finds the violation). Its invariant `ClaimInv` says
that the lease of a worker inside a step is on disk and in memory until it expires
or an operator clears it.

### ApprovalSystem

For payloads with file lists of any length, any number of executions and
resolvers and any bound on attempts, `ApprovalSystemProofs` proves every safety
property of `approvals`. `LevelOfFiles` says what the loop over the files ends
with, in any order of the files. `IInv` keeps the risk with its payload
(`RiskInv`), lets an approved hash stand for a decision that the required actions
allowed (`HashInv`), lets what is on GitHub stand for such a hash (`ExecInv`), and
covers the position of every execution by the files on the branch
(`ProgressInv`); as long as no decision overtook an execution it is alone
(`AloneInv`), and as long as no resolvers overlapped there is one, the request is
not closed under it, and a call that reached the child is unanswered or closed
(`OneResolverInv`, `SentInv`). `ExecutedSafely` holds for any tool call: a blocked
path on GitHub belongs to an approval of the gateway, which has a pending request.

### ConnectorWebhook

For any messages, owners, tolerance, skews, limits, values sent by the owner,
window, times and numbers of owner requests and restarts, with the TTL twice the tolerance as in the code,
`ConnectorWebhookProofs` proves every property of `webhook`.

- `TypeInv` adds to the types that a configuration read earlier, by the webhook or
  by an owner, satisfies the limits as well.
- `NonceInv` (for `EffectOnce`): a message that took effect, on disk or in memory,
  has its nonce in that history, or its time is over, or the nonce was lost. A
  nonce is recorded no earlier than the message's timestamp less the tolerance, so
  one that has outlived the TTL belongs to a message whose timestamp is too old;
  this is where the factor two is needed.
- `SecretInv` (for `RetiredSecretRefused`): a secret that a request has drawn and
  not yet written is nowhere else, in particular not retired; every other secret
  that is written is the one its writer had read, so it is the current one or
  counts as restored, or one the owner sent, which counts as restored too.
- `RateInv` (for `RateLimitHolds`): within the current window no more passed than
  was counted, in less than a window before it no more than the highest limit so
  far, in every earlier stretch no more than twice that. A new window begins when nothing
  of the old one can still fall into it, and any stretch as long as a window meets
  at most two of them.

### What the proofs assume, and how they were checked

The named `ASSUME`s of the modules, which TLC evaluates in every run, and the
hypothesis of `OneClaim` above. Each inductive invariant was first checked with TLC as an
invariant of the run's instance (for ConnectorWebhook also with two owners, and
with three messages and a longer time; for AgentTaskFlow also with two
processes). The runs keep to the properties a reader cares about; adding
`IInv`, `TrustInvariant`, `ChargeInvariant`, `GInv`, `ChargeInv`, `FlowInv`, `ShareInv`, `ClaimInv`,
`TypeInv`, `NonceInv`, `SecretInv` or `RateInv` to a configuration whose module
extends the proofs checks them again.

### Only model-checked

The liveness properties `RunningStepResolves`, `LeaseReturns` and
`ExecutionConcludes` (fairness is beyond the prover) and the violations. Every
safety property of a passing run is a theorem.

## 6. Not modelled, and the plan

Not modelled yet, in the order of their weight:

1. **FlightRecorder** (`trust_flight_recorder.py`): the sequence and tail of the
   event chain under overlapping appends; verification accepts exactly the chains
   the code writes.
2. **AuthSessions**, **AgentCredentials**: sessions, refresh rotation, roles, last
   owner, credential rotation.
3. **PushRegistration** and **ApprovalsViewModel**: the mobile client's overlapping
   requests and answers out of order.
4. The execution verifier's classification of a reason, and the planning scripts'
   rules for paths and commands, as operators against a reference definition.
5. Overlap inside the handlers that are one step in TrustControl, in particular two
   requests that issue a lease (`trust_service.py:205-245`), and two that create a
   run (`agent_run_supervisor.py:118`).

Left out for good: screens and layout, metrics and read-only reports, release
and demo scripts, connector templates and the simulator (no state), settings.
