--------------------------- MODULE AgentTaskFlow ---------------------------
(***************************************************************************)
(* One agent task, the operators who move it and the workers who claim it: *)
(* agent_task_routes.py, agent_task_cancel.py, agent_task_retry.py,        *)
(* agent_worker_claims.py, the worker steps agent_worker_github_*.py,      *)
(* agent_worker_validation_runner.py and agent_worker_workspace.py, and    *)
(* the orchestrator that calls them in order.                              *)
(*                                                                         *)
(* A claim reads the task from SQLite under BEGIN IMMEDIATE, writes its    *)
(* lease there and puts the object it parsed into the store of its         *)
(* process; every other handler changes the object it finds in that store  *)
(* and then writes the whole store back (persist).  A worker keeps the     *)
(* object of its claim until it has finished its step.                     *)
(***************************************************************************)
EXTENDS Naturals, FiniteSets

CONSTANTS
    Procs,         \* processes that open the database
    Workers,       \* threads that run worker steps
    Home,          \* the process of each worker
    Api,           \* the process that serves the operators' requests
    Supervised,    \* workers whose steps the run supervisor repeats
    Started,       \* what each worker may be started for, a set of Modes
    FileCount,     \* file changes of the approval
    ChangeType,    \* their change_type
    EventStatuses, \* statuses that operators report with an event
    MaxRetries,    \* the largest max_retries a request may carry
    NoLease

ASSUME HomeAssumption ==
    /\ Home \in [Workers -> Procs]
    /\ Api \in Procs
    /\ Supervised \subseteq Workers
    /\ NoLease \notin Workers
ASSUME InputAssumption ==
    /\ FileCount \in Nat \ {0}
    /\ ChangeType \in [1..FileCount -> {"create", "update", "delete"}]
    /\ MaxRetries \in Nat

AgentTaskStatus ==
    {"RECEIVED", "PLANNING", "WAITING_FOR_APPROVAL", "APPROVED", "DENIED",
     "EXECUTING", "TESTING", "READY_FOR_PR", "FAILED", "CANCELLED", "DONE"}
CANCELLABLE_STATUSES ==
    {"RECEIVED", "PLANNING", "WAITING_FOR_APPROVAL", "APPROVED", "EXECUTING",
     "TESTING", "FAILED"}

ASSUME EventAssumption == EventStatuses \subseteq AgentTaskStatus

(* The worker steps in the order of the orchestrator and of a run.         *)
FlowSteps == <<"branch", "files", "workspace", "validate", "pr">>
(* What a worker is started for: the whole flow, in a clone of the branch  *)
(* or (--no-isolated-workspace) in the directory the caller names; a plan; *)
(* the dry run; or the script of a single step.                            *)
FlowModes == {"flow", "local"}
Modes == FlowModes \cup {"plan", "dry", "branch", "files", "validate", "pr"}
(* Where validation commands run: in the clone only for the whole flow.    *)
Places == {"clone", "elsewhere"}
Place(mode) == IF mode = "flow" THEN "clone" ELSE "elsewhere"

(* The supervisor runs the steps of the flow, in a clone.                  *)
ASSUME ModeAssumption ==
    /\ Started \in [Workers -> SUBSET Modes]
    /\ \A w \in Supervised : Started[w] \subseteq {"flow"}

(* link says whether the task has an approval, and a blocked one; the      *)
(* lease of a claim is named by its worker; retries counts the retry       *)
(* events, which are in the store beside the task.                         *)
AgentTask ==
    [status : AgentTaskStatus \cup {"ABSENT"},
     link   : {"none", "open", "blocked"},
     lease  : Workers \cup {NoLease},
     retries : 0..MaxRetries]
AbsentTask == [status |-> "ABSENT", link |-> "none", lease |-> NoLease,
               retries |-> 0]

(* pos is the flow step a worker is at, done what it has applied of the    *)
(* current one; shared says that its object is the one in the store, own   *)
(* is that object once another claim has replaced it there.                *)
WorkerRecord ==
    [mode   : Modes \cup {"none"},
     pos    : 1..5,
     pc     : {"idle", "ready", "claimed", "applied", "returned"},
     done   : 0..FileCount,
     shared : BOOLEAN,
     own    : AgentTask]
IdleWorker ==
    [mode |-> "none", pos |-> 1, pc |-> "idle", done |-> 0, shared |-> FALSE,
     own |-> AbsentTask]

VARIABLES
    disk,       \* the row of the task in kv_store
    mem,        \* store.agent_tasks[task] of every process
    worker,     \* the workers
    fresh,      \* workers whose latest lease has not expired
    github,     \* the repository: branch, files changed, who opened the PR
    validated,  \* where the commands passed with all files there (history)
    lapsed      \* workers whose lease expired or was cleared (history)

vars == <<disk, mem, worker, fresh, github, validated, lapsed>>

Init ==
    /\ disk = AbsentTask
    /\ mem = [p \in Procs |-> AbsentTask]
    /\ worker = [w \in Workers |-> IdleWorker]
    /\ fresh = {}
    /\ github = [branch |-> FALSE, files |-> {}, pr |-> "none"]
    /\ validated = {}
    /\ lapsed = {}

-----------------------------------------------------------------------------
(* The operators, in the API process                                       *)

(* What every handler does after its checks: change the object in the      *)
(* store; its persist comes later.  Clearing a lease ends it for its       *)
(* holder.                                                                 *)
Change(task) ==
    /\ mem' = [mem EXCEPT ![Api] = task]
    /\ lapsed' = IF mem[Api].lease \in Workers /\ task.lease = NoLease
                 THEN lapsed \cup {mem[Api].lease} ELSE lapsed
    /\ UNCHANGED <<disk, worker, fresh, github, validated>>

Known == mem[Api].status # "ABSENT"

create_agent_task ==
    /\ ~Known
    /\ Change([AbsentTask EXCEPT !.status = "RECEIVED"])

(* The risk assessment decides whether the approval is blocked.            *)
create_agent_task_approval ==
    /\ Known
    /\ mem[Api].link = "none"
    /\ \E link \in {"open", "blocked"} :
          Change([mem[Api] EXCEPT !.link = link,
                                  !.status = "WAITING_FOR_APPROVAL"])

(* decide_approval refuses a blocked approval only; the task of the        *)
(* approval follows every other decision, whatever its status.             *)
propagate_approval_decision ==
    /\ mem[Api].link = "open"
    /\ \E status \in {"APPROVED", "DENIED", "PLANNING"} :
          Change([mem[Api] EXCEPT !.status = status])

append_agent_task_event ==
    /\ Known
    /\ \E status \in EventStatuses :
          Change([mem[Api] EXCEPT !.status = status])

(* External agents have routes of their own to create a task and to report *)
(* on it; who may call them is not the subject here.                       *)
create_external_agent_task == create_agent_task
append_agent_owned_task_event == append_agent_task_event

cancel_agent_task ==
    /\ mem[Api].status \in CANCELLABLE_STATUSES
    /\ Change([mem[Api] EXCEPT !.status = "CANCELLED", !.lease = NoLease])

retry_agent_task ==
    /\ mem[Api].status = "FAILED"
    /\ mem[Api].link # "none"
    /\ mem[Api].retries < MaxRetries
    /\ Change([mem[Api] EXCEPT !.status = "APPROVED", !.lease = NoLease,
                               !.retries = @ + 1])

(* The end of a handler, or of any other request of the API process: all   *)
(* of them write the whole store.                                          *)
persist ==
    /\ disk # mem[Api]
    /\ disk' = mem[Api]
    /\ UNCHANGED <<mem, worker, fresh, github, validated, lapsed>>

-----------------------------------------------------------------------------
(* Claims                                                                  *)

LeaseAvailableUntilExpiry(task) == task.lease = NoLease \/ task.lease \in fresh
is_lease_available(task) == task.lease = NoLease \/ task.lease \notin fresh
Eligible(task) ==
    /\ task.status = "APPROVED"
    /\ task.link # "none"
    /\ is_lease_available(task)

(* The object of a worker, and the workers with w at state r; when a claim *)
(* of w replaces the object in the store the others keep the one they had. *)
Held(w) == IF worker[w].shared THEN mem[Home[w]] ELSE worker[w].own
ReplacedInPlace(w, r) == [worker EXCEPT ![w] = r]
Replaced(w, r) ==
    [v \in Workers |->
        IF v = w THEN r
        ELSE IF Home[v] = Home[w] /\ worker[v].shared
             THEN [worker[v] EXCEPT !.shared = FALSE, !.own = mem[Home[w]]]
             ELSE worker[v]]

start(w) ==
    /\ worker[w].pc = "idle"
    /\ mem[Home[w]].status # "ABSENT"
    /\ \E m \in Started[w] :
          worker' = [worker EXCEPT ![w].mode = m, ![w].pc = "ready"]
    /\ UNCHANGED <<disk, mem, fresh, github, validated, lapsed>>

Step(w) == IF worker[w].mode \in FlowModes THEN FlowSteps[worker[w].pos]
           ELSE worker[w].mode

(* A step is over without success: the supervisor calls it again, the      *)
(* orchestrator and the scripts give up.                                   *)
Failed(w) ==
    IF w \in Supervised
    THEN [IdleWorker EXCEPT !.mode = "flow", !.pos = worker[w].pos,
                            !.pc = "ready"]
    ELSE IdleWorker

claim_agent_task_for_worker(w) ==
    /\ worker[w].pc = "ready"
    /\ Step(w) # "workspace"
    /\ Eligible(disk)
    /\ disk' = [disk EXCEPT !.lease = w]
    /\ mem' = [mem EXCEPT ![Home[w]] =
                 [disk EXCEPT !.lease = w, !.retries = mem[Home[w]].retries]]
    /\ fresh' = fresh \cup {w}
    /\ lapsed' = lapsed \ {w}
    /\ worker' = Replaced(w, [worker[w] EXCEPT !.pc = "claimed", !.shared = TRUE,
                                               !.done = 0])
    /\ UNCHANGED <<github, validated>>

(* The orchestrator and the supervisor record the failure and persist.     *)
claim_refused(w) ==
    /\ worker[w].pc = "ready"
    /\ Step(w) # "workspace"
    /\ ~Eligible(disk)
    /\ worker' = [worker EXCEPT ![w] = Failed(w)]
    /\ disk' = IF worker[w].mode \in FlowModes THEN mem[Home[w]] ELSE disk
    /\ UNCHANGED <<mem, fresh, github, validated, lapsed>>

(* A lease runs out: worker_lease_expires_at has passed.                   *)
Expire(w) ==
    /\ w \in fresh
    /\ fresh' = fresh \ {w}
    /\ lapsed' = lapsed \cup {w}
    /\ UNCHANGED <<disk, mem, worker, github, validated>>

-----------------------------------------------------------------------------
(* The steps of a worker                                                   *)

release_task(w, task) ==
    IF task.lease # w THEN task ELSE [task EXCEPT !.lease = NoLease]

(* The end of a step: the worker's object gets its status and is released, *)
(* the process's store is persisted.                                       *)
Finish(w, status, r) ==
    LET task == release_task(w, [Held(w) EXCEPT !.status = status])
        stored == IF worker[w].shared THEN task ELSE mem[Home[w]]
    IN  /\ mem' = [mem EXCEPT ![Home[w]] = stored]
        /\ disk' = stored
        /\ worker' = [worker EXCEPT ![w] = r]
        /\ UNCHANGED <<fresh, lapsed>>

(* A step has succeeded: the flow goes on, the script of one step ends.    *)
Returned(w) ==
    IF worker[w].mode \in FlowModes
    THEN [worker[w] EXCEPT !.pc = "returned", !.shared = FALSE,
                           !.own = AbsentTask, !.done = 0]
    ELSE IdleWorker

(* GitHub creates a branch only once; its answer may be lost.              *)
create_branch(w) ==
    /\ worker[w].pc = "claimed" /\ Step(w) = "branch"
    /\ ~github.branch
    /\ github' = [github EXCEPT !.branch = TRUE]
    /\ worker' = [worker EXCEPT ![w].pc = "applied"]
    /\ UNCHANGED <<disk, mem, fresh, validated, lapsed>>

(* A file that exists is not created, one that does not exist is neither   *)
(* updated nor deleted.                                                    *)
file_change_applies(i) ==
    ChangeType[i] \in {"create", "delete"} => i \notin github.files

apply_file_change(w) ==
    LET i == worker[w].done + 1
    IN  /\ worker[w].pc = "claimed" /\ Step(w) = "files"
        /\ github.branch
        /\ i <= FileCount
        /\ file_change_applies(i)
        /\ github' = [github EXCEPT !.files = @ \cup {i}]
        /\ worker' = [worker EXCEPT ![w].done = i,
                                    ![w].pc = IF i = FileCount THEN "applied"
                                              ELSE "claimed"]
        /\ UNCHANGED <<disk, mem, fresh, validated, lapsed>>

create_pull_request(w) ==
    /\ worker[w].pc = "claimed" /\ Step(w) = "pr"
    /\ github.branch /\ github.pr = "none"
    /\ github' = [github EXCEPT !.pr = worker[w].mode]
    /\ worker' = [worker EXCEPT ![w].pc = "applied"]
    /\ UNCHANGED <<disk, mem, fresh, validated, lapsed>>

(* TESTS_STARTED: the task is TESTING, in memory only.                     *)
start_validation(w) ==
    /\ worker[w].pc = "claimed" /\ Step(w) = "validate"
    /\ IF worker[w].shared
       THEN /\ mem' = [mem EXCEPT ![Home[w]].status = "TESTING"]
            /\ worker' = [worker EXCEPT ![w].pc = "applied"]
       ELSE /\ worker' = [worker EXCEPT ![w].pc = "applied",
                                        ![w].own.status = "TESTING"]
            /\ UNCHANGED mem
    /\ UNCHANGED <<disk, fresh, github, validated, lapsed>>

(* The branch or the files are there and the answer came: an event, the    *)
(* status unchanged.                                                       *)
finish_branch(w) ==
    /\ worker[w].pc = "applied" /\ Step(w) = "branch"
    /\ Finish(w, Held(w).status, Returned(w))
    /\ UNCHANGED <<github, validated>>

finish_files(w) ==
    /\ worker[w].pc = "applied" /\ Step(w) = "files"
    /\ Finish(w, Held(w).status, Returned(w))
    /\ UNCHANGED <<github, validated>>

finish_pull_request(w) ==
    /\ worker[w].pc = "applied" /\ Step(w) = "pr"
    /\ Finish(w, "READY_FOR_PR", Returned(w))
    /\ UNCHANGED <<github, validated>>

(* What the commands of the plan come to: all exit with 0, or one does     *)
(* not, times out or has no container to run in.                           *)
execute_validation_command == BOOLEAN

(* The commands passed; it counts when every file change is on the branch. *)
ValidatedBy(w) ==
    IF github.files = 1..FileCount
    THEN validated \cup {Place(worker[w].mode)} ELSE validated

FinishValidationAnyway(w) ==
    /\ worker[w].pc = "applied" /\ Step(w) = "validate"
    /\ \E passed \in execute_validation_command :
          /\ Finish(w, IF passed THEN "APPROVED" ELSE "FAILED", Returned(w))
          /\ validated' = IF passed THEN ValidatedBy(w) ELSE validated
    /\ UNCHANGED github
finish_validation(w) ==
    /\ worker[w].pc = "applied" /\ Step(w) = "validate"
    /\ \E passed \in execute_validation_command :
          /\ Finish(w, IF passed THEN "APPROVED" ELSE "FAILED",
                    IF passed THEN Returned(w) ELSE Failed(w))
          /\ validated' = IF passed THEN ValidatedBy(w) ELSE validated
    /\ UNCHANGED github

(* The plan was refused or GitHub raised, before or after it acted: the    *)
(* lease is released and the status stays.  The repository may be changed  *)
(* in part.                                                                *)
fail_step(w) ==
    /\ \/ worker[w].pc = "claimed" /\ Step(w) \in {"branch", "files", "validate", "pr", "plan"}
       \/ worker[w].pc = "applied" /\ Step(w) \in {"branch", "files", "pr"}
    /\ Finish(w, Held(w).status, Failed(w))
    /\ UNCHANGED <<github, validated>>

(* An exception no step catches: no GitHub token is configured, or a       *)
(* validation command cannot be started.  The lease stays, and so does     *)
(* TESTING.                                                                *)
step_raised(w) ==
    /\ \/ worker[w].pc = "claimed" /\ Step(w) \in {"branch", "files", "pr"}
       \/ worker[w].pc = "applied" /\ Step(w) = "validate"
    /\ worker' = [worker EXCEPT ![w] = Failed(w)]
    /\ UNCHANGED <<disk, mem, fresh, github, validated, lapsed>>

(* The planning scripts check the plan they are named for, record it as an *)
(* event and give the task back; a plan that is refused is fail_step.      *)
record_plan(w) ==
    /\ worker[w].pc = "claimed" /\ Step(w) = "plan"
    /\ Finish(w, Held(w).status, IdleWorker)
    /\ UNCHANGED <<github, validated>>
run_branch_plan(w) == record_plan(w)
run_file_plan(w) == record_plan(w)
run_validation_plan(w) == record_plan(w)
run_container_plan(w) == record_plan(w)

(* The dry run plays the lifecycle to DONE without touching the            *)
(* repository.                                                             *)
run_agent_worker_dry_run(w) ==
    /\ worker[w].pc = "claimed" /\ Step(w) = "dry"
    /\ Finish(w, "DONE", IdleWorker)
    /\ UNCHANGED <<github, validated>>

(* The clone of the branch for the validation commands, unless the caller  *)
(* wants none (it then needs a directory for the container); no claim.     *)
prepare_workspace(w) ==
    /\ worker[w].pc = "ready" /\ Step(w) = "workspace"
    /\ \/ /\ worker[w].mode = "flow" => github.branch
          /\ worker' = [worker EXCEPT ![w] = Returned(w)]
          /\ UNCHANGED disk
       \/ /\ worker' = [worker EXCEPT ![w] = Failed(w)]
          /\ disk' = mem[Home[w]]
    /\ UNCHANGED <<mem, fresh, github, validated, lapsed>>

(* The caller takes the result and goes on with the next step; after the   *)
(* last one it writes its summary.                                         *)
NextStepPast(w) ==
    /\ worker[w].pc = "returned"
    /\ worker' = [worker EXCEPT ![w].pos = @ + 1, ![w].pc = "ready"]
    /\ UNCHANGED <<disk, mem, fresh, github, validated, lapsed>>
next_step(w) ==
    /\ worker[w].pc = "returned"
    /\ worker' = IF worker[w].pos = 5 THEN [worker EXCEPT ![w] = IdleWorker]
                 ELSE [worker EXCEPT ![w].pos = @ + 1, ![w].pc = "ready"]
    /\ disk' = IF worker[w].pos = 5 THEN mem[Home[w]] ELSE disk
    /\ UNCHANGED <<mem, fresh, github, validated, lapsed>>

(* A process dies and starts again from the database; a run goes on with   *)
(* the step whose result it had not recorded.                              *)
crash(p) ==
    /\ mem' = [mem EXCEPT ![p] = disk]
    /\ worker' = [w \in Workers |->
                    IF Home[w] # p \/ worker[w].pc = "idle" THEN worker[w]
                    ELSE Failed(w)]
    /\ UNCHANGED <<disk, fresh, github, validated, lapsed>>

-----------------------------------------------------------------------------
Operator ==
    \/ create_agent_task \/ create_agent_task_approval
    \/ propagate_approval_decision \/ append_agent_task_event
    \/ create_external_agent_task \/ append_agent_owned_task_event
    \/ cancel_agent_task \/ retry_agent_task \/ persist

WorkerStep(w) ==
    \/ start(w) \/ claim_agent_task_for_worker(w) \/ claim_refused(w)
    \/ create_branch(w) \/ apply_file_change(w) \/ create_pull_request(w)
    \/ start_validation(w) \/ finish_branch(w) \/ finish_files(w)
    \/ finish_pull_request(w) \/ finish_validation(w) \/ fail_step(w)
    \/ step_raised(w) \/ prepare_workspace(w) \/ next_step(w)
    \/ run_branch_plan(w) \/ run_file_plan(w) \/ run_validation_plan(w)
    \/ run_container_plan(w) \/ run_agent_worker_dry_run(w)

Next ==
    \/ Operator
    \/ \E w \in Workers : WorkerStep(w) \/ Expire(w)
    \/ \E p \in Procs : crash(p)

Spec == Init /\ [][Next]_vars

-----------------------------------------------------------------------------
(* Properties                                                              *)

(* Every variable has its type.                                            *)
TypeOK ==
    /\ disk \in AgentTask
    /\ mem \in [Procs -> AgentTask]
    /\ worker \in [Workers -> WorkerRecord]
    /\ fresh \subseteq Workers
    /\ github \in [branch : BOOLEAN, files : SUBSET (1..FileCount),
                   pr : Modes \cup {"none"}]
    /\ validated \subseteq Places
    /\ lapsed \subseteq Workers

(* A pull request of the whole flow is opened only when every approved     *)
(* file change is on the branch and the validation commands passed with    *)
(* them, in a clone of the branch, or in the caller's directory if it      *)
(* asked for no workspace; whatever steps failed, were repeated, lost      *)
(* their answer or were run by scripts before (the order of                *)
(* run_approved_agent_task_worker_flow and of the run's steps).  One of    *)
(* the single-step script run_agent_worker_github_pr_creation stands for   *)
(* the branch alone.                                                       *)
PullRequestComplete ==
    /\ github.pr # "none" => github.branch
    /\ github.pr \in FlowModes =>
          github.files = 1..FileCount /\ Place(github.pr) \in validated

(* Two workers are inside a step at the same time only if one of the       *)
(* leases expired or an operator cleared it: claims and whole-store writes *)
(* of one process do not undo each other (claim_agent_task_for_worker).    *)
OneLiveClaim ==
    \A v, w \in Workers :
        (/\ worker[v].pc \in {"claimed", "applied"}
         /\ worker[w].pc \in {"claimed", "applied"}
         /\ v \notin lapsed /\ w \notin lapsed) => v = w

(* A worker whose lease was taken over by another one of its process can   *)
(* no longer change the task in the store, whatever it still finishes: the *)
(* claim of the other one replaced the object.                             *)
SupersededIsHarmless ==
    [][\A w \in Workers :
          (/\ worker[w].pc \in {"claimed", "applied"}
           /\ mem[Home[w]].lease \in Workers \ {w}
           /\ WorkerStep(w))
          => mem'[Home[w]] = mem[Home[w]]]_vars

(* An operator's stop stands: once it is saved, no step of a worker takes  *)
(* a cancelled or denied task out of that status                           *)
(* (append_cancel_requested_event and                                      *)
(* propagate_approval_decision_to_agent_task against the steps that set a  *)
(* status at their end).                                                   *)
OperatorStopStands ==
    [][\A w \in Workers :
          (/\ mem[Api].status \in {"CANCELLED", "DENIED"}
           /\ disk.status = mem[Api].status
           /\ WorkerStep(w))
          => mem'[Api].status = mem[Api].status]_vars
=============================================================================
