---------------------------- MODULE GithubRunner ----------------------------
(***************************************************************************)
(* The execution of an approved change on GitHub                           *)
(* (backend/app/github_runner.py), with the table of statuses an approval  *)
(* may go through (approval_lifecycle.py).  execute_github_change is a     *)
(* coroutine: between two of its awaits other requests run, decisions on   *)
(* the same approval and other executions of it included.                  *)
(***************************************************************************)
EXTENDS Approvals

CONSTANTS
    Executors,     \* requests of execute_github_change that may overlap
    ToolExecutors  \* bound: those that name a tool call's approval

VARIABLES
    exec,        \* where each execution is and how many files it has put
    github,      \* the repository: feature branch, changed files, pull request
    decided,     \* a decision came while an execution was under way (history)
    interrupted  \* the process died during an execution (history)

ExecIdle == [pc |-> "idle", done |-> 0]
Executing(e) == exec[e].pc # "idle"

InitRunner ==
    /\ exec = [e \in Executors |-> ExecIdle]
    /\ github = [branch |-> FALSE, files |-> {}, pr |-> FALSE]
    /\ decided = FALSE
    /\ interrupted = FALSE

FileCount == Len(approval.payload.files)
runnerHistory == <<decided, interrupted>>

-----------------------------------------------------------------------------
(* approval_lifecycle.py                                                   *)

LEGACY_STATUS(s) == IF s = "PENDING_REVIEW" THEN "REQUESTED" ELSE s

(* The rows of the table whose statuses the program assigns.               *)
VALID_TRANSITIONS ==
    {<<"REQUESTED", "APPROVED">>, <<"REQUESTED", "DENIED">>,
     <<"APPROVED", "EXECUTING">>,
     <<"EXECUTING", "READY_FOR_PR">>, <<"EXECUTING", "FAILED">>,
     <<"READY_FOR_PR", "FAILED">>, <<"FAILED", "APPROVED">>,
     <<"REVISION_REQUESTED", "REQUESTED">>}

can_transition(previous, new) ==
    <<LEGACY_STATUS(previous), LEGACY_STATUS(new)>> \in VALID_TRANSITIONS

-----------------------------------------------------------------------------
(* One request of execute_github_change                                    *)

(* The checks that do not depend on the branch names of the request; those *)
(* name an unprotected feature branch.                                     *)
validate_execution ==
    /\ approval.status = "APPROVED"
    /\ ~approval.risk.blocked
    /\ approval.approved_payload_hash = compute_approval_payload_hash(approval)
    /\ approval.payload.files # << >>
    /\ \A i \in 1..FileCount : approval.payload.files[i].new_content

Goto(e, pc) == exec' = [exec EXCEPT ![e].pc = pc]

(* Mutant: the status is set when the pull request is open.                *)
StartSilently(e) ==
    /\ ~Executing(e)
    /\ approval.payload \in ToolCalls => e \in ToolExecutors
    /\ validate_execution
    /\ Goto(e, "branch")
    /\ decided' = (decided /\ \E f \in Executors : Executing(f))
    /\ UNCHANGED <<approval, github, interrupted>>

(* The checks and EXECUTING are one step: no await comes between them.     *)
execute_github_change(e) ==
    /\ ~Executing(e)
    /\ approval.payload \in ToolCalls => e \in ToolExecutors
    /\ validate_execution
    /\ approval' = [approval EXCEPT !.status = "EXECUTING"]
    /\ Goto(e, "branch")
    /\ decided' = (decided /\ \E f \in Executors : Executing(f))
    /\ UNCHANGED <<github, interrupted>>

(* GET of the base and of the feature branch; an existing one is reused.   *)
find_branch(e) ==
    /\ exec[e].pc = "branch"
    /\ Goto(e, IF github.branch THEN "files" ELSE "create")
    /\ UNCHANGED <<approval, github, runnerHistory>>

(* POST of the ref, which GitHub refuses if it exists by now.              *)
create_ref(e) ==
    /\ exec[e].pc = "create"
    /\ ~github.branch
    /\ github' = [github EXCEPT !.branch = TRUE]
    /\ Goto(e, "files")
    /\ UNCHANGED <<approval, runnerHistory>>

(* Mutant: the last file is left out.                                      *)
PutFileBeforeLast(e) ==
    LET i == exec[e].done + 1
    IN  /\ exec[e].pc = "files"
        /\ github' = [github EXCEPT !.files = @ \cup {i}]
        /\ exec' = [exec EXCEPT ![e] =
                      [pc |-> IF i + 1 >= FileCount THEN "pr" ELSE "files", done |-> i]]
        /\ UNCHANGED <<approval, runnerHistory>>

(* Mutant: the loop goes one file too far.                                 *)
PutFilePast(e) ==
    LET i == exec[e].done + 1
    IN  /\ exec[e].pc = "files"
        /\ github' = [github EXCEPT !.files = @ \cup {i}]
        /\ exec' = [exec EXCEPT ![e] =
                      [pc |-> IF i > FileCount THEN "pr" ELSE "files", done |-> i]]
        /\ UNCHANGED <<approval, runnerHistory>>

(* GET and PUT of the next file.                                           *)
put_file(e) ==
    LET i == exec[e].done + 1
    IN  /\ exec[e].pc = "files"
        /\ github' = [github EXCEPT !.files = @ \cup {i}]
        /\ exec' = [exec EXCEPT ![e] =
                      [pc |-> IF i = FileCount THEN "pr" ELSE "files", done |-> i]]
        /\ UNCHANGED <<approval, runnerHistory>>

(* POST of the pull request; GitHub keeps one per head branch.             *)
open_pull_request(e) ==
    /\ exec[e].pc = "pr"
    /\ ~github.pr
    /\ github' = [github EXCEPT !.pr = TRUE]
    /\ Goto(e, "opened")
    /\ UNCHANGED <<approval, runnerHistory>>

(* The answer to the POST arrived.                                         *)
finish_execution(e) ==
    /\ exec[e].pc = "opened"
    /\ approval' = [approval EXCEPT !.status = "READY_FOR_PR"]
    /\ exec' = [exec EXCEPT ![e] = ExecIdle]
    /\ UNCHANGED <<github, runnerHistory>>

(* Mutant: the handler raises without setting a status.                    *)
FailSilently(e) ==
    /\ Executing(e)
    /\ exec' = [exec EXCEPT ![e] = ExecIdle]
    /\ UNCHANGED <<approval, github, runnerHistory>>

(* GitHub refused, failed or did not answer in time, whether it had acted  *)
(* or not: except Exception.                                               *)
execution_failed(e) ==
    /\ Executing(e)
    /\ approval' = [approval EXCEPT !.status = "FAILED"]
    /\ exec' = [exec EXCEPT ![e] = ExecIdle]
    /\ UNCHANGED <<github, runnerHistory>>

Execution(e) ==
    \/ find_branch(e) \/ create_ref(e) \/ put_file(e) \/ open_pull_request(e)
    \/ finish_execution(e) \/ execution_failed(e)

ExecutorStep(e) == execute_github_change(e) \/ Execution(e)

(* What a decision and a crash of the process do to the history and to the *)
(* executions.                                                             *)
NoteDecision ==
    /\ decided' = (decided \/ \E e \in Executors : Executing(e))
    /\ UNCHANGED <<exec, github, interrupted>>
StopExecutions ==
    /\ exec' = [e \in Executors |-> ExecIdle]
    /\ interrupted' = (interrupted \/ \E e \in Executors : Executing(e))
    /\ UNCHANGED <<github, decided>>

RunnerOK ==
    /\ exec \in [Executors ->
                   [pc : {"idle", "branch", "create", "files", "pr", "opened"},
                    done : Nat]]
    /\ github.branch \in BOOLEAN /\ github.pr \in BOOLEAN
    /\ approval.payload # NoPayload => github.files \subseteq 1..FileCount
=============================================================================
