--------------------------- MODULE ApprovalSystem ---------------------------
(***************************************************************************)
(* An approval request and the two parts of the program that act on it:    *)
(* the GitHub runner and the MCP gateway.  Both go by its status, and      *)
(* neither looks at who asked for the approval, so a tool call's approval  *)
(* can be executed on GitHub as well.                                      *)
(***************************************************************************)
EXTENDS GithubRunner, McpGateway

vars == <<approval, exec, github, decided, interrupted, gatewayVars>>
runnerVars == <<exec, github, decided, interrupted>>

Init == InitApproval /\ InitRunner /\ InitGateway

(* POST /approvals and POST /agents/approvals.                             *)
Create ==
    /\ \E p \in Payloads, open \in {"REQUESTED", "PENDING_REVIEW"} :
          create_approval_request(p, open)
    /\ UNCHANGED <<runnerVars, gatewayVars>>

Decide ==
    /\ \E decision \in {"approve", "deny", "revise"} : decide_approval(decision)
    /\ NoteDecision
    /\ UNCHANGED gatewayVars

Submit == submit_tool_call /\ UNCHANGED runnerVars

Execute ==
    /\ \E e \in Executors : ExecutorStep(e)
    /\ UNCHANGED gatewayVars

Registry ==
    /\ enable_child_server \/ disable_child_server
    /\ UNCHANGED <<approval, runnerVars>>

Resolve ==
    /\ (\E r \in Resolvers : ResolverStep(r)) \/ expire_pending_lease
    /\ UNCHANGED runnerVars

(* Every handler has persisted what it changed when it waits for another   *)
(* system, so a restart finds the same approval and the same request.      *)
Crash == StopExecutions /\ StopResolvers /\ UNCHANGED approval

Next == Create \/ Decide \/ Submit \/ Execute \/ Registry \/ Resolve \/ Crash

(* A request to GitHub ends with an answer, an error or the timeout of     *)
(* 30 seconds: an execution that has begun goes on.                        *)
Fairness ==
    \A e \in Executors : WF_vars(Execution(e) /\ UNCHANGED gatewayVars)

Spec == Init /\ [][Next]_vars /\ Fairness

-----------------------------------------------------------------------------
(* Properties                                                              *)

(* Every variable has its type.                                            *)
TypeOK == ApprovalOK /\ RunnerOK /\ GatewayOK

(* Nothing is written to GitHub that the risk engine would have stopped,   *)
(* with one exception: no protected branch, no file without a diff, no     *)
(* critical or high path without a test plan and a rollback plan, whatever *)
(* the order of the files and of the decisions, and no blocked path unless *)
(* the approval is the gateway's own, which the risk engine never sees and *)
(* whose path is made of names the client chose (assess_approval_request,  *)
(* decide_approval, _validate_execution, _create_approval_request).        *)
ExecutedIsSafe ==
    github.branch =>
        LET p == approval.payload
            paths == {p.files[i].path : i \in DOMAIN p.files}
        IN  /\ p.branch = "feature"
            /\ "blocked" \in paths => pending.status # "ABSENT"
            /\ \A i \in DOMAIN p.files : p.files[i].diff
            /\ paths \cap {"critical", "high"} # {} => p.test_plan /\ p.rollback_plan

(* READY_FOR_PR is the truth: every file is on the branch and the pull     *)
(* request is open, whatever executions overlapped, failed or were         *)
(* repeated before (execute_github_change).                                *)
ReadyIsComplete ==
    approval.status = "READY_FOR_PR" =>
        github.branch /\ github.files = 1..FileCount /\ github.pr

(* Two executions of an approval overlap only if a reviewer decided it     *)
(* again while the first was under way: the checks of                      *)
(* execute_github_change and EXECUTING come without an await between them. *)
OverlapNeedsDecision ==
    \A e, f \in Executors :
        (e # f /\ Executing(e) /\ Executing(f)) => decided

(* The runner moves an approval along VALID_TRANSITIONS of                 *)
(* approval_lifecycle.py, though it never consults them, unless a decision *)
(* overtook the execution.                                                 *)
RunnerFollowsLifecycle ==
    [][(\E e \in Executors : ExecutorStep(e)) /\ ~decided
          => \/ approval'.status = approval.status
             \/ can_transition(approval.status, approval'.status)]_vars

(* An approval does not stay EXECUTING: the execution sets another status, *)
(* unless the process died during one.                                     *)
ExecutionConcludes ==
    approval.status = "EXECUTING" ~> (approval.status # "EXECUTING" \/ interrupted)

(* The child receives a held call only if a reviewer approved exactly that *)
(* call before (resolve_after_side_channel_decision).                      *)
ReceivedWasApproved ==
    received > 0 => /\ approval.payload \in ToolCalls
                    /\ approval.approved_payload_hash = approval.payload

(* The child receives a call again only if it refused an earlier attempt,  *)
(* an earlier attempt ended without its answer, or two requests about the  *)
(* call, resolutions or an operator's retry, overlapped: never because of  *)
(* a restart, an expired lease or a retry alone                            *)
(* (_handle_forward_failure, retry_pending_gateway_request).               *)
RepeatHasCause == received > 1 => unsettled # {} \/ overlapped

(* No approved call is lost: ORPHANED comes only from threads that were at *)
(* it at the same time, never from a restart, a retry or an expired lease  *)
(* alone (_recover_pending_call).                                          *)
OrphanNeedsOverlap == pending.status = "ORPHANED" => overlapped

(* "The gateway resolve endpoint forwards the approved request exactly     *)
(* once" (docs/MCP_APPROVAL_DEMO_RUNBOOK.md).                              *)
ForwardedOnce == received <= 1
=============================================================================
