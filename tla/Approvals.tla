------------------------------ MODULE Approvals ------------------------------
(***************************************************************************)
(* One approval request: how its risk is assessed, how it is created and   *)
(* how reviewers decide it (backend/app/risk_engine.py, main.py,           *)
(* agent_routes.py, approval_integrity.py).  GithubRunner and McpGateway   *)
(* act on what this module decides; ApprovalSystem composes the three.     *)
(*                                                                         *)
(* A path is one of the classes the risk engine tells apart, a hash is the *)
(* payload it is computed from (SHA-256 is taken as injective).            *)
(***************************************************************************)
EXTENDS Naturals, SequencesExt

CONSTANTS
    Payloads,   \* what clients ask approval for
    ToolCalls,  \* what the MCP gateway asks approval for
    NoPayload

PathClass == {"blocked", "critical", "high", "low", "other"}
Payload ==
    [branch : {"feature", "protected"},
     files  : Seq([path : PathClass, diff : BOOLEAN, new_content : BOOLEAN]),
     test_plan : BOOLEAN, rollback_plan : BOOLEAN]
RiskLevels == <<"LOW", "MEDIUM", "HIGH", "CRITICAL">>

ASSUME PayloadAssumption ==
    /\ Payloads \cup ToolCalls \subseteq Payload
    /\ NoPayload \notin Payloads \cup ToolCalls

(* _create_approval_request of the gateway: a branch below mcp-gateway/,   *)
(* one file with a diff and both plans.  Its path is mcp://, the name of   *)
(* the server and that of the tool, which the client chooses: it may be of *)
(* any class, a blocked one included.                                      *)
ASSUME ToolCallAssumption ==
    \A call \in ToolCalls :
        /\ call.branch = "feature" /\ call.test_plan /\ call.rollback_plan
        /\ Len(call.files) = 1 /\ call.files[1].diff

ApprovalStatus ==
    {"REQUESTED", "PENDING_REVIEW", "BLOCKED", "APPROVED", "DENIED",
     "REVISION_REQUESTED", "EXECUTING", "READY_FOR_PR", "FAILED"}

VARIABLE approval

AbsentApproval ==
    [status |-> "ABSENT", payload |-> NoPayload,
     risk |-> [level |-> "LOW", blocked |-> FALSE, required_actions |-> FALSE],
     approved_payload_hash |-> NoPayload]

InitApproval == approval = AbsentApproval

-----------------------------------------------------------------------------
(* The risk engine                                                         *)

(* Mutant: the level of the last file wins.                                *)
LevelOfLast(highest, file) ==
    CASE file.path = "critical" -> 4
      [] file.path = "high" -> 3
      [] file.path = "low" -> 1
      [] OTHER -> 2

(* One round of the loop over the files; highest indexes RiskLevels.       *)
RaiseLevel(highest, file) ==
    CASE file.path = "critical" -> 4
      [] file.path = "high" /\ highest # 4 -> 3
      [] file.path \notin {"critical", "high", "low"} /\ highest = 1 -> 2
      [] OTHER -> highest

RefusedOutright(p) ==
    \/ p.branch = "protected"
    \/ p.files = << >>
    \/ \E i \in DOMAIN p.files : p.files[i].path = "blocked" \/ ~p.files[i].diff

assess_approval_request(p) ==
    LET highest == FoldLeft(RaiseLevel, 1, p.files)
    IN  IF RefusedOutright(p)
        THEN [level |-> "BLOCKED", blocked |-> TRUE, required_actions |-> TRUE]
        ELSE [level |-> RiskLevels[highest], blocked |-> FALSE,
              required_actions |->
                 highest >= 3 /\ ~(p.test_plan /\ p.rollback_plan)]

-----------------------------------------------------------------------------
(* Creation and decisions                                                  *)

(* open is the status of a request that is not blocked: REQUESTED from a   *)
(* maintainer, PENDING_REVIEW from an external agent.                      *)
create_approval_request(p, open) ==
    /\ approval.status = "ABSENT"
    /\ LET risk == assess_approval_request(p)
       IN  approval' = [AbsentApproval EXCEPT
                          !.status = IF risk.blocked THEN "BLOCKED" ELSE open,
                          !.payload = p, !.risk = risk]

compute_approval_payload_hash(a) == a.payload

(* A blocked request is refused, and an approval while required actions    *)
(* are open; no other status is looked at.                                 *)
decide_approval(decision) ==
    /\ approval.status \notin {"ABSENT", "BLOCKED"}
    /\ \/ /\ decision = "approve"
          /\ ~approval.risk.required_actions
          /\ approval' = [approval EXCEPT !.status = "APPROVED",
                             !.approved_payload_hash =
                                compute_approval_payload_hash(approval)]
       \/ /\ decision = "deny"
          /\ approval' = [approval EXCEPT !.status = "DENIED"]
       \/ /\ decision = "revise"
          /\ approval' = [approval EXCEPT !.status = "REVISION_REQUESTED"]

ApprovalOK ==
    /\ approval.status \in ApprovalStatus \cup {"ABSENT"}
    /\ approval.payload \in Payloads \cup ToolCalls \cup {NoPayload}
    /\ approval.approved_payload_hash \in Payloads \cup ToolCalls \cup {NoPayload}
    /\ approval.risk.level \in Range(RiskLevels) \cup {"BLOCKED"}
=============================================================================
