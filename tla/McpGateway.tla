----------------------------- MODULE McpGateway -----------------------------
(***************************************************************************)
(* One mutating tool call held back by the MCP gateway until its approval  *)
(* is decided (backend/app/mcp_gateway.py, mcp_gateway_routes.py,          *)
(* mcp_transport_routes.py), and the child server it is for                *)
(* (mcp_registry_routes.py, mcp_child_router.py).  The handlers are        *)
(* synchronous functions that the server runs in a thread pool, so two     *)
(* resolve requests interleave between any two of their steps.             *)
(***************************************************************************)
EXTENDS Approvals

CONSTANTS
    Resolvers,    \* threads that resolve a call or retry it
    MaxAttempts,  \* pending.max_attempts
    AttemptBound  \* bound: attempts counted

ASSUME AttemptAssumption ==
    MaxAttempts \in Nat \ {0} /\ AttemptBound \in Nat /\ AttemptBound >= MaxAttempts

VARIABLES
    pending,     \* the MCPPendingRequest
    held,        \* the call is in _pending_calls of the gateway object
    resolver,    \* where each resolving thread is
    server,      \* the child server in the registry
    received,    \* calls that reached the child server: 0, 1, 2 for more
    unsettled,   \* how attempts ended that the child did not accept (history)
    overlapped   \* two threads were at the call at the same time (history)

gatewayHistory == <<unsettled, overlapped>>
gatewayVars == <<pending, held, resolver, server, received, unsettled, overlapped>>

(* A call that reached the child ends without success: the child answered  *)
(* with an error or {"ok": false}, or no answer came.                      *)
Endings == {"refused", "unanswered"}

MCPPendingStatus ==
    {"WAITING_FOR_APPROVAL", "FORWARDING", "FORWARDED", "BLOCKED_BY_DECISION",
     "ORPHANED", "DEAD_LETTER"}
FINAL_PENDING_STATUSES ==
    {"FORWARDED", "BLOCKED_BY_DECISION", "ORPHANED", "DEAD_LETTER"}

(* A server is registered enabled or disabled, before anything is asked of *)
(* it.                                                                     *)
register_child_server == {"enabled", "disabled"}

InitGateway ==
    /\ pending = [status |-> "ABSENT", attempts |-> 0, lease |-> "none"]
    /\ held = FALSE
    /\ resolver = [r \in Resolvers |-> "idle"]
    /\ server \in register_child_server
    /\ received = 0
    /\ unsettled = {}
    /\ overlapped = FALSE

-----------------------------------------------------------------------------
(* The registry of child servers                                           *)

enable_child_server ==
    /\ server = "disabled"
    /\ server' = "enabled"
    /\ UNCHANGED <<pending, held, resolver, received, gatewayHistory>>

disable_child_server ==
    /\ server = "enabled"
    /\ server' = "disabled"
    /\ UNCHANGED <<pending, held, resolver, received, gatewayHistory>>

-----------------------------------------------------------------------------
(* Submission: the approval and the pending request are stored together.   *)

(* The gateway does not ask the risk engine: HIGH, never blocked.          *)
create_gateway_approval(call) ==
    /\ approval.status = "ABSENT"
    /\ approval' = [AbsentApproval EXCEPT !.status = "REQUESTED",
                                          !.payload = call,
                                          !.risk.level = "HIGH"]

submit_tool_call ==
    /\ \E call \in ToolCalls : create_gateway_approval(call)
    /\ pending' = [status |-> "WAITING_FOR_APPROVAL", attempts |-> 0, lease |-> "none"]
    /\ held' = TRUE
    /\ UNCHANGED <<resolver, server, received, gatewayHistory>>

-----------------------------------------------------------------------------
(* Resolution by thread r                                                  *)

Idle(r) == resolver' = [resolver EXCEPT ![r] = "idle"]
Goto_(r, pc) == resolver' = [resolver EXCEPT ![r] = pc]
Resolving == \E r \in Resolvers : resolver[r] # "idle"

(* _mark_pending_status: a final status stays.                             *)
Marked(p, status) ==
    IF p.status \in FINAL_PENDING_STATUSES THEN p
    ELSE [p EXCEPT !.status = status,
                   !.lease = IF status \in FINAL_PENDING_STATUSES THEN "none" ELSE @]

ActiveLease(p) == p.status = "FORWARDING" /\ p.lease = "live"
(* A forwarding request whose lease ran out waits again.                   *)
Reopened(p) ==
    IF p.status = "FORWARDING"
    THEN [p EXCEPT !.status = "WAITING_FOR_APPROVAL", !.lease = "none"] ELSE p

(* Mutant: the gateway trusts whoever asks it to resolve.                  *)
ResolveUnasked(r) ==
    /\ resolver[r] = "idle" /\ pending.status # "ABSENT" /\ ~ActiveLease(pending)
    /\ IF pending.status \in FINAL_PENDING_STATUSES
       THEN held' = FALSE /\ UNCHANGED <<pending, resolver>>
       ELSE /\ pending' = Reopened(pending)
            /\ Goto_(r, "take")
            /\ UNCHANGED held
    /\ overlapped' = (overlapped \/ Resolving)
    /\ UNCHANGED <<approval, server, received, unsettled>>

(* The checks up to the payload hash.  A request that is not approved, be  *)
(* it undecided, is closed.                                                *)
resolve_after_side_channel_decision(r) ==
    /\ resolver[r] = "idle" /\ pending.status # "ABSENT" /\ ~ActiveLease(pending)
    /\ IF pending.status \in FINAL_PENDING_STATUSES
       THEN held' = FALSE /\ UNCHANGED <<pending, resolver>>
       ELSE IF approval.status # "APPROVED"
       THEN /\ pending' = Marked(Reopened(pending), "BLOCKED_BY_DECISION")
            /\ UNCHANGED <<held, resolver>>
       ELSE /\ pending' = Reopened(pending)
            /\ IF approval.approved_payload_hash = compute_approval_payload_hash(approval)
               THEN Goto_(r, "take") ELSE UNCHANGED resolver
            /\ UNCHANGED held
    /\ overlapped' = (overlapped \/ Resolving)
    /\ UNCHANGED <<approval, server, received, unsettled>>

(* Mutant: a call the gateway object does not hold is given up.            *)
TakeHeldOnly(r) ==
    /\ resolver[r] = "take"
    /\ IF held
       THEN held' = FALSE /\ Goto_(r, "lease") /\ UNCHANGED pending
       ELSE pending' = Marked(pending, "ORPHANED") /\ Idle(r) /\ UNCHANGED held
    /\ UNCHANGED <<approval, server, received, gatewayHistory>>

(* The call from memory, or else from the pending request while it waits.  *)
recover_pending_call(r) ==
    /\ resolver[r] = "take"
    /\ IF held \/ pending.status = "WAITING_FOR_APPROVAL"
       THEN held' = FALSE /\ Goto_(r, "lease") /\ UNCHANGED pending
       ELSE pending' = Marked(pending, "ORPHANED") /\ Idle(r) /\ UNCHANGED held
    /\ UNCHANGED <<approval, server, received, gatewayHistory>>

(* The test and the assignment of _acquire_pending_lease: no lock holds    *)
(* them together.                                                          *)
check_pending_lease(r) ==
    /\ resolver[r] = "lease"
    /\ IF ActiveLease(pending)
          \/ pending.status \notin {"WAITING_FOR_APPROVAL", "FORWARDING"}
       THEN Idle(r) ELSE Goto_(r, "acquire")
    /\ UNCHANGED <<approval, pending, held, server, received, gatewayHistory>>

acquire_pending_lease(r) ==
    /\ resolver[r] = "acquire"
    /\ pending.attempts < AttemptBound
    /\ pending' = [status |-> "FORWARDING", attempts |-> pending.attempts + 1,
                   lease |-> "live"]
    /\ Goto_(r, "forward")
    /\ UNCHANGED <<approval, held, server, received, gatewayHistory>>

(* call_tool of the router: an unknown or disabled server is replaced by   *)
(* the in-memory test server, which accepts everything.                   *)
call_tool(r) ==
    /\ resolver[r] = "forward"
    /\ IF server = "enabled"
       THEN /\ received' = IF received = 2 THEN 2 ELSE received + 1
            /\ Goto_(r, "sent")
       ELSE Goto_(r, "answered") /\ UNCHANGED received
    /\ UNCHANGED <<approval, pending, held, server, gatewayHistory>>

(* Mutant: the answer of the child leaves the request waiting.             *)
LeaveWaiting(r) ==
    /\ resolver[r] \in {"sent", "answered"}
    /\ pending' = [pending EXCEPT !.status = "WAITING_FOR_APPROVAL", !.lease = "none"]
    /\ Idle(r)
    /\ UNCHANGED <<approval, held, server, received, gatewayHistory>>

forwarded_after_approval(r) ==
    /\ resolver[r] \in {"sent", "answered"}
    /\ pending' = Marked(pending, "FORWARDED")
    /\ Idle(r)
    /\ UNCHANGED <<approval, held, server, received, gatewayHistory>>

(* The child could not be reached, it refused, or its answer was lost: all *)
(* three come back as a result with an error, and the call waits again.    *)
handle_forward_failure(r) ==
    /\ resolver[r] \in {"forward", "sent"}
    /\ pending' = [pending EXCEPT
                     !.status = IF pending.attempts >= MaxAttempts
                                THEN "DEAD_LETTER" ELSE "WAITING_FOR_APPROVAL",
                     !.lease = "none"]
    /\ IF resolver[r] = "sent"
       THEN \E ending \in Endings : unsettled' = unsettled \cup {ending}
       ELSE UNCHANGED unsettled
    /\ Idle(r)
    /\ UNCHANGED <<approval, held, server, received, overlapped>>

(* An exception that call_tool does not turn into a result (a read that    *)
(* times out): the lease stays until it expires.                           *)
forward_raised(r) ==
    /\ resolver[r] \in {"forward", "sent"}
    /\ unsettled' = IF resolver[r] = "sent" THEN unsettled \cup {"unanswered"}
                    ELSE unsettled
    /\ Idle(r)
    /\ UNCHANGED <<approval, pending, held, server, received, overlapped>>

-----------------------------------------------------------------------------
(* Recovery                                                                *)

(* The operator's retry: the checks, and the assignments after them, which *)
(* no lock holds together either.                                          *)
check_retry(r) ==
    /\ resolver[r] = "idle"
    /\ pending.status \in {"WAITING_FOR_APPROVAL", "FORWARDING", "DEAD_LETTER"}
    /\ ~ActiveLease(pending)
    /\ Goto_(r, "retry")
    /\ overlapped' = (overlapped \/ Resolving)
    /\ UNCHANGED <<approval, pending, held, server, received, unsettled>>

retry_pending_gateway_request(r) ==
    /\ resolver[r] = "retry"
    /\ \E reset \in BOOLEAN :
          pending' = [status |-> "WAITING_FOR_APPROVAL", lease |-> "none",
                      attempts |-> IF reset THEN 0 ELSE pending.attempts]
    /\ Idle(r)
    /\ UNCHANGED <<approval, held, server, received, gatewayHistory>>

ResolverStep(r) ==
    \/ resolve_after_side_channel_decision(r) \/ recover_pending_call(r)
    \/ check_pending_lease(r) \/ acquire_pending_lease(r) \/ call_tool(r)
    \/ forwarded_after_approval(r) \/ handle_forward_failure(r)
    \/ forward_raised(r) \/ check_retry(r) \/ retry_pending_gateway_request(r)

(* lease_expires_at passes.                                                *)
expire_pending_lease ==
    /\ ActiveLease(pending)
    /\ pending' = [pending EXCEPT !.lease = "expired"]
    /\ UNCHANGED <<approval, held, resolver, server, received, gatewayHistory>>

(* A crash of the process loses _pending_calls and the threads.            *)
StopResolvers ==
    /\ held' = FALSE
    /\ resolver' = [r \in Resolvers |-> "idle"]
    /\ unsettled' = IF \E r \in Resolvers : resolver[r] = "sent"
                    THEN unsettled \cup {"unanswered"} ELSE unsettled
    /\ UNCHANGED <<pending, server, received, overlapped>>

GatewayOK ==
    /\ pending \in [status : MCPPendingStatus \cup {"ABSENT"},
                    attempts : 0..AttemptBound,
                    lease : {"none", "live", "expired"}]
    /\ held \in BOOLEAN
    /\ resolver \in [Resolvers -> {"idle", "take", "lease", "acquire", "forward",
                                   "sent", "answered", "retry"}]
    /\ server \in register_child_server
    /\ received \in 0..2
    /\ unsettled \subseteq Endings
=============================================================================
