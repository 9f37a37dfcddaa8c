---------------------------- MODULE TrustControl ----------------------------
(***************************************************************************)
(* The agent trust control plane (backend/app/trust_service.py,            *)
(* trust_policy.py, trust_action_authorization.py, trust_consumption.py,   *)
(* trust_credentials.py) for one approval: reviewer attestations, signed   *)
(* capability leases with budgets, proposed actions and their policy       *)
(* decisions, human decisions on exact actions, consumption and credential *)
(* grants.                                                                 *)
(*                                                                         *)
(* Handlers run in a thread pool and hold no lock.  Three of them have a   *)
(* step of their own for what they do after their checks, so that others   *)
(* come in between: consume_effective_action reads the consumed budget,    *)
(* compares the projection and writes it back; issue_credential_grant      *)
(* looks at the lease and stores the grant; revoke_capability_lease marks  *)
(* the lease and walks over the grants.  The others are one step.          *)
(* Hashes and signatures are injective: a payload stands for its hash.     *)
(***************************************************************************)
EXTENDS FiniteSetsExt, Integers

CONSTANTS
    Users,         \* reviewers and maintainers
    Creator,       \* the user who created the approval
    Agents,        \* lease subjects
    Unbound,       \* the subject of a lease bound to no agent
    Leases,        \* capability lease identifiers
    NoLease,       \* an action or a grant that refers to no lease
    Actions,       \* action identifiers, chosen by the client
    Grants,        \* credential grant identifiers
    Threads,       \* request threads that consume, grant or revoke
    Resources,     \* runtime, cost, pull requests, retries
    Budget,        \* of a lease's scope, per resource
    Modes,         \* the modes leases are requested in
    Kinds,         \* the kinds of action that are proposed
    Estimates,     \* what a proposed action may estimate
    Consumptions,  \* what a consumption may report
    ReviewerCounts, \* values of required_reviewer_count
    Expiries,      \* the times at which requested leases expire
    MaxTime        \* bound: the last clock value

CapabilityLeaseMode == {"STRICT", "BOUNDED", "SUPERVISED"}
PolicyDecisionType == {"ALLOW", "REQUIRE_APPROVAL", "BLOCK"}

\* How an action relates to the scope of its lease: inside in every respect
\* that is fixed (agent, type, repository, branch, paths, command, domains,
\* retry number), outside in one, or of a high-risk type, which no V1 lease
\* can hold.
ActionKind == {"in_scope", "out_of_scope", "high_risk"}

ASSUME NoLeaseAssumption == NoLease \notin Leases
ASSUME BudgetAssumption == Budget \in [Resources -> Nat]
ASSUME InputAssumption ==
    /\ Modes \subseteq CapabilityLeaseMode
    /\ Kinds \subseteq ActionKind
    /\ Estimates \subseteq [Resources -> Nat]
    /\ Consumptions \subseteq [Resources -> Nat]
    /\ ReviewerCounts \subseteq Nat
    /\ Expiries \subseteq Nat
ASSUME MaxTimeAssumption == MaxTime \in Nat

VARIABLES
    now,             \* the clock
    approval,        \* the ApprovalRequest: APPROVED, sealed, by whom
    attestations,    \* store.reviewer_attestations
    lease,           \* store.capability_leases
    proposed,        \* store.proposed_actions
    latest,          \* latest_policy_decision of each action
    authorizations,  \* store.action_authorizations
    consumptions,    \* store.action_consumptions
    grant,           \* store.credential_grants
    request,         \* requests between their check and their write
    history          \* what overlapping requests did, for the properties

vars == <<now, approval, attestations, lease, proposed, latest,
          authorizations, consumptions, grant, request, history>>

Time == 0 .. MaxTime
Amounts == [Resources -> Nat]

ProposedAction ==
    [lease_id : Leases \cup {NoLease}, kind : ActionKind, estimate : Amounts]

\* ABSENT: not issued yet.
CapabilityLease ==
    [status     : {"ABSENT", "ACTIVE", "EXPIRED", "REVOKED"},
     agent      : Agents \cup {Unbound},
     mode       : CapabilityLeaseMode,
     expires_at : Nat,
     spent      : Amounts]

CredentialGrant ==
    [lease_id : Leases \cup {NoLease}, expires_at : Nat, revoked : BOOLEAN]

ReviewerAttestation == [reviewer : Users, decision : {"APPROVE", "DENY"}]

ActionAuthorization ==
    [action_id : Actions, decision : {"ALLOW", "DENY"}, payload : ProposedAction]

\* payload is the action as it was when it was consumed.
ActionConsumption ==
    [action_id : Actions, lease_id : Leases, used : Amounts,
     payload : ProposedAction]

\* What a handler carries from its checks to its write.  overtaken: another
\* consumption of the lease or the action was written since; disturbed: a
\* grant was stored since.
PendingRequest ==
    [phase : {"idle"}]
        \cup [phase : {"checked"}, entry : ActionConsumption, projected : Amounts,
              overtaken : BOOLEAN]
        \cup [phase : {"granting"}, lease_id : Leases, seconds : Nat, checked_at : Time]
        \cup [phase : {"revoking"}, lease_id : Leases, disturbed : BOOLEAN]

\* late: grants stored after their lease was revoked; delayed: grants stored
\* later than their expiry was compared; aborted: leases whose revocation
\* stopped in the walk; miscounted: leases that an overtaken request charged.
History ==
    [late : SUBSET Grants, delayed : SUBSET Grants,
     aborted : SUBSET Leases, miscounted : SUBSET Leases]

IdleRequest == [phase |-> "idle"]

Nothing == [x \in Resources |-> 0]

Init ==
    /\ now = 0
    /\ approval = [approved |-> FALSE, sealed |-> FALSE, approvers |-> {}]
    /\ attestations = {}
    /\ lease = [l \in Leases |->
                  [status |-> "ABSENT", agent |-> Unbound, mode |-> "STRICT",
                   expires_at |-> 0, spent |-> Nothing]]
    /\ proposed = [a \in Actions |->
                  [lease_id |-> NoLease, kind |-> "in_scope", estimate |-> Nothing]]
    /\ latest = [a \in Actions |-> [decision |-> "NONE", human |-> FALSE]]
    /\ authorizations = {}
    /\ consumptions = {}
    /\ grant = [g \in Grants |->
                  [lease_id |-> NoLease, expires_at |-> 0, revoked |-> FALSE]]
    /\ request = [t \in Threads |-> IdleRequest]
    /\ history = [late |-> {}, delayed |-> {}, aborted |-> {}, miscounted |-> {}]

----------------------------------------------------------------------------
(* The approval and its reviewers.                                         *)

\* POST /approvals/{id}/decision with approve: the payload is sealed.
approve(u) ==
    /\ approval' = [approved |-> TRUE, sealed |-> TRUE, approvers |-> {u}]
    /\ UNCHANGED <<now, attestations, lease, proposed, latest,
                   authorizations, consumptions, grant, request, history>>

\* The approval leaves APPROVED: denied, sent back, executing, failed.
leave_approved ==
    /\ approval.approved
    /\ approval' = [approval EXCEPT !.approved = FALSE]
    /\ UNCHANGED <<now, attestations, lease, proposed, latest,
                   authorizations, consumptions, grant, request, history>>

\* Mutant: a reviewer's later attestation replaces the earlier one.
AttestAgain(u, decision) ==
    /\ approval.sealed
    /\ u # Creator
    /\ attestations' = {att \in attestations : att.reviewer # u}
                          \cup {[reviewer |-> u, decision |-> decision]}
    /\ UNCHANGED <<now, approval, lease, proposed, latest,
                   authorizations, consumptions, grant, request, history>>

\* POST /trust/attestations; immutable once recorded.
record_reviewer_attestation(u, decision) ==
    /\ approval.sealed
    /\ u # Creator
    /\ \A att \in attestations : att.reviewer # u
    /\ attestations' = attestations \cup {[reviewer |-> u, decision |-> decision]}
    /\ UNCHANGED <<now, approval, lease, proposed, latest,
                   authorizations, consumptions, grant, request, history>>

approval_reviewer_ids ==
    approval.approvers
        \cup {att.reviewer : att \in {x \in attestations : x.decision = "APPROVE"}}

has_denial == \E att \in attestations : att.decision = "DENY"

----------------------------------------------------------------------------
(* Capability leases.                                                      *)

\* Active and not past its expiry, refreshed or not.
LiveLease(l) == lease[l].status = "ACTIVE" /\ lease[l].expires_at > now

\* The effect of refresh_lease_status on a lease record.
Refreshed(rec) ==
    IF rec.status = "ACTIVE" /\ rec.expires_at <= now
    THEN [rec EXCEPT !.status = "EXPIRED"] ELSE rec

\* Mutant: another live lease of the agent is not looked for.
IssueBeside(l, agent, mode, expires, count, prevent_self) ==
    /\ approval.approved /\ approval.sealed
    /\ ~has_denial
    /\ prevent_self => Creator \notin approval_reviewer_ids
    /\ Cardinality(approval_reviewer_ids) >= count
    /\ lease[l].status = "ABSENT"
    /\ expires > now
    /\ lease' = [lease EXCEPT ![l] =
                    [status |-> "ACTIVE", agent |-> agent, mode |-> mode,
                     expires_at |-> expires, spent |-> Nothing]]
    /\ UNCHANGED <<now, approval, attestations, proposed, latest,
                   authorizations, consumptions, grant, request, history>>

\* POST /trust/leases; a repeated request for an agent that has a live lease
\* changes nothing.
issue_capability_lease(l, agent, mode, expires, count, prevent_self) ==
    /\ approval.approved /\ approval.sealed
    /\ ~has_denial
    /\ prevent_self => Creator \notin approval_reviewer_ids
    /\ Cardinality(approval_reviewer_ids) >= count
    /\ ~ \E k \in Leases : LiveLease(k) /\ lease[k].agent = agent
    /\ lease[l].status = "ABSENT"
    /\ expires > now
    /\ lease' = [lease EXCEPT ![l] =
                    [status |-> "ACTIVE", agent |-> agent, mode |-> mode,
                     expires_at |-> expires, spent |-> Nothing]]
    /\ UNCHANGED <<now, approval, attestations, proposed, latest,
                   authorizations, consumptions, grant, request, history>>

\* GET /trust/leases, and every handler that refuses a lease it found expired.
refresh_lease_status(l) ==
    /\ lease' = [lease EXCEPT ![l] = Refreshed(@)]
    /\ lease' # lease
    /\ UNCHANGED <<now, approval, attestations, proposed, latest,
                   authorizations, consumptions, grant, request, history>>

\* POST /trust/leases/{id}/revoke, on a lease that is still live: the lease
\* is marked, then its grants are walked over.
revoke_capability_lease(t, l) ==
    /\ request[t].phase = "idle"
    /\ LiveLease(l)
    /\ lease' = [lease EXCEPT ![l].status = "REVOKED"]
    /\ request' = [request EXCEPT ![t] =
          [phase |-> "revoking", lease_id |-> l, disturbed |-> FALSE]]
    /\ UNCHANGED <<now, approval, attestations, proposed, latest,
                   authorizations, consumptions, grant, history>>

\* Revokes those grants of lease l that are in S.
Revoked(l, S) ==
    [g \in Grants |-> IF grant[g].lease_id = l /\ g \in S
                      THEN [grant[g] EXCEPT !.revoked = TRUE] ELSE grant[g]]

\* Mutant: the walk finds no grant.
WalkNothing(t) ==
    /\ request[t].phase = "revoking"
    /\ request' = [request EXCEPT ![t] = IdleRequest]
    /\ UNCHANGED <<now, approval, attestations, lease, proposed, latest,
                   authorizations, consumptions, grant, history>>

revoke_walk(t) ==
    /\ request[t].phase = "revoking"
    /\ grant' = Revoked(request[t].lease_id, Grants)
    /\ request' = [request EXCEPT ![t] = IdleRequest]
    /\ UNCHANGED <<now, approval, attestations, lease, proposed, latest,
                   authorizations, consumptions, history>>

\* A grant stored during the walk changes the size of the dictionary walked
\* over: the walk raises and leaves the grants it has not reached.
revoke_aborted(t, reached) ==
    /\ request[t].phase = "revoking" /\ request[t].disturbed
    /\ grant' = Revoked(request[t].lease_id, reached)
    /\ request' = [request EXCEPT ![t] = IdleRequest]
    /\ history' = [history EXCEPT !.aborted = @ \cup {request[t].lease_id}]
    /\ UNCHANGED <<now, approval, attestations, lease, proposed, latest,
                   authorizations, consumptions>>

----------------------------------------------------------------------------
(* Proposed actions.                                                       *)

\* The projection of a lease record's budget exceeds the scope.
Exceeds(rec, amount) ==
    \E x \in Resources : rec.spent[x] + amount[x] > Budget[x]

\* evaluate_proposed_action, for an action without and with a lease.
evaluate_unleased(action) ==
    IF action.kind = "high_risk" THEN "BLOCK" ELSE "REQUIRE_APPROVAL"

\* A reason to block: the lease, the scope or a projected budget.
HasReasons(action, rec) ==
    \/ rec.status # "ACTIVE"
    \/ rec.expires_at <= now
    \/ action.kind # "in_scope"
    \/ Exceeds(rec, action.estimate)

\* Mutant: STRICT is taken for BOUNDED while nothing is spent.
EvaluateLax(action, rec) ==
    IF HasReasons(action, rec) THEN "BLOCK"
    ELSE IF rec.mode = "STRICT" /\ rec.spent # Nothing THEN "REQUIRE_APPROVAL"
    ELSE "ALLOW"

evaluate_leased(action, rec) ==
    IF HasReasons(action, rec) THEN "BLOCK"
    ELSE IF rec.mode = "STRICT" THEN "REQUIRE_APPROVAL"
    ELSE "ALLOW"

evaluate_proposed_action(action) ==
    IF action.lease_id = NoLease
    THEN evaluate_unleased(action)
    ELSE evaluate_leased(action, Refreshed(lease[action.lease_id]))

\* POST /trust/gateway/actions.  The client names the action: a repeated
\* identifier overwrites the action and is evaluated again.
evaluate_gateway_action(a, action) ==
    /\ action.lease_id # NoLease => lease[action.lease_id].status # "ABSENT"
    /\ lease' = [l \in Leases |-> IF l = action.lease_id THEN Refreshed(lease[l])
                                 ELSE lease[l]]
    /\ proposed' = [proposed EXCEPT ![a] = action]
    /\ latest' = [latest EXCEPT ![a] =
          [decision |-> evaluate_proposed_action(action), human |-> FALSE]]
    /\ UNCHANGED <<now, approval, attestations, authorizations, consumptions,
                   grant, request, history>>

\* Mutant: a second decision on the action is recorded as well.
AuthorizeAgain(a, decision) ==
    /\ latest[a].decision = "REQUIRE_APPROVAL"
    /\ authorizations' = authorizations \cup
          {[action_id |-> a, decision |-> decision, payload |-> proposed[a]]}
    /\ latest' = [latest EXCEPT ![a] =
          [decision |-> IF decision = "ALLOW" THEN "ALLOW" ELSE "BLOCK",
           human |-> TRUE]]
    /\ UNCHANGED <<now, approval, attestations, lease, proposed, consumptions,
                   grant, request, history>>

\* POST /trust/gateway/actions/{id}/decision.  Only the first decision on an
\* action that waits for one is recorded and becomes its policy decision; a
\* repeated one returns the stored decision or is refused.
record_action_authorization(a, decision) ==
    /\ latest[a].decision = "REQUIRE_APPROVAL"
    /\ \A auth \in authorizations : auth.action_id # a
    /\ authorizations' = authorizations \cup
          {[action_id |-> a, decision |-> decision, payload |-> proposed[a]]}
    /\ latest' = [latest EXCEPT ![a] =
          [decision |-> IF decision = "ALLOW" THEN "ALLOW" ELSE "BLOCK",
           human |-> TRUE]]
    /\ UNCHANGED <<now, approval, attestations, lease, proposed, consumptions,
                   grant, request, history>>

\* _verify_human_allow: the signed decision is about this very payload.
verify_human_allow(a) ==
    \E auth \in authorizations :
        auth.action_id = a /\ auth.decision = "ALLOW" /\ auth.payload = proposed[a]

----------------------------------------------------------------------------
(* Consumption, in two steps of a request thread.                          *)

\* The projections a request goes on with.
CheckPassed(t, a, used) ==
    LET l == proposed[a].lease_id IN
    /\ request' = [request EXCEPT ![t] =
          [phase     |-> "checked",
           entry     |-> [action_id |-> a, lease_id |-> l, used |-> used,
                          payload |-> proposed[a]],
           projected |-> [x \in Resources |-> lease[l].spent[x] + used[x]],
           overtaken |-> FALSE]]
    /\ UNCHANGED <<now, approval, attestations, lease, proposed, latest,
                   authorizations, consumptions, grant, history>>

\* Mutant: a consumption that is recorded already is not looked for.
ConsumeRepeated(t, a, used) ==
    LET l == proposed[a].lease_id IN
    /\ request[t].phase = "idle"
    /\ latest[a].decision = "ALLOW"
    /\ latest[a].human => verify_human_allow(a)
    /\ l # NoLease /\ LiveLease(l)
    /\ ~Exceeds(lease[l], used)
    /\ CheckPassed(t, a, used)

\* consume_effective_action up to the last budget comparison.
consume_check(t, a, used) ==
    LET l == proposed[a].lease_id IN
    /\ request[t].phase = "idle"
    /\ latest[a].decision = "ALLOW"
    /\ latest[a].human => verify_human_allow(a)
    /\ \A c \in consumptions : c.action_id # a
    /\ l # NoLease /\ LiveLease(l)
    /\ ~Exceeds(lease[l], used)
    /\ CheckPassed(t, a, used)

\* Mutant: the projection is added to what is spent.
ChargedOnTop(rec, projected) ==
    [rec EXCEPT !.spent = [x \in Resources |-> rec.spent[x] + projected[x]]]

Charged(rec, projected) == [rec EXCEPT !.spent = projected]

\* A request that entry, written by another one, has overtaken.
Overtaken(req, entry) ==
    IF /\ req.phase = "checked"
       /\ \/ req.entry.lease_id = entry.lease_id
          \/ req.entry.action_id = entry.action_id
    THEN [req EXCEPT !.overtaken = TRUE] ELSE req

\* The entries the code's dictionary holds for the action of entry.
Replaced(entry) == {c \in consumptions : c.action_id = entry.action_id}

\* The projections become the lease's consumption; the entry of the action is
\* written, over another one if that got there first.
consume_write(t) ==
    LET entry == request[t].entry
        affected == {c.lease_id : c \in Replaced(entry) \cup {entry}}
    IN
    /\ request[t].phase = "checked"
    /\ lease' = [lease EXCEPT ![entry.lease_id] = Charged(@, request[t].projected)]
    /\ consumptions' = (consumptions \ Replaced(entry)) \cup {entry}
    /\ request' = [u \in Threads |-> IF u = t THEN IdleRequest
                                     ELSE Overtaken(request[u], entry)]
    /\ history' = [history EXCEPT !.miscounted =
                      IF request[t].overtaken THEN @ \cup affected ELSE @]
    /\ UNCHANGED <<now, approval, attestations, proposed, latest,
                   authorizations, grant>>

----------------------------------------------------------------------------
(* Credential grants and the clock.                                        *)

\* POST /trust/credentials for an internal capability token: the lease is
\* looked at and the lifetime compared with what remains of it, ...
issue_credential_grant(t, l, seconds) ==
    /\ request[t].phase = "idle"
    /\ LiveLease(l)
    /\ seconds > 0 /\ seconds <= lease[l].expires_at - now
    /\ request' = [request EXCEPT ![t] =
          [phase |-> "granting", lease_id |-> l, seconds |-> seconds, checked_at |-> now]]
    /\ UNCHANGED <<now, approval, attestations, lease, proposed, latest,
                   authorizations, consumptions, grant, history>>

\* A revocation whose walk meets a grant that was not there before.
Disturbed(req) ==
    IF req.phase = "revoking" THEN [req EXCEPT !.disturbed = TRUE] ELSE req

\* The grant of request t is stored as g.
StoreGrant(t, g) ==
    LET l == request[t].lease_id IN
    /\ request[t].phase = "granting"
    /\ grant' = [grant EXCEPT ![g] =
          [lease_id |-> l, expires_at |-> now + request[t].seconds, revoked |-> FALSE]]
    /\ request' = [u \in Threads |-> IF u = t THEN IdleRequest
                                     ELSE Disturbed(request[u])]
    /\ history' = [history EXCEPT
          !.late = IF lease[l].status = "REVOKED" THEN @ \cup {g} ELSE @,
          !.delayed = IF now # request[t].checked_at THEN @ \cup {g} ELSE @]
    /\ UNCHANGED <<now, approval, attestations, lease, proposed, latest,
                   authorizations, consumptions>>

\* Mutant: a grant of the lease is renewed in place, revoked or not.
RenewGrant(t, g) ==
    /\ request[t].phase = "granting"
    /\ grant[g].lease_id \in {NoLease, request[t].lease_id}
    /\ StoreGrant(t, g)

\* ... then the grant is stored under a new identifier, with a lifetime
\* counted from the clock as it is then.
grant_write(t, g) ==
    /\ grant[g].lease_id = NoLease
    /\ StoreGrant(t, g)

\* POST /trust/credentials/{id}/revoke.
revoke_credential_grant(g) ==
    /\ grant[g].lease_id # NoLease /\ ~grant[g].revoked
    /\ grant' = [grant EXCEPT ![g].revoked = TRUE]
    /\ UNCHANGED <<now, approval, attestations, lease, proposed, latest,
                   authorizations, consumptions, request, history>>

\* introspect_credential finds the token of grant g active, for a request
\* with the audience and the scope it was granted for.
introspect_credential(g) ==
    /\ grant[g].lease_id # NoLease
    /\ ~grant[g].revoked
    /\ grant[g].expires_at > now
    /\ LiveLease(grant[g].lease_id)

Tick ==
    /\ now < MaxTime
    /\ now' = now + 1
    /\ UNCHANGED <<approval, attestations, lease, proposed, latest,
                   authorizations, consumptions, grant, request, history>>

----------------------------------------------------------------------------
(* The system.                                                             *)

Handlers ==
    \/ \E u \in Users : approve(u)
    \/ leave_approved
    \/ \E u \in Users, d \in {"APPROVE", "DENY"} : record_reviewer_attestation(u, d)
    \/ \E l \in Leases, agent \in Agents \cup {Unbound}, mode \in Modes,
          expires \in Expiries, count \in ReviewerCounts, prevent_self \in BOOLEAN :
            issue_capability_lease(l, agent, mode, expires, count, prevent_self)
    \/ \E l \in Leases : refresh_lease_status(l)
    \/ \E a \in Actions, l \in Leases \cup {NoLease}, k \in Kinds, e \in Estimates :
            evaluate_gateway_action(a, [lease_id |-> l, kind |-> k, estimate |-> e])
    \/ \E a \in Actions, d \in {"ALLOW", "DENY"} : record_action_authorization(a, d)
    \/ \E g \in Grants : revoke_credential_grant(g)

\* A step of a handler that takes several.
ThreadStep(t) ==
    \/ \E l \in Leases : revoke_capability_lease(t, l)
    \/ revoke_walk(t)
    \/ \E reached \in SUBSET Grants : revoke_aborted(t, reached)
    \/ \E a \in Actions, used \in Consumptions : consume_check(t, a, used)
    \/ consume_write(t)
    \/ \E l \in Leases, seconds \in Time : issue_credential_grant(t, l, seconds)
    \/ \E g \in Grants : grant_write(t, g)

Next ==
    \/ Handlers
    \/ \E t \in Threads : ThreadStep(t)
    \/ Tick

Spec == Init /\ [][Next]_vars

----------------------------------------------------------------------------
(* Properties.                                                             *)

\* Every store table holds records of its type.
TypeOK ==
    /\ now \in Time
    /\ approval \in [approved : BOOLEAN, sealed : BOOLEAN, approvers : SUBSET Users]
    /\ attestations \subseteq ReviewerAttestation
    /\ lease \in [Leases -> CapabilityLease]
    /\ proposed \in [Actions -> ProposedAction]
    /\ latest \in [Actions -> [decision : PolicyDecisionType \cup {"NONE"},
                              human : BOOLEAN]]
    /\ authorizations \subseteq ActionAuthorization
    /\ consumptions \subseteq ActionConsumption
    /\ grant \in [Grants -> CredentialGrant]
    /\ request \in [Threads -> PendingRequest]
    /\ history \in History

\* However requests overlap, no lease's consumed budget is above its scope
\* (the comparisons of consume_effective_action).
BudgetsHold == \A l \in Leases, x \in Resources : lease[l].spent[x] <= Budget[x]

\* What was consumed against a STRICT lease was allowed by a human, in a
\* signed decision on exactly the payload that was consumed, though the
\* client may have resubmitted the action in between.
StrictNeedsHuman ==
    \A c \in consumptions :
        lease[c.lease_id].mode = "STRICT" =>
            \E auth \in authorizations :
                /\ auth.action_id = c.action_id
                /\ auth.decision = "ALLOW"
                /\ auth.payload = c.payload

\* A payload that a reviewer denied is never consumed, however often the
\* action is resubmitted, evaluated and put to a decision again.
DeniedNeverConsumed ==
    \A auth \in authorizations, c \in consumptions :
        (auth.decision = "DENY" /\ auth.action_id = c.action_id)
            => auth.payload # c.payload

\* An agent has one live lease of the approval (issue_capability_lease looks
\* for another one by status and expiry, and refreshes nothing).
OneLiveLease ==
    \A k, l \in Leases :
        (LiveLease(k) /\ LiveLease(l) /\ lease[k].agent = lease[l].agent) => k = l

\* A credential of a revoked lease that is not revoked itself was stored after
\* the revocation, by a request that had found the lease active, or the walk
\* of the revocation was stopped by another grant; and a credential outlives
\* its lease only if the clock moved between the comparison and the store
\* (issue_credential_grant, revoke_capability_lease).
StrayGrantHasRace ==
    \A g \in Grants :
        LET l == grant[g].lease_id IN
        l # NoLease =>
            /\ (lease[l].status = "REVOKED" /\ ~grant[g].revoked) =>
                  \/ \E t \in Threads : request[t].phase = "revoking"
                                         /\ request[t].lease_id = l
                  \/ g \in history.late
                  \/ l \in history.aborted
            /\ grant[g].expires_at > lease[l].expires_at => g \in history.delayed

\* A token that introspection refused once is never active again, whatever
\* is issued, refreshed or revoked later.
CredentialNeverRevives ==
    [][\A g \in Grants :
        (grant[g].lease_id # NoLease /\ ~introspect_credential(g))
            => ~introspect_credential(g)']_vars

\* A denial stands: no attestation and no repeated approval clears it, and
\* no lease comes to life under it (_has_denial in issue_capability_lease).
DenialIsFinal ==
    [][has_denial => /\ has_denial'
                     /\ \A l \in Leases : LiveLease(l)' => LiveLease(l)]_vars

\* A lease's consumed budget is what the recorded consumptions add up to: no
\* consumption is charged twice and none is forgotten
\* (consume_effective_action).
ChargesSum ==
    \A l \in Leases, x \in Resources :
        lease[l].spent[x] =
            SumFunctionOnSet([c \in consumptions |-> c.used[x]],
                             {c \in consumptions : c.lease_id = l})

\* The budget of a lease is off only if a request charged it after another
\* one had overtaken it: one that was checked before and written after a
\* consumption of the same lease or the same action.
ChargesExact ==
    \A l \in Leases \ history.miscounted, x \in Resources :
        lease[l].spent[x] =
            SumFunctionOnSet([c \in consumptions |-> c.used[x]],
                             {c \in consumptions : c.lease_id = l})

\* "Action consumption is immutable once recorded"
\* (consume_effective_action): a recorded consumption is replaced only by a
\* request for its action that was checked before it was recorded.
ReplacedByOvertaken ==
    [][\A c \in consumptions \ consumptions' :
        \E t \in Threads :
            /\ request[t].phase = "checked" /\ request'[t].phase = "idle"
            /\ request[t].overtaken /\ request[t].entry.action_id = c.action_id]_vars

\* "The signed decision is immutable and becomes the latest effective policy
\* decision" (docs/AGENT_TRUST_CONTROL_PLANE.md): the decision of an
\* authorization is the latest one of its action.
SignedDecisionStands ==
    \A auth \in authorizations :
        latest[auth.action_id] =
            [decision |-> IF auth.decision = "ALLOW" THEN "ALLOW" ELSE "BLOCK",
             human |-> TRUE]

----------------------------------------------------------------------------
(* The inductive invariant behind the safety theorems.                     *)

Issued(l) == l \in Leases /\ lease[l].status # "ABSENT"

HumanAllowed(a, payload) ==
    \E auth \in authorizations :
        auth.action_id = a /\ auth.decision = "ALLOW" /\ auth.payload = payload

\* What a consumption rests on.
Justified(entry) ==
    /\ entry.lease_id = entry.payload.lease_id
    /\ Issued(entry.lease_id)
    /\ lease[entry.lease_id].mode = "STRICT"
           => HumanAllowed(entry.action_id, entry.payload)

RequestsJustified ==
    \A t \in Threads : request[t].phase = "checked" =>
        /\ Justified(request[t].entry)
        /\ \A x \in Resources : request[t].projected[x] <= Budget[x]

ConsumptionsJustified == \A c \in consumptions : Justified(c)

\* Policy alone allows nothing under a STRICT lease, and asks for a human
\* only under a STRICT one or without any.
DecisionsFollowMode ==
    \A a \in Actions :
        LET l == proposed[a].lease_id IN
        /\ (latest[a].decision = "ALLOW" /\ ~latest[a].human)
               => Issued(l) /\ lease[l].mode # "STRICT"
        /\ (latest[a].decision = "REQUIRE_APPROVAL" /\ l # NoLease)
               => Issued(l) /\ lease[l].mode = "STRICT"

AuthorizationsFollowMode ==
    /\ \A auth \in authorizations :
          LET l == auth.payload.lease_id IN
          l # NoLease => Issued(l) /\ lease[l].mode = "STRICT"
    /\ \A p, q \in authorizations : p.action_id = q.action_id => p = q

\* A lifetime that was compared ended before the lease, at the time it was.
GrantRequestsHold ==
    \A t \in Threads :
        LET l == request[t].lease_id IN
        request[t].phase = "granting" =>
            Issued(l) /\ request[t].checked_at + request[t].seconds <= lease[l].expires_at

GrantsOfIssuedLeases ==
    \A g \in Grants : grant[g].lease_id # NoLease => Issued(grant[g].lease_id)

\* Every lease a request, a consumption, a decision or a grant refers to was
\* issued and keeps its mode, and what is not justified by the mode is
\* justified by a signed decision on the same payload.
TrustInvariant ==
    /\ TypeOK
    /\ BudgetsHold
    /\ RequestsJustified
    /\ ConsumptionsJustified
    /\ DecisionsFollowMode
    /\ AuthorizationsFollowMode
    /\ GrantRequestsHold
    /\ GrantsOfIssuedLeases

----------------------------------------------------------------------------
(* What is inductive about consumptions in addition.                       *)

\* What the check of a request found is still so, unless it was overtaken:
\* the action is not consumed and the projection starts from what is spent.
CheckStands(t) ==
    LET entry == request[t].entry
        spent == lease[entry.lease_id].spent
    IN  /\ \A c \in consumptions : c.action_id # entry.action_id
        /\ request[t].projected = [x \in Resources |-> spent[x] + entry.used[x]]

ChargeInvariant ==
    /\ \A t \in Threads :
          (request[t].phase = "checked" /\ ~request[t].overtaken) => CheckStands(t)
    /\ IsFiniteSet(consumptions)
    /\ ChargesExact
=============================================================================
