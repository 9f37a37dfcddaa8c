------------------------- MODULE TrustControlProofs -------------------------
(***************************************************************************)
(* Proofs about TrustControl for every set of users, leases, actions,      *)
(* threads and resources, every budget, and however requests overlap.      *)
(***************************************************************************)
EXTENDS TrustControl, Induction

\* A step of the trust control plane is one of its handlers, a write of a
\* consumption or the clock.
LEMMA NextCases ==
    ASSUME Next
    PROVE  \/ \E u \in Users : approve(u)
           \/ leave_approved
           \/ \E u \in Users, d \in {"APPROVE", "DENY"} :
                 record_reviewer_attestation(u, d)
           \/ \E l \in Leases, agent \in Agents \cup {Unbound}, mode \in Modes,
                 expires \in Expiries, count \in ReviewerCounts, prevent_self \in BOOLEAN :
                 issue_capability_lease(l, agent, mode, expires, count, prevent_self)
           \/ \E l \in Leases : refresh_lease_status(l)
           \/ \E t \in Threads, l \in Leases : revoke_capability_lease(t, l)
           \/ \E a \in Actions, l \in Leases \cup {NoLease}, k \in Kinds, e \in Estimates :
                 evaluate_gateway_action(a, [lease_id |-> l, kind |-> k, estimate |-> e])
           \/ \E a \in Actions, d \in {"ALLOW", "DENY"} : record_action_authorization(a, d)
           \/ \E t \in Threads, a \in Actions, used \in Consumptions :
                 consume_check(t, a, used)
           \/ \E t \in Threads, l \in Leases, seconds \in Time :
                 issue_credential_grant(t, l, seconds)
           \/ \E t \in Threads, g \in Grants : grant_write(t, g)
           \/ \E t \in Threads : revoke_walk(t)
           \/ \E t \in Threads, reached \in SUBSET Grants : revoke_aborted(t, reached)
           \/ \E g \in Grants : revoke_credential_grant(g)
           \/ \E t \in Threads : consume_write(t)
           \/ Tick
BY DEF Next, Handlers, ThreadStep

----------------------------------------------------------------------------
(* Types.                                                                  *)

LEMMA NothingIsAmount == Nothing \in Amounts
BY DEF Nothing, Amounts

\* Refreshing a lease record changes only its status, from ACTIVE to EXPIRED.
LEMMA RefreshedLease ==
    ASSUME NEW rec \in CapabilityLease
    PROVE  /\ Refreshed(rec) \in CapabilityLease
           /\ Refreshed(rec).mode = rec.mode
           /\ Refreshed(rec).agent = rec.agent
           /\ Refreshed(rec).expires_at = rec.expires_at
           /\ Refreshed(rec).spent = rec.spent
           /\ Refreshed(rec).status # rec.status => /\ rec.status = "ACTIVE"
                                                    /\ Refreshed(rec).status = "EXPIRED"
BY DEF Refreshed, CapabilityLease

\* Charging a lease record changes only what is spent.
LEMMA ChargedLease ==
    ASSUME NEW rec \in CapabilityLease, NEW amount \in Amounts
    PROVE  /\ Charged(rec, amount) \in CapabilityLease
           /\ Charged(rec, amount).status = rec.status
           /\ Charged(rec, amount).mode = rec.mode
           /\ Charged(rec, amount).agent = rec.agent
           /\ Charged(rec, amount).expires_at = rec.expires_at
           /\ Charged(rec, amount).spent = amount
BY DEF Charged, CapabilityLease

\* Revoking a grant record changes only its revocation.
LEMMA RevokedGrant ==
    ASSUME NEW rec \in CredentialGrant
    PROVE  /\ [rec EXCEPT !.revoked = TRUE] \in CredentialGrant
           /\ [rec EXCEPT !.revoked = TRUE].lease_id = rec.lease_id
           /\ [rec EXCEPT !.revoked = TRUE].expires_at = rec.expires_at
           /\ [rec EXCEPT !.revoked = TRUE].revoked
BY DEF CredentialGrant

\* The policy answers with a decision.
LEMMA PolicyDecides ==
    ASSUME NEW action
    PROVE  evaluate_proposed_action(action) \in PolicyDecisionType
<1>1. \A rec : evaluate_leased(action, rec) \in PolicyDecisionType
  BY DEF evaluate_leased, PolicyDecisionType
<1>2. evaluate_unleased(action) \in PolicyDecisionType
  BY DEF evaluate_unleased, PolicyDecisionType
<1> QED BY <1>1, <1>2 DEF evaluate_proposed_action

\* What the policy decides about an action with a lease follows its mode.
LEMMA PolicyFollowsMode ==
    ASSUME NEW action, NEW rec \in CapabilityLease
    PROVE  /\ evaluate_leased(action, rec) = "ALLOW" => rec.mode # "STRICT"
           /\ evaluate_leased(action, rec) = "REQUIRE_APPROVAL" => rec.mode = "STRICT"
BY DEF evaluate_leased

\* A check leaves a request record with the projections it computed.
LEMMA CheckedRequest ==
    ASSUME TypeOK, NEW t \in Threads, NEW a \in Actions, NEW used \in Consumptions,
           consume_check(t, a, used)
    PROVE  /\ request'[t] \in PendingRequest
           /\ request' = [request EXCEPT ![t] = request'[t]]
           /\ request'[t].phase = "checked" /\ request'[t].overtaken = FALSE
           /\ request'[t].entry = [action_id |-> a, lease_id |-> proposed[a].lease_id,
                                   used |-> used, payload |-> proposed[a]]
           /\ \A x \in Resources : request'[t].projected[x] <= Budget[x]
<1> DEFINE l == proposed[a].lease_id
           proj == [x \in Resources |-> lease[l].spent[x] + used[x]]
           entry == [action_id |-> a, lease_id |-> l, used |-> used,
                     payload |-> proposed[a]]
           req == [phase |-> "checked", entry |-> entry, projected |-> proj,
                   overtaken |-> FALSE]
<1>1. l \in Leases
  BY DEF consume_check, TypeOK, ProposedAction
<1>2. /\ used \in Amounts
      /\ lease[l].spent \in Amounts
  BY <1>1, InputAssumption DEF TypeOK, CapabilityLease, Amounts
<1>3. proj \in Amounts
  BY <1>2 DEF Amounts
<1>4. entry \in ActionConsumption
  BY <1>1, <1>2 DEF ActionConsumption, TypeOK
<1>5. req \in PendingRequest
  BY <1>3, <1>4 DEF PendingRequest
<1>6. request' = [request EXCEPT ![t] = req]
  BY DEF consume_check, CheckPassed
<1>7. \A x \in Resources : proj[x] <= Budget[x]
  BY <1>1, <1>2, BudgetAssumption DEF consume_check, Exceeds, Amounts
<1> QED BY <1>5, <1>6, <1>7 DEF TypeOK

LEMMA InitType == Init => TypeOK
<1> SUFFICES ASSUME Init PROVE TypeOK
  OBVIOUS
<1>1. now \in Time
  BY MaxTimeAssumption DEF Init, Time
<1>2. lease \in [Leases -> CapabilityLease]
  BY NothingIsAmount, MaxTimeAssumption DEF Init, CapabilityLease, CapabilityLeaseMode, Time
<1>3. proposed \in [Actions -> ProposedAction]
  BY NothingIsAmount DEF Init, ProposedAction, ActionKind
<1>4. grant \in [Grants -> CredentialGrant]
  BY MaxTimeAssumption DEF Init, CredentialGrant, Time
<1>5. request \in [Threads -> PendingRequest]
  BY DEF Init, PendingRequest, IdleRequest
<1>8. history \in History
  BY DEF Init, History
<1>6. latest \in [Actions -> [decision : PolicyDecisionType \cup {"NONE"}, human : BOOLEAN]]
  BY DEF Init
<1>7. approval \in [approved : BOOLEAN, sealed : BOOLEAN, approvers : SUBSET Users]
  BY DEF Init
<1> QED BY <1>1, <1>2, <1>3, <1>4, <1>5, <1>6, <1>7, <1>8 DEF TypeOK, Init

\* What a step leaves of the request of a thread: nothing new, none, the
\* request that a handler begins, or one that another thread has overtaken or
\* disturbed.
LEMMA RequestAfter ==
    ASSUME TypeOK, [Next]_vars, NEW u \in Threads
    PROVE  \/ request'[u] = request[u]
           \/ request'[u] = IdleRequest
           \/ \E l \in Leases : revoke_capability_lease(u, l)
           \/ \E a \in Actions, used \in Consumptions : consume_check(u, a, used)
           \/ \E l \in Leases, seconds \in Time : issue_credential_grant(u, l, seconds)
           \/ /\ request[u].phase = "checked"
              /\ request'[u] = [request[u] EXCEPT !.overtaken = TRUE]
           \/ /\ request[u].phase = "revoking"
              /\ request'[u] = [request[u] EXCEPT !.disturbed = TRUE]
<1>1. ASSUME NEW t \in Threads, NEW l \in Leases, revoke_capability_lease(t, l)
      PROVE  t = u \/ request'[u] = request[u]
  BY <1>1 DEF revoke_capability_lease, TypeOK
<1>2. ASSUME NEW t \in Threads, NEW a \in Actions, NEW used \in Consumptions,
             consume_check(t, a, used)
      PROVE  t = u \/ request'[u] = request[u]
  BY <1>2 DEF consume_check, CheckPassed, TypeOK
<1>3. ASSUME NEW t \in Threads, NEW l \in Leases, NEW seconds \in Time,
             issue_credential_grant(t, l, seconds)
      PROVE  t = u \/ request'[u] = request[u]
  BY <1>3 DEF issue_credential_grant, TypeOK
<1>4. ASSUME NEW t \in Threads, consume_write(t)
      PROVE  \/ request'[u] \in {request[u], IdleRequest}
             \/ /\ request[u].phase = "checked"
                /\ request'[u] = [request[u] EXCEPT !.overtaken = TRUE]
  BY <1>4 DEF consume_write, Overtaken
<1>5. ASSUME NEW t \in Threads, NEW g \in Grants, grant_write(t, g)
      PROVE  \/ request'[u] \in {request[u], IdleRequest}
             \/ /\ request[u].phase = "revoking"
                /\ request'[u] = [request[u] EXCEPT !.disturbed = TRUE]
  BY <1>5 DEF grant_write, StoreGrant, Disturbed
<1>6. ASSUME NEW t \in Threads, revoke_walk(t)
      PROVE  request'[u] \in {request[u], IdleRequest}
  BY <1>6 DEF revoke_walk, TypeOK
<1>7. ASSUME NEW t \in Threads, NEW reached, revoke_aborted(t, reached)
      PROVE  request'[u] \in {request[u], IdleRequest}
  BY <1>7 DEF revoke_aborted, TypeOK
<1>8. \/ UNCHANGED vars
      \/ \E v \in Users : approve(v)
      \/ leave_approved
      \/ \E v \in Users, d \in {"APPROVE", "DENY"} : record_reviewer_attestation(v, d)
      \/ \E l \in Leases, agent \in Agents \cup {Unbound}, mode \in Modes,
            expires \in Expiries, count \in ReviewerCounts, prevent_self \in BOOLEAN :
            issue_capability_lease(l, agent, mode, expires, count, prevent_self)
      \/ \E l \in Leases : refresh_lease_status(l)
      \/ \E a \in Actions, l \in Leases \cup {NoLease}, k \in Kinds, e \in Estimates :
            evaluate_gateway_action(a, [lease_id |-> l, kind |-> k, estimate |-> e])
      \/ \E a \in Actions, d \in {"ALLOW", "DENY"} : record_action_authorization(a, d)
      \/ \E g \in Grants : revoke_credential_grant(g)
      \/ Tick
      => request' = request
  BY DEF vars, approve, leave_approved, record_reviewer_attestation,
         issue_capability_lease, refresh_lease_status, evaluate_gateway_action,
         record_action_authorization, revoke_credential_grant, Tick
<1> QED BY <1>1, <1>2, <1>3, <1>4, <1>5, <1>6, <1>7, <1>8, NextCases

\* Requests keep their types.
LEMMA NextRequestType == TypeOK /\ [Next]_vars => request' \in [Threads -> PendingRequest]
<1> SUFFICES ASSUME TypeOK, [Next]_vars PROVE request' \in [Threads -> PendingRequest]
  OBVIOUS
<1>1. ASSUME NEW u \in Threads PROVE request'[u] \in PendingRequest
  <2>1. request[u] \in PendingRequest /\ IdleRequest \in PendingRequest
    BY DEF TypeOK, PendingRequest, IdleRequest
  <2>2. ASSUME NEW l \in Leases, revoke_capability_lease(u, l)
        PROVE  request'[u] \in PendingRequest
    BY <2>2 DEF revoke_capability_lease, TypeOK, PendingRequest
  <2>3. ASSUME NEW a \in Actions, NEW used \in Consumptions, consume_check(u, a, used)
        PROVE  request'[u] \in PendingRequest
    BY <2>3, CheckedRequest
  <2>4. ASSUME NEW l \in Leases, NEW seconds \in Time, issue_credential_grant(u, l, seconds)
        PROVE  request'[u] \in PendingRequest
    BY <2>4, MaxTimeAssumption DEF issue_credential_grant, TypeOK, PendingRequest, Time
  <2>5. CASE request[u].phase = "checked"
             /\ request'[u] = [request[u] EXCEPT !.overtaken = TRUE]
    BY <2>1, <2>5 DEF PendingRequest
  <2>6. CASE request[u].phase = "revoking"
             /\ request'[u] = [request[u] EXCEPT !.disturbed = TRUE]
    BY <2>1, <2>6 DEF PendingRequest
  <2> QED BY <2>1, <2>2, <2>3, <2>4, <2>5, <2>6, RequestAfter
<1>2. \E f : request' = [u \in Threads |-> f[u]]
  <2>1. request' = [u \in Threads |-> request'[u]]
    BY NextCases DEF TypeOK, vars, approve, leave_approved, record_reviewer_attestation,
           issue_capability_lease, refresh_lease_status, revoke_capability_lease,
           evaluate_gateway_action, record_action_authorization, consume_check,
           CheckPassed, issue_credential_grant, grant_write, StoreGrant, revoke_walk,
           revoke_aborted, revoke_credential_grant, consume_write, Tick
  <2> QED BY <2>1
<1> QED BY <1>1, <1>2

LEMMA NextType == TypeOK /\ [Next]_vars => TypeOK'
<1> SUFFICES ASSUME TypeOK, [Next]_vars PROVE TypeOK'
  OBVIOUS
<1>0. request' \in [Threads -> PendingRequest]
  BY NextRequestType
<1>1. CASE UNCHANGED vars
  BY <1>1 DEF TypeOK, vars
<1>2. ASSUME NEW u \in Users, approve(u) PROVE TypeOK'
  BY <1>2 DEF TypeOK, approve
<1>3. CASE leave_approved
  BY <1>3 DEF TypeOK, leave_approved
<1>4. ASSUME NEW u \in Users, NEW d \in {"APPROVE", "DENY"},
             record_reviewer_attestation(u, d)
      PROVE  TypeOK'
  BY <1>4 DEF TypeOK, record_reviewer_attestation, ReviewerAttestation
<1>5. ASSUME NEW l \in Leases, NEW agent \in Agents \cup {Unbound}, NEW mode \in Modes,
             NEW expires \in Expiries, NEW count, NEW self,
             issue_capability_lease(l, agent, mode, expires, count, self)
      PROVE  TypeOK'
  <2>1. [status |-> "ACTIVE", agent |-> agent, mode |-> mode,
         expires_at |-> expires, spent |-> Nothing] \in CapabilityLease
    BY NothingIsAmount, InputAssumption DEF CapabilityLease
  <2> QED BY <1>5, <2>1 DEF TypeOK, issue_capability_lease
<1>6. ASSUME NEW l \in Leases, refresh_lease_status(l) PROVE TypeOK'
  <2>1. Refreshed(lease[l]) \in CapabilityLease
    BY RefreshedLease DEF TypeOK
  <2> QED BY <1>6, <2>1 DEF TypeOK, refresh_lease_status
<1>7. ASSUME NEW t \in Threads, NEW l \in Leases, revoke_capability_lease(t, l)
      PROVE  TypeOK'
  <2>1. lease' \in [Leases -> CapabilityLease]
    <3>1. [lease[l] EXCEPT !.status = "REVOKED"] \in CapabilityLease
      BY DEF TypeOK, CapabilityLease
    <3>2. lease' = [lease EXCEPT ![l] = [lease[l] EXCEPT !.status = "REVOKED"]]
      BY <1>7 DEF revoke_capability_lease
    <3> QED BY <3>1, <3>2 DEF TypeOK
  <2> QED BY <1>0, <1>7, <2>1 DEF TypeOK, revoke_capability_lease
<1>8. ASSUME NEW a \in Actions, NEW l \in Leases \cup {NoLease}, NEW k \in Kinds,
             NEW e \in Estimates,
             evaluate_gateway_action(a, [lease_id |-> l, kind |-> k, estimate |-> e])
      PROVE  TypeOK'
  <2> DEFINE action == [lease_id |-> l, kind |-> k, estimate |-> e]
  <2>1. action \in ProposedAction
    BY InputAssumption DEF ProposedAction, Amounts
  <2>2. evaluate_proposed_action(action) \in PolicyDecisionType
    BY PolicyDecides
  <2>3. \A i \in Leases : Refreshed(lease[i]) \in CapabilityLease
    BY RefreshedLease DEF TypeOK
  <2> HIDE DEF action
  <2>4. evaluate_gateway_action(a, action)
    BY <1>8 DEF action
  <2>5. lease' \in [Leases -> CapabilityLease]
    BY <2>3, <2>4 DEF TypeOK, evaluate_gateway_action
  <2> QED BY <2>1, <2>2, <2>4, <2>5 DEF TypeOK, evaluate_gateway_action
<1>9. ASSUME NEW a \in Actions, NEW d \in {"ALLOW", "DENY"},
             record_action_authorization(a, d)
      PROVE  TypeOK'
  <2>1. [action_id |-> a, decision |-> d, payload |-> proposed[a]] \in ActionAuthorization
    BY DEF TypeOK, ActionAuthorization
  <2>2. [decision |-> IF d = "ALLOW" THEN "ALLOW" ELSE "BLOCK", human |-> TRUE]
          \in [decision : PolicyDecisionType \cup {"NONE"}, human : BOOLEAN]
    BY DEF PolicyDecisionType
  <2> QED BY <1>9, <2>1, <2>2 DEF TypeOK, record_action_authorization
<1>10. ASSUME NEW t \in Threads, NEW a \in Actions, NEW used \in Consumptions,
              consume_check(t, a, used)
       PROVE  TypeOK'
  BY <1>0, <1>10 DEF TypeOK, consume_check, CheckPassed
<1>11. ASSUME NEW t \in Threads, consume_write(t) PROVE TypeOK'
  <2>1. /\ request[t].entry \in ActionConsumption
        /\ request[t].projected \in Amounts
    BY <1>11 DEF TypeOK, consume_write, PendingRequest
  <2>2. lease' \in [Leases -> CapabilityLease]
    <3>1. request[t].entry.lease_id \in Leases
      BY <2>1 DEF ActionConsumption
    <3>2. Charged(lease[request[t].entry.lease_id], request[t].projected) \in CapabilityLease
      BY <2>1, <3>1, ChargedLease DEF TypeOK
    <3> QED BY <1>11, <3>1, <3>2 DEF TypeOK, consume_write
  <2>3. consumptions' \subseteq ActionConsumption
    BY <1>11, <2>1 DEF TypeOK, consume_write
  <2>4. history' \in History
    <3>1. {c.lease_id : c \in Replaced(request[t].entry) \cup {request[t].entry}} \subseteq Leases
      BY <2>1 DEF TypeOK, Replaced, ActionConsumption
    <3> QED BY <1>11, <3>1 DEF TypeOK, consume_write, History
  <2> QED BY <1>0, <1>11, <2>2, <2>3, <2>4 DEF TypeOK, consume_write
<1>12. ASSUME NEW t \in Threads, NEW l \in Leases, NEW seconds \in Time,
              issue_credential_grant(t, l, seconds)
       PROVE  TypeOK'
  BY <1>0, <1>12 DEF TypeOK, issue_credential_grant
<1>15. ASSUME NEW t \in Threads, NEW g \in Grants, grant_write(t, g) PROVE TypeOK'
  <2>1. /\ request[t].lease_id \in Leases
        /\ now + request[t].seconds \in Nat
    BY <1>15, MaxTimeAssumption DEF grant_write, StoreGrant, TypeOK, PendingRequest, Time
  <2>2. grant' \in [Grants -> CredentialGrant]
    BY <1>15, <2>1 DEF grant_write, StoreGrant, TypeOK, CredentialGrant
  <2>3. history' \in History
    BY <1>15 DEF grant_write, StoreGrant, TypeOK, History
  <2> QED BY <1>0, <1>15, <2>2, <2>3 DEF TypeOK, grant_write, StoreGrant
<1>16. ASSUME NEW t \in Threads, revoke_walk(t) PROVE TypeOK'
  <2>1. grant' \in [Grants -> CredentialGrant]
    BY <1>16, RevokedGrant DEF revoke_walk, TypeOK, Revoked
  <2> QED BY <1>0, <1>16, <2>1 DEF TypeOK, revoke_walk
<1>17. ASSUME NEW t \in Threads, NEW reached \in SUBSET Grants, revoke_aborted(t, reached)
       PROVE  TypeOK'
  <2>1. grant' \in [Grants -> CredentialGrant]
    BY <1>17, RevokedGrant DEF revoke_aborted, TypeOK, Revoked
  <2>2. history' \in History
    BY <1>17 DEF revoke_aborted, TypeOK, History, PendingRequest
  <2> QED BY <1>0, <1>17, <2>1, <2>2 DEF TypeOK, revoke_aborted
<1>13. ASSUME NEW g \in Grants, revoke_credential_grant(g) PROVE TypeOK'
  BY <1>13 DEF TypeOK, revoke_credential_grant, CredentialGrant
<1>14. CASE Tick
  BY <1>14, MaxTimeAssumption DEF TypeOK, Tick, Time
<1> QED
  BY <1>1, <1>2, <1>3, <1>4, <1>5, <1>6, <1>7, <1>8, <1>9, <1>10, <1>11, <1>12,
     <1>13, <1>14, <1>15, <1>16, <1>17, NextCases

----------------------------------------------------------------------------
(* What a step does to the leases.                                         *)

\* The lease keeps its terms: subject, mode and expiry do not change, an
\* issued lease stays issued, and one that is not active stays inactive.
Kept(l) ==
    /\ lease'[l].mode = lease[l].mode
    /\ lease'[l].agent = lease[l].agent
    /\ lease'[l].expires_at = lease[l].expires_at
    /\ lease'[l].status = "ACTIVE" => lease[l].status = "ACTIVE"
    /\ lease[l].status # "ABSENT" => lease'[l].status # "ABSENT"

\* Every handler keeps the terms of every lease, except the one that issues
\* an absent lease.
LEMMA LeaseStep ==
    ASSUME TypeOK, [Next]_vars, NEW i \in Leases
    PROVE  \/ Kept(i)
           \/ \E agent \in Agents \cup {Unbound}, mode \in Modes, expires \in Expiries,
                 count \in ReviewerCounts, self \in BOOLEAN :
                 issue_capability_lease(i, agent, mode, expires, count, self)
<1> USE DEF Kept
<1>1. CASE UNCHANGED lease
  BY <1>1
<1>2. ASSUME NEW l \in Leases, NEW agent \in Agents \cup {Unbound}, NEW mode \in Modes,
             NEW expires \in Expiries, NEW count \in ReviewerCounts, NEW self \in BOOLEAN,
             issue_capability_lease(l, agent, mode, expires, count, self)
      PROVE  Kept(i) \/ l = i
  BY <1>2 DEF issue_capability_lease, TypeOK
<1>3. ASSUME NEW l \in Leases, refresh_lease_status(l) PROVE Kept(i)
  <2>1. lease[i] \in CapabilityLease
    BY DEF TypeOK
  <2>2. lease'[i] = IF l = i THEN Refreshed(lease[i]) ELSE lease[i]
    BY <1>3 DEF refresh_lease_status, TypeOK
  <2> QED BY <2>1, <2>2, RefreshedLease
<1>4. ASSUME NEW t \in Threads, NEW l \in Leases, revoke_capability_lease(t, l) PROVE Kept(i)
  <2>1. lease[i] \in CapabilityLease
    BY DEF TypeOK
  <2> QED BY <1>4, <2>1 DEF revoke_capability_lease, TypeOK, CapabilityLease
<1>5. ASSUME NEW a \in Actions, NEW action, evaluate_gateway_action(a, action)
      PROVE  Kept(i)
  <2>1. lease[i] \in CapabilityLease
    BY DEF TypeOK
  <2>2. lease'[i] = IF i = action.lease_id THEN Refreshed(lease[i]) ELSE lease[i]
    BY <1>5 DEF evaluate_gateway_action
  <2> QED BY <2>1, <2>2, RefreshedLease
<1>6. ASSUME NEW t \in Threads, consume_write(t) PROVE Kept(i)
  <2> DEFINE l == request[t].entry.lease_id
  <2>1. lease[i] \in CapabilityLease
    BY DEF TypeOK
  <2>2. request[t].projected \in Amounts
    BY <1>6 DEF TypeOK, consume_write, PendingRequest
  <2>3. lease'[i] = IF l = i THEN Charged(lease[i], request[t].projected) ELSE lease[i]
    BY <1>6 DEF consume_write, TypeOK
  <2> HIDE DEF l
  <2> QED BY <2>1, <2>2, <2>3, ChargedLease
<1>7. \/ UNCHANGED vars
      \/ \E u \in Users : approve(u)
      \/ leave_approved
      \/ \E u \in Users, d \in {"APPROVE", "DENY"} : record_reviewer_attestation(u, d)
      \/ \E a \in Actions, d \in {"ALLOW", "DENY"} : record_action_authorization(a, d)
      \/ \E t \in Threads, a \in Actions, used \in Consumptions : consume_check(t, a, used)
      \/ \E t \in Threads, l \in Leases, seconds \in Time :
            issue_credential_grant(t, l, seconds)
      \/ \E t \in Threads, g \in Grants : grant_write(t, g)
      \/ \E t \in Threads : revoke_walk(t)
      \/ \E t \in Threads, reached \in SUBSET Grants : revoke_aborted(t, reached)
      \/ \E g \in Grants : revoke_credential_grant(g)
      \/ Tick
      => UNCHANGED lease
  BY DEF vars, approve, leave_approved, record_reviewer_attestation,
         record_action_authorization, consume_check, CheckPassed,
         issue_credential_grant,
         grant_write, StoreGrant, revoke_walk, revoke_aborted, revoke_credential_grant, Tick
<1> HIDE DEF Kept
<1> QED BY <1>1, <1>2, <1>3, <1>4, <1>5, <1>6, <1>7, NextCases

\* An issued lease keeps its terms.
LEMMA IssuedKept ==
    ASSUME TypeOK, [Next]_vars, NEW l, Issued(l)
    PROVE  Kept(l) /\ Issued(l)'
<1>1. l \in Leases /\ lease[l].status # "ABSENT"
  BY DEF Issued
<1>2. Kept(l)
  BY <1>1, LeaseStep DEF issue_capability_lease
<1> QED BY <1>1, <1>2 DEF Kept, Issued

----------------------------------------------------------------------------
(* Steps preserve the parts of the invariant.                              *)

\* What is spent of a lease changes when it is issued or a request is written.
LEMMA SpentStep ==
    ASSUME TypeOK, [Next]_vars, NEW i \in Leases
    PROVE  \/ lease'[i].spent = lease[i].spent
           \/ lease[i].status = "ABSENT" /\ lease'[i].spent = Nothing /\ UNCHANGED consumptions
           \/ \E t \in Threads : /\ consume_write(t)
                                 /\ request[t].entry.lease_id = i
                                 /\ lease'[i].spent = request[t].projected
<1>0. lease[i] \in CapabilityLease
  BY DEF TypeOK
<1>3. ASSUME NEW l \in Leases, NEW agent, NEW mode, NEW expires, NEW count, NEW self,
             issue_capability_lease(l, agent, mode, expires, count, self)
      PROVE  \/ lease'[i].spent = lease[i].spent
             \/ lease[i].status = "ABSENT" /\ lease'[i].spent = Nothing /\ UNCHANGED consumptions
  BY <1>0, <1>3 DEF issue_capability_lease, TypeOK
<1>4. ASSUME NEW l \in Leases, refresh_lease_status(l)
      PROVE  lease'[i].spent = lease[i].spent
  <2>1. lease'[i] = IF l = i THEN Refreshed(lease[i]) ELSE lease[i]
    BY <1>0, <1>4 DEF refresh_lease_status, TypeOK
  <2> QED BY <1>0, <2>1, RefreshedLease
<1>5. ASSUME NEW t \in Threads, NEW l \in Leases, revoke_capability_lease(t, l)
      PROVE  lease'[i].spent = lease[i].spent
  BY <1>0, <1>5 DEF revoke_capability_lease, TypeOK, CapabilityLease
<1>6. ASSUME NEW a \in Actions, NEW action, evaluate_gateway_action(a, action)
      PROVE  lease'[i].spent = lease[i].spent
  <2>1. lease'[i] = IF i = action.lease_id THEN Refreshed(lease[i]) ELSE lease[i]
    BY <1>6 DEF evaluate_gateway_action
  <2> QED BY <1>0, <2>1, RefreshedLease
<1>7. ASSUME NEW t \in Threads, consume_write(t)
      PROVE  \/ lease'[i].spent = lease[i].spent
             \/ request[t].entry.lease_id = i /\ lease'[i].spent = request[t].projected
  <2> DEFINE l == request[t].entry.lease_id
  <2>1. request[t].projected \in Amounts
    BY <1>0, <1>7 DEF TypeOK, consume_write, PendingRequest
  <2>2. lease'[i] = IF l = i THEN Charged(lease[i], request[t].projected) ELSE lease[i]
    BY <1>0, <1>7 DEF consume_write, TypeOK
  <2> HIDE DEF l
  <2> QED BY <1>0, <2>1, <2>2, ChargedLease DEF l
<1>8. \/ UNCHANGED vars
      \/ \E u \in Users : approve(u)
      \/ leave_approved
      \/ \E u \in Users, d \in {"APPROVE", "DENY"} : record_reviewer_attestation(u, d)
      \/ \E a \in Actions, d \in {"ALLOW", "DENY"} : record_action_authorization(a, d)
      \/ \E t \in Threads, a \in Actions, used \in Consumptions : consume_check(t, a, used)
      \/ \E t \in Threads, l \in Leases, seconds \in Time :
            issue_credential_grant(t, l, seconds)
      \/ \E t \in Threads, g \in Grants : grant_write(t, g)
      \/ \E t \in Threads : revoke_walk(t)
      \/ \E t \in Threads, reached \in SUBSET Grants : revoke_aborted(t, reached)
      \/ \E g \in Grants : revoke_credential_grant(g)
      \/ Tick
      => lease'[i].spent = lease[i].spent
  BY DEF vars, approve, leave_approved, record_reviewer_attestation,
         record_action_authorization, consume_check, CheckPassed,
         issue_credential_grant,
         grant_write, StoreGrant, revoke_walk, revoke_aborted, revoke_credential_grant, Tick
<1> QED BY <1>3, <1>4, <1>5, <1>6, <1>7, <1>8, NextCases

\* No lease is charged above its budget: a new lease starts with nothing
\* spent, and a request writes projections that were compared.
LEMMA NextBudget == TrustInvariant /\ [Next]_vars => BudgetsHold'
<1> SUFFICES ASSUME TrustInvariant, [Next]_vars, NEW i \in Leases, NEW x \in Resources
             PROVE  lease'[i].spent[x] <= Budget[x]
  BY DEF BudgetsHold
<1>1. /\ TypeOK
      /\ lease[i].spent[x] <= Budget[x]
      /\ Budget[x] \in Nat
  BY BudgetAssumption DEF TrustInvariant, TypeOK, BudgetsHold
<1>2. ASSUME NEW t \in Threads, consume_write(t)
      PROVE  request[t].projected[x] <= Budget[x]
  BY <1>2 DEF TrustInvariant, RequestsJustified, consume_write
<1>3. Nothing[x] <= Budget[x]
  BY <1>1 DEF Nothing
<1> QED BY <1>1, <1>2, <1>3, SpentStep

\* Authorizations are only ever added.
LEMMA AuthorizationsGrow == [Next]_vars => authorizations \subseteq authorizations'
<1> SUFFICES ASSUME [Next]_vars PROVE authorizations \subseteq authorizations'
  OBVIOUS
<1>1. CASE UNCHANGED vars
  BY <1>1 DEF vars
<1>2. ASSUME NEW a \in Actions, NEW d, record_action_authorization(a, d)
      PROVE  authorizations \subseteq authorizations'
  BY <1>2 DEF record_action_authorization
<1>3. \/ \E u \in Users : approve(u)
      \/ leave_approved
      \/ \E u \in Users, d \in {"APPROVE", "DENY"} : record_reviewer_attestation(u, d)
      \/ \E l \in Leases, agent \in Agents \cup {Unbound}, mode \in Modes,
            expires \in Expiries, count \in ReviewerCounts, prevent_self \in BOOLEAN :
            issue_capability_lease(l, agent, mode, expires, count, prevent_self)
      \/ \E l \in Leases : refresh_lease_status(l)
      \/ \E t \in Threads, l \in Leases : revoke_capability_lease(t, l)
      \/ \E a \in Actions, l \in Leases \cup {NoLease}, k \in Kinds, e \in Estimates :
            evaluate_gateway_action(a, [lease_id |-> l, kind |-> k, estimate |-> e])
      \/ \E t \in Threads, a \in Actions, used \in Consumptions : consume_check(t, a, used)
      \/ \E t \in Threads, l \in Leases, seconds \in Time :
            issue_credential_grant(t, l, seconds)
      \/ \E t \in Threads, g \in Grants : grant_write(t, g)
      \/ \E t \in Threads : revoke_walk(t)
      \/ \E t \in Threads, reached \in SUBSET Grants : revoke_aborted(t, reached)
      \/ \E g \in Grants : revoke_credential_grant(g)
      \/ \E t \in Threads : consume_write(t)
      \/ Tick
      => authorizations' = authorizations
  BY DEF approve, leave_approved, record_reviewer_attestation, issue_capability_lease,
         refresh_lease_status, revoke_capability_lease, evaluate_gateway_action,
         consume_check, CheckPassed, issue_credential_grant,
         grant_write, StoreGrant, revoke_walk, revoke_aborted, revoke_credential_grant,
         consume_write, Tick
<1> QED BY <1>1, <1>2, <1>3, NextCases

\* What justifies an entry is never withdrawn.
LEMMA JustifiedStays ==
    ASSUME TypeOK, [Next]_vars, NEW entry, Justified(entry)
    PROVE  Justified(entry)'
<1>1. Kept(entry.lease_id) /\ Issued(entry.lease_id)'
  BY IssuedKept DEF Justified
<1>2. HumanAllowed(entry.action_id, entry.payload)
        => HumanAllowed(entry.action_id, entry.payload)'
  BY AuthorizationsGrow DEF HumanAllowed
<1> QED BY <1>1, <1>2 DEF Justified, Kept

\* Which handler changes the consumptions.
LEMMA ConsumptionStep ==
    ASSUME [Next]_vars
    PROVE  UNCHANGED consumptions \/ \E t \in Threads : consume_write(t)
BY NextCases DEF approve, leave_approved, record_reviewer_attestation,
                 issue_capability_lease, refresh_lease_status,
                 revoke_capability_lease, evaluate_gateway_action,
                 record_action_authorization, consume_check, CheckPassed,
                 issue_credential_grant,
         grant_write, StoreGrant, revoke_walk, revoke_aborted, revoke_credential_grant, Tick, vars

\* Which handlers change the proposed actions and their decisions.
LEMMA DecisionStep ==
    ASSUME [Next]_vars
    PROVE  \/ UNCHANGED <<proposed, latest, authorizations>>
           \/ \E a \in Actions, l \in Leases \cup {NoLease}, k \in Kinds, e \in Estimates :
                 evaluate_gateway_action(a, [lease_id |-> l, kind |-> k, estimate |-> e])
           \/ \E a \in Actions, d \in {"ALLOW", "DENY"} : record_action_authorization(a, d)
BY NextCases DEF approve, leave_approved, record_reviewer_attestation,
                 issue_capability_lease, refresh_lease_status,
                 revoke_capability_lease, consume_check, CheckPassed,
                 consume_write, issue_credential_grant,
         grant_write, StoreGrant, revoke_walk, revoke_aborted, revoke_credential_grant, Tick, vars

\* Which handler changes the attestations.
LEMMA AttestationStep ==
    ASSUME [Next]_vars
    PROVE  \/ UNCHANGED attestations
           \/ \E u \in Users, d \in {"APPROVE", "DENY"} : record_reviewer_attestation(u, d)
BY NextCases DEF approve, leave_approved, issue_capability_lease,
                 refresh_lease_status, revoke_capability_lease,
                 evaluate_gateway_action, record_action_authorization,
                 consume_check, CheckPassed, consume_write,
                 issue_credential_grant,
         grant_write, StoreGrant, revoke_walk, revoke_aborted, revoke_credential_grant, Tick, vars

\* The clock does not go back.
LEMMA ClockStep ==
    ASSUME TypeOK, [Next]_vars
    PROVE  now \in Int /\ now' \in Int /\ now <= now'
<1>1. now \in Int
  BY DEF TypeOK, Time
<1>2. UNCHANGED now \/ Tick
  BY NextCases DEF approve, leave_approved, record_reviewer_attestation,
                   issue_capability_lease, refresh_lease_status,
                   revoke_capability_lease, evaluate_gateway_action,
                   record_action_authorization, consume_check, CheckPassed,
                   consume_write, issue_credential_grant,
         grant_write, StoreGrant, revoke_walk, revoke_aborted, revoke_credential_grant, vars
<1> QED BY <1>1, <1>2 DEF Tick

\* A lease that a step did not issue is live after the step only if it was
\* live before.
LEMMA LiveBefore ==
    ASSUME TypeOK, [Next]_vars, NEW l \in Leases, LiveLease(l)', Kept(l)
    PROVE  LiveLease(l)
<1>1. lease[l].expires_at \in Int
  BY DEF TypeOK, CapabilityLease, Time
<1> QED BY <1>1, ClockStep DEF LiveLease, Kept

\* Which steps change the credential grants.
LEMMA GrantStep ==
    ASSUME [Next]_vars
    PROVE  \/ UNCHANGED grant
           \/ \E t \in Threads, g \in Grants : grant_write(t, g)
           \/ \E l, S : grant' = Revoked(l, S)
           \/ \E g \in Grants : revoke_credential_grant(g)
<1>1. ASSUME NEW t \in Threads, revoke_walk(t) PROVE \E l, S : grant' = Revoked(l, S)
  BY <1>1 DEF revoke_walk
<1>2. ASSUME NEW t \in Threads, NEW reached, revoke_aborted(t, reached)
      PROVE  \E l, S : grant' = Revoked(l, S)
  BY <1>2 DEF revoke_aborted
<1> QED
  BY <1>1, <1>2, NextCases
     DEF approve, leave_approved, record_reviewer_attestation, issue_capability_lease,
         refresh_lease_status, revoke_capability_lease, evaluate_gateway_action,
         record_action_authorization, consume_check, CheckPassed, consume_write,
         issue_credential_grant, Tick, vars

\* A credential keeps its lease and expiry, and its revocation.
GrantKept(g) ==
    /\ grant'[g].lease_id = grant[g].lease_id
    /\ grant'[g].expires_at = grant[g].expires_at
    /\ grant[g].revoked => grant'[g].revoked

\* Every handler keeps every grant, except the one that stores it.
LEMMA GrantsKept ==
    ASSUME TypeOK, [Next]_vars, NEW g \in Grants
    PROVE  GrantKept(g) \/ \E t \in Threads : grant_write(t, g)
<1>0. grant[g] \in CredentialGrant
  BY DEF TypeOK
<1>1. CASE UNCHANGED grant
  BY <1>1 DEF GrantKept
<1>2. ASSUME NEW l, NEW S, grant' = Revoked(l, S) PROVE GrantKept(g)
  <2>1. grant'[g] \in {grant[g], [grant[g] EXCEPT !.revoked = TRUE]}
    BY <1>2 DEF Revoked
  <2> QED BY <1>0, <2>1, RevokedGrant DEF GrantKept
<1>3. ASSUME NEW k \in Grants, revoke_credential_grant(k) PROVE GrantKept(g)
  BY <1>0, <1>3 DEF revoke_credential_grant, CredentialGrant, TypeOK, GrantKept
<1>4. ASSUME NEW t \in Threads, NEW k \in Grants, k # g, grant_write(t, k)
      PROVE  GrantKept(g)
  BY <1>0, <1>4 DEF grant_write, StoreGrant, TypeOK, GrantKept
<1> QED BY <1>1, <1>2, <1>3, <1>4, GrantStep

\* A request passes its check with a justification: the policy allowed the
\* action under a lease that is not STRICT, or a human allowed its payload.
LEMMA NextRequests == TrustInvariant /\ [Next]_vars => RequestsJustified'
<1> SUFFICES ASSUME TrustInvariant, [Next]_vars, NEW i \in Threads, request'[i].phase = "checked"
             PROVE  /\ Justified(request[i].entry)'
                    /\ \A x \in Resources : request'[i].projected[x] <= Budget[x]
  BY DEF RequestsJustified
<1>0. TypeOK
  BY DEF TrustInvariant
<1>7. ASSUME request[i].phase = "checked",
             request'[i] = [request[i] EXCEPT !.overtaken = TRUE]
      PROVE  request'[i].entry = request[i].entry /\ request'[i].projected = request[i].projected
  BY <1>0, <1>7 DEF TypeOK, PendingRequest
<1>1. CASE /\ request[i].phase = "checked"
           /\ request'[i].entry = request[i].entry
           /\ request'[i].projected = request[i].projected
  <2>1. /\ Justified(request[i].entry)
        /\ \A x \in Resources : request[i].projected[x] <= Budget[x]
    BY <1>1 DEF TrustInvariant, RequestsJustified
  <2>2. \A e : Justified(e) => /\ Kept(e.lease_id)
                              /\ Issued(e.lease_id)'
    BY <1>0, IssuedKept DEF Justified
  <2>3. authorizations \subseteq authorizations'
    BY AuthorizationsGrow
  <2> QED BY <1>1, <2>1, <2>2, <2>3 DEF Justified, HumanAllowed, Kept, Issued
<1>2. ASSUME NEW a \in Actions, NEW used \in Consumptions, consume_check(i, a, used)
      PROVE  /\ Justified(request[i].entry)'
             /\ \A x \in Resources : request'[i].projected[x] <= Budget[x]
  <2> DEFINE l == proposed[a].lease_id
             entry == [action_id |-> a, lease_id |-> l, used |-> used,
                       payload |-> proposed[a]]
  <2>1. /\ request'[i].entry = entry
        /\ \A x \in Resources : request'[i].projected[x] <= Budget[x]
    BY <1>0, <1>2, CheckedRequest
  <2>2. l \in Leases /\ lease[l].status = "ACTIVE"
    BY <1>0, <1>2 DEF consume_check, LiveLease, TypeOK, ProposedAction
  <2>3. lease[l].mode = "STRICT" => HumanAllowed(a, proposed[a])
    <3>1. latest[a].human => HumanAllowed(a, proposed[a])
      BY <1>2 DEF consume_check, verify_human_allow, HumanAllowed
    <3>2. ~latest[a].human => lease[l].mode # "STRICT"
      BY <1>2 DEF consume_check, TrustInvariant, DecisionsFollowMode
    <3> QED BY <3>1, <3>2
  <2>4. UNCHANGED <<lease, authorizations>>
    BY <1>2 DEF consume_check, CheckPassed
  <2> QED BY <2>1, <2>2, <2>3, <2>4 DEF Justified, Issued, HumanAllowed
<1>3. ASSUME NEW l, revoke_capability_lease(i, l) PROVE FALSE
  BY <1>0, <1>3 DEF revoke_capability_lease, TypeOK
<1>4. ASSUME NEW l, NEW seconds, issue_credential_grant(i, l, seconds) PROVE FALSE
  BY <1>0, <1>4 DEF issue_credential_grant, TypeOK
<1>5. request'[i] # IdleRequest
  BY DEF IdleRequest
<1>6. ASSUME request[i].phase = "revoking",
             request'[i] = [request[i] EXCEPT !.disturbed = TRUE]
      PROVE  FALSE
  BY <1>0, <1>6 DEF TypeOK, PendingRequest
<1> QED BY <1>0, <1>1, <1>2, <1>3, <1>4, <1>5, <1>6, <1>7, RequestAfter

\* A consumption is recorded with the justification of its request.
LEMMA NextConsumptions == TrustInvariant /\ [Next]_vars => ConsumptionsJustified'
<1> SUFFICES ASSUME TrustInvariant, [Next]_vars, NEW c \in consumptions'
             PROVE  Justified(c)'
  BY DEF ConsumptionsJustified
<1>1. Justified(c)
  <2>1. CASE c \in consumptions
    BY <2>1 DEF TrustInvariant, ConsumptionsJustified
  <2>2. ASSUME NEW t \in Threads, consume_write(t), c \notin consumptions
        PROVE  Justified(c)
    BY <2>2 DEF consume_write, TrustInvariant, RequestsJustified
  <2> QED BY <2>1, <2>2, ConsumptionStep
<1> QED BY <1>1, JustifiedStays DEF TrustInvariant

\* The policy decides by the mode of the lease it refreshed, and the mode of
\* an issued lease does not change; a human decision is marked as such.
LEMMA NextDecisions == TrustInvariant /\ [Next]_vars => DecisionsFollowMode'
<1> DEFINE After(i, l) ==
      /\ (latest'[i].decision = "ALLOW" /\ ~latest'[i].human)
            => l \in Leases /\ lease'[l].status # "ABSENT" /\ lease'[l].mode # "STRICT"
      /\ (latest'[i].decision = "REQUIRE_APPROVAL" /\ l # NoLease)
            => l \in Leases /\ lease'[l].status # "ABSENT" /\ lease'[l].mode = "STRICT"
<1> SUFFICES ASSUME TrustInvariant, [Next]_vars, NEW i \in Actions
             PROVE  After(i, proposed'[i].lease_id)
  BY DEF DecisionsFollowMode, Issued
<1>0. TypeOK
  BY DEF TrustInvariant
<1>1. CASE proposed'[i] = proposed[i] /\ latest'[i] = latest[i]
  <2>1. LET l == proposed[i].lease_id IN
        /\ (latest[i].decision = "ALLOW" /\ ~latest[i].human)
              => Issued(l) /\ lease[l].mode # "STRICT"
        /\ (latest[i].decision = "REQUIRE_APPROVAL" /\ l # NoLease)
              => Issued(l) /\ lease[l].mode = "STRICT"
    BY DEF TrustInvariant, DecisionsFollowMode
  <2>2. \A l : Issued(l) => /\ l \in Leases /\ lease'[l].status # "ABSENT"
                            /\ lease'[l].mode = lease[l].mode
    BY <1>0, IssuedKept DEF Issued, Kept
  <2> QED BY <1>1, <2>1, <2>2
<1>2. ASSUME NEW a \in Actions, NEW l \in Leases \cup {NoLease}, NEW k \in Kinds,
             NEW e \in Estimates, a = i,
             evaluate_gateway_action(a, [lease_id |-> l, kind |-> k, estimate |-> e])
      PROVE  proposed'[i].lease_id = l /\ After(i, l)
  <2> DEFINE action == [lease_id |-> l, kind |-> k, estimate |-> e]
  <2>1. action.lease_id = l
    OBVIOUS
  <2> HIDE DEF action
  <2>2. evaluate_gateway_action(i, action)
    BY <1>2 DEF action
  <2>3. /\ proposed'[i] = action
        /\ latest'[i].decision = evaluate_proposed_action(action)
    BY <1>0, <2>2 DEF evaluate_gateway_action, TypeOK
  <2>4. CASE l = NoLease
    <3>1. evaluate_proposed_action(action) \in {"BLOCK", "REQUIRE_APPROVAL"}
      BY <2>1, <2>4 DEF evaluate_proposed_action, evaluate_unleased
    <3> QED BY <2>1, <2>3, <2>4, <3>1
  <2>5. CASE l # NoLease
    <3>1. /\ l \in Leases
          /\ lease[l] \in CapabilityLease
          /\ lease[l].status # "ABSENT"
      BY <1>0, <2>1, <2>2, <2>5 DEF evaluate_gateway_action, TypeOK
    <3>2. lease'[l] = Refreshed(lease[l])
      BY <2>1, <2>2, <3>1 DEF evaluate_gateway_action
    <3>3. /\ Refreshed(lease[l]) \in CapabilityLease
          /\ Refreshed(lease[l]).status # "ABSENT"
      BY <3>1, RefreshedLease
    <3>4. evaluate_proposed_action(action) = evaluate_leased(action, Refreshed(lease[l]))
      BY <2>1, <2>5 DEF evaluate_proposed_action
    <3> QED BY <2>1, <2>3, <3>1, <3>2, <3>3, <3>4, PolicyFollowsMode
  <2> QED BY <2>4, <2>5
<1>3. ASSUME NEW a \in Actions, NEW action, a # i, evaluate_gateway_action(a, action)
      PROVE  proposed'[i] = proposed[i] /\ latest'[i] = latest[i]
  BY <1>0, <1>3 DEF evaluate_gateway_action, TypeOK
<1>4. ASSUME NEW a \in Actions, NEW d \in {"ALLOW", "DENY"}, a = i,
             record_action_authorization(a, d)
      PROVE  latest'[i].human /\ latest'[i].decision # "REQUIRE_APPROVAL"
  BY <1>0, <1>4 DEF record_action_authorization, TypeOK
<1>5. ASSUME NEW a \in Actions, NEW d \in {"ALLOW", "DENY"}, a # i,
             record_action_authorization(a, d)
      PROVE  proposed'[i] = proposed[i] /\ latest'[i] = latest[i]
  BY <1>0, <1>5 DEF record_action_authorization, TypeOK
<1>6. CASE UNCHANGED <<proposed, latest, authorizations>>
  BY <1>1, <1>6
<1> QED BY <1>1, <1>2, <1>3, <1>4, <1>5, <1>6, DecisionStep

\* An authorization is recorded once per action, for an action that waits
\* under a STRICT lease or without any.
LEMMA NextAuthorizations == TrustInvariant /\ [Next]_vars => AuthorizationsFollowMode'
<1> SUFFICES ASSUME TrustInvariant, [Next]_vars PROVE AuthorizationsFollowMode'
  OBVIOUS
<1>0. TypeOK
  BY DEF TrustInvariant
<1>1. \A l : Issued(l) => /\ l \in Leases /\ lease'[l].status # "ABSENT"
                          /\ lease'[l].mode = lease[l].mode
  BY <1>0, IssuedKept DEF Issued, Kept
<1>2. \A auth \in authorizations :
        auth.payload.lease_id # NoLease =>
            /\ Issued(auth.payload.lease_id)
            /\ lease[auth.payload.lease_id].mode = "STRICT"
  BY DEF TrustInvariant, AuthorizationsFollowMode
<1>3. CASE authorizations' = authorizations
  BY <1>1, <1>2, <1>3 DEF TrustInvariant, AuthorizationsFollowMode, Issued
<1>4. ASSUME NEW a \in Actions, NEW d \in {"ALLOW", "DENY"},
             record_action_authorization(a, d)
      PROVE  AuthorizationsFollowMode'
  <2> DEFINE new == [action_id |-> a, decision |-> d, payload |-> proposed[a]]
  <2>1. /\ authorizations' = authorizations \cup {new}
        /\ \A auth \in authorizations : auth.action_id # a
        /\ UNCHANGED lease
    BY <1>4 DEF record_action_authorization
  <2>2. proposed[a].lease_id # NoLease =>
            /\ Issued(proposed[a].lease_id)
            /\ lease[proposed[a].lease_id].mode = "STRICT"
    BY <1>4 DEF record_action_authorization, TrustInvariant, DecisionsFollowMode
  <2>3. new.payload = proposed[a] /\ new.action_id = a
    OBVIOUS
  <2> HIDE DEF new
  <2>4. \A auth \in authorizations' :
          auth.payload.lease_id # NoLease =>
            /\ Issued(auth.payload.lease_id)
            /\ lease[auth.payload.lease_id].mode = "STRICT"
    BY <1>2, <2>1, <2>2, <2>3
  <2>5. \A p, q \in authorizations' : p.action_id = q.action_id => p = q
    BY <2>1, <2>3 DEF TrustInvariant, AuthorizationsFollowMode
  <2> QED BY <1>1, <2>4, <2>5 DEF AuthorizationsFollowMode, Issued
<1>5. ASSUME NEW a \in Actions, NEW action, evaluate_gateway_action(a, action)
      PROVE  authorizations' = authorizations
  BY <1>5 DEF evaluate_gateway_action
<1> QED BY <1>3, <1>4, <1>5, DecisionStep

\* A request for a credential compares the lifetime with its lease, and the
\* expiry of a lease does not change.
LEMMA NextGrantRequests == TrustInvariant /\ [Next]_vars => GrantRequestsHold'
<1> SUFFICES ASSUME TrustInvariant, [Next]_vars, NEW u \in Threads,
                    request'[u].phase = "granting"
             PROVE  /\ Issued(request[u].lease_id)'
                    /\ request'[u].checked_at + request'[u].seconds
                          <= lease'[request'[u].lease_id].expires_at
  BY DEF GrantRequestsHold
<1>0. TypeOK
  BY DEF TrustInvariant
<1>1. CASE request'[u] = request[u]
  <2> DEFINE l == request[u].lease_id
  <2>1. Issued(l) /\ request[u].checked_at + request[u].seconds <= lease[l].expires_at
    BY <1>1 DEF TrustInvariant, GrantRequestsHold
  <2>2. \A k : Issued(k) => Kept(k) /\ Issued(k)'
    BY <1>0, IssuedKept
  <2>3. Kept(l) /\ l \in Leases /\ lease'[l].status # "ABSENT"
    <3> HIDE DEF l
    <3> QED BY <2>1, <2>2 DEF Issued
  <2> QED BY <1>1, <2>1, <2>3 DEF Kept, Issued
<1>2. ASSUME NEW l \in Leases, NEW seconds \in Time, issue_credential_grant(u, l, seconds)
      PROVE  /\ Issued(request[u].lease_id)'
             /\ request'[u].checked_at + request'[u].seconds
                   <= lease'[request'[u].lease_id].expires_at
  <2>1. /\ request'[u].lease_id = l /\ request'[u].seconds = seconds
        /\ request'[u].checked_at = now
        /\ lease' = lease /\ lease[l].status = "ACTIVE"
        /\ seconds <= lease[l].expires_at - now
    BY <1>0, <1>2 DEF issue_credential_grant, LiveLease, TypeOK
  <2>2. now \in Int /\ seconds \in Int /\ lease[l].expires_at \in Int
    BY <1>0, MaxTimeAssumption DEF TypeOK, CapabilityLease, Time
  <2> QED BY <2>1, <2>2 DEF Issued
<1>3. request'[u] # IdleRequest
  BY DEF IdleRequest
<1>4. ASSUME NEW l, revoke_capability_lease(u, l) PROVE FALSE
  BY <1>0, <1>4 DEF revoke_capability_lease, TypeOK
<1>5. ASSUME NEW a \in Actions, NEW used \in Consumptions, consume_check(u, a, used)
      PROVE  FALSE
  BY <1>0, <1>5, CheckedRequest
<1>6. ASSUME request[u].phase = "checked",
             request'[u] = [request[u] EXCEPT !.overtaken = TRUE]
      PROVE  FALSE
  BY <1>0, <1>6 DEF TypeOK, PendingRequest
<1>7. ASSUME request[u].phase = "revoking",
             request'[u] = [request[u] EXCEPT !.disturbed = TRUE]
      PROVE  FALSE
  BY <1>0, <1>7 DEF TypeOK, PendingRequest
<1> QED BY <1>0, <1>1, <1>2, <1>3, <1>4, <1>5, <1>6, <1>7, RequestAfter

\* A credential is stored for a lease that was live when it was looked at.
LEMMA NextGrants == TrustInvariant /\ [Next]_vars => GrantsOfIssuedLeases'
<1> SUFFICES ASSUME TrustInvariant, [Next]_vars, NEW i \in Grants, grant'[i].lease_id # NoLease
             PROVE  Issued(grant[i].lease_id)'
  BY DEF GrantsOfIssuedLeases
<1>0. TypeOK
  BY DEF TrustInvariant
<1>1. \A l : Issued(l) => l \in Leases /\ lease'[l].status # "ABSENT"
  BY <1>0, IssuedKept DEF Issued
<1>2. Issued(grant'[i].lease_id)
  <2>1. grant[i].lease_id # NoLease => Issued(grant[i].lease_id)
    BY DEF TrustInvariant, GrantsOfIssuedLeases
  <2>2. grant[i] \in CredentialGrant
    BY <1>0 DEF TypeOK
  <2>3. ASSUME NEW t \in Threads, grant_write(t, i) PROVE Issued(grant'[i].lease_id)
    <3>1. grant'[i].lease_id = request[t].lease_id /\ request[t].phase = "granting"
      BY <1>0, <2>3 DEF grant_write, StoreGrant, TypeOK
    <3>2. Issued(request[t].lease_id)
      BY <3>1 DEF TrustInvariant, GrantRequestsHold
    <3> QED BY <3>1, <3>2
  <2> QED BY <1>0, <2>1, <2>3, GrantsKept DEF GrantKept
<1> QED BY <1>1, <1>2 DEF Issued

----------------------------------------------------------------------------
(* Theorems.                                                               *)

\* In the initial state nothing is issued, proposed, decided or requested.
LEMMA InitInvariant == Init => TrustInvariant
<1> SUFFICES ASSUME Init PROVE TrustInvariant
  OBVIOUS
<1>1. TypeOK
  BY InitType
<1>2. BudgetsHold
  BY BudgetAssumption DEF Init, BudgetsHold, Nothing
<1>3. RequestsJustified
  BY DEF Init, RequestsJustified, IdleRequest
<1>4. ConsumptionsJustified /\ AuthorizationsFollowMode
  BY DEF Init, ConsumptionsJustified, AuthorizationsFollowMode
<1>5. DecisionsFollowMode
  BY DEF Init, DecisionsFollowMode
<1>6. GrantsOfIssuedLeases /\ GrantRequestsHold
  BY DEF Init, GrantsOfIssuedLeases, GrantRequestsHold, IdleRequest
<1> QED BY <1>1, <1>2, <1>3, <1>4, <1>5, <1>6 DEF TrustInvariant

\* The inductive invariant of the trust control plane holds in every state,
\* whatever requests overlap.
THEOREM Invariant == Spec => []TrustInvariant
<1>1. TrustInvariant /\ [Next]_vars => TrustInvariant'
  BY NextType, NextBudget, NextRequests, NextConsumptions, NextDecisions,
     NextAuthorizations, NextGrantRequests, NextGrants DEF TrustInvariant
<1> QED BY <1>1, InitInvariant, PTL DEF Spec

\* The tables of the store keep their types.
THEOREM TypeCorrect == Spec => []TypeOK
<1>1. TrustInvariant => TypeOK
  BY DEF TrustInvariant
<1> QED BY <1>1, Invariant, PTL

\* No interleaving of consume requests drives the consumed budget of a lease
\* above its scope.
THEOREM BudgetSafe == Spec => []BudgetsHold
<1>1. TrustInvariant => BudgetsHold
  BY DEF TrustInvariant
<1> QED BY <1>1, Invariant, PTL

\* Nothing is consumed against a STRICT lease without a signed human ALLOW
\* for the consumed payload.
THEOREM StrictSafe == Spec => []StrictNeedsHuman
<1>1. TrustInvariant => StrictNeedsHuman
  BY DEF TrustInvariant, ConsumptionsJustified, Justified, HumanAllowed, StrictNeedsHuman
<1> QED BY <1>1, Invariant, PTL

\* A payload a reviewer denied is never consumed: an authorization exists
\* only for a STRICT lease, there the consumption needs an ALLOW, and an
\* action has one authorization.
THEOREM DenySafe == Spec => []DeniedNeverConsumed
<1>1. TrustInvariant => DeniedNeverConsumed
  <2> SUFFICES ASSUME TrustInvariant, NEW auth \in authorizations, NEW c \in consumptions,
                      auth.decision = "DENY", auth.action_id = c.action_id,
                      auth.payload = c.payload
               PROVE  FALSE
    BY DEF DeniedNeverConsumed
  <2>1. /\ c.lease_id = c.payload.lease_id
        /\ c.lease_id \in Leases
        /\ lease[c.lease_id].mode = "STRICT" => HumanAllowed(c.action_id, c.payload)
    BY DEF TrustInvariant, ConsumptionsJustified, Justified, Issued
  <2>2. lease[c.lease_id].mode = "STRICT"
    BY <2>1, NoLeaseAssumption DEF TrustInvariant, AuthorizationsFollowMode
  <2>3. PICK p \in authorizations : p.action_id = c.action_id /\ p.decision = "ALLOW"
    BY <2>1, <2>2 DEF HumanAllowed
  <2>4. p = auth
    BY <2>3 DEF TrustInvariant, AuthorizationsFollowMode
  <2> QED BY <2>3, <2>4
<1> QED BY <1>1, Invariant, PTL

\* A denial of the sealed payload is never lost and no lease becomes live
\* under it.
THEOREM DenialStands == Spec => DenialIsFinal
<1> DEFINE Stands == has_denial => /\ has_denial'
                                   /\ \A l \in Leases : LiveLease(l)' => LiveLease(l)
<1>1. TrustInvariant /\ [Next]_vars => [Stands]_vars
  <2> SUFFICES ASSUME TrustInvariant, [Next]_vars, has_denial PROVE Stands
    OBVIOUS
  <2>0. TypeOK
    BY DEF TrustInvariant
  <2>1. attestations \subseteq attestations'
    <3>1. ASSUME NEW u, NEW d, record_reviewer_attestation(u, d)
          PROVE  attestations \subseteq attestations'
      BY <3>1 DEF record_reviewer_attestation
    <3> QED BY <3>1, AttestationStep
  <2>2. ASSUME NEW l \in Leases, LiveLease(l)' PROVE LiveLease(l)
    <3>1. Kept(l)
      BY <2>0, LeaseStep DEF issue_capability_lease
    <3> QED BY <2>0, <2>2, <3>1, LiveBefore
  <2> QED BY <2>1, <2>2 DEF has_denial
<1> QED BY <1>1, Invariant, PTL DEF Spec, DenialIsFinal

\* An agent never has two live leases of one approval.
THEOREM OneLeasePerAgent == Spec => []OneLiveLease
<1>1. Init => OneLiveLease
  BY DEF Init, OneLiveLease, LiveLease
<1>2. TrustInvariant /\ OneLiveLease /\ [Next]_vars => OneLiveLease'
  <2> SUFFICES ASSUME TrustInvariant, OneLiveLease, [Next]_vars, NEW k \in Leases, NEW l \in Leases,
                      LiveLease(k)', LiveLease(l)', lease'[k].agent = lease'[l].agent,
                      k # l
               PROVE  FALSE
    BY DEF OneLiveLease
  <2>0. TypeOK
    BY DEF TrustInvariant
  <2>1. CASE Kept(k) /\ Kept(l)
    <3>1. LiveLease(k) /\ LiveLease(l)
      BY <2>0, <2>1, LiveBefore
    <3> QED BY <2>1, <3>1 DEF OneLiveLease, Kept
  <2>2. ASSUME NEW i \in Leases, NEW j \in Leases, i # j,
               lease'[i].agent = lease'[j].agent, LiveLease(j)',
               NEW agent, NEW mode, NEW expires, NEW count, NEW self,
               issue_capability_lease(i, agent, mode, expires, count, self)
        PROVE  FALSE
    <3>1. /\ lease'[j] = lease[j]
          /\ lease'[i].agent = agent
          /\ now' = now
          /\ ~ (LiveLease(j) /\ lease[j].agent = agent)
      BY <2>0, <2>2 DEF issue_capability_lease, TypeOK
    <3> QED BY <2>2, <3>1 DEF LiveLease
  <2> QED BY <2>0, <2>1, <2>2, LeaseStep
<1> QED BY <1>1, <1>2, Invariant, PTL DEF Spec

\* A lease becomes REVOKED only in revoke_capability_lease.
LEMMA RevokedBy ==
    ASSUME TypeOK, [Next]_vars, NEW i \in Leases,
           lease'[i].status = "REVOKED", lease[i].status # "REVOKED"
    PROVE  \E t \in Threads : revoke_capability_lease(t, i)
<1>0. lease[i] \in CapabilityLease
  BY DEF TypeOK
<1>1. ASSUME NEW l \in Leases, NEW agent, NEW mode, NEW expires, NEW count, NEW self,
             issue_capability_lease(l, agent, mode, expires, count, self)
      PROVE  FALSE
  BY <1>1 DEF issue_capability_lease, TypeOK
<1>2. ASSUME NEW l \in Leases, refresh_lease_status(l) PROVE FALSE
  <2>1. lease'[i] = IF l = i THEN Refreshed(lease[i]) ELSE lease[i]
    BY <1>2 DEF refresh_lease_status, TypeOK
  <2> QED BY <1>0, <2>1, RefreshedLease
<1>3. ASSUME NEW a \in Actions, NEW action, evaluate_gateway_action(a, action) PROVE FALSE
  <2>1. lease'[i] = IF i = action.lease_id THEN Refreshed(lease[i]) ELSE lease[i]
    BY <1>3 DEF evaluate_gateway_action
  <2> QED BY <1>0, <2>1, RefreshedLease
<1>4. ASSUME NEW t \in Threads, consume_write(t) PROVE FALSE
  <2> DEFINE l == request[t].entry.lease_id
  <2>1. request[t].projected \in Amounts
    BY <1>4 DEF TypeOK, consume_write, PendingRequest
  <2>2. lease'[i] = IF l = i THEN Charged(lease[i], request[t].projected) ELSE lease[i]
    BY <1>4 DEF consume_write, TypeOK
  <2> HIDE DEF l
  <2> QED BY <1>0, <2>1, <2>2, ChargedLease
<1>5. ASSUME NEW t \in Threads, NEW l \in Leases, revoke_capability_lease(t, l)
      PROVE  l = i
  BY <1>5 DEF revoke_capability_lease, TypeOK
<1>6. ~ UNCHANGED lease
  OBVIOUS
<1>7. \/ \E l \in Leases, agent \in Agents \cup {Unbound}, mode \in Modes,
            expires \in Expiries, count \in ReviewerCounts, prevent_self \in BOOLEAN :
            issue_capability_lease(l, agent, mode, expires, count, prevent_self)
      \/ \E l \in Leases : refresh_lease_status(l)
      \/ \E t \in Threads, l \in Leases : revoke_capability_lease(t, l)
      \/ \E a \in Actions, l \in Leases \cup {NoLease}, k \in Kinds, e \in Estimates :
            evaluate_gateway_action(a, [lease_id |-> l, kind |-> k, estimate |-> e])
      \/ \E t \in Threads : consume_write(t)
  BY <1>6, NextCases DEF vars, approve, leave_approved, record_reviewer_attestation,
         record_action_authorization, consume_check, CheckPassed,
         issue_credential_grant,
         grant_write, StoreGrant, revoke_walk, revoke_aborted, revoke_credential_grant, Tick
<1> QED BY <1>1, <1>2, <1>3, <1>4, <1>5, <1>7

\* The history of overlapping requests only grows.
LEMMA HistoryGrows ==
    ASSUME TypeOK, [Next]_vars
    PROVE  /\ history.late \subseteq history'.late
           /\ history.delayed \subseteq history'.delayed
           /\ history.aborted \subseteq history'.aborted
           /\ history.miscounted \subseteq history'.miscounted
<1>1. history \in History
  BY DEF TypeOK
<1>2. ASSUME NEW t \in Threads, NEW g \in Grants, grant_write(t, g)
      PROVE  \E X, Y : history' = [history EXCEPT !.late = @ \cup X, !.delayed = @ \cup Y]
  <2>1. PICK X, Y : /\ X = (IF lease[request[t].lease_id].status = "REVOKED" THEN {g} ELSE {})
                    /\ Y = (IF now # request[t].checked_at THEN {g} ELSE {})
    OBVIOUS
  <2>2. history' = [history EXCEPT !.late = @ \cup X, !.delayed = @ \cup Y]
    BY <1>1, <1>2, <2>1 DEF grant_write, StoreGrant, History
  <2> QED BY <2>2
<1>3. ASSUME NEW t \in Threads, NEW reached, revoke_aborted(t, reached)
      PROVE  \E X : history' = [history EXCEPT !.aborted = @ \cup X]
  BY <1>3 DEF revoke_aborted
<1>4. ASSUME NEW t \in Threads, consume_write(t)
      PROVE  \E X : history' = [history EXCEPT !.miscounted = @ \cup X]
  <2>1. PICK X : X = IF request[t].overtaken
                     THEN {c.lease_id : c \in Replaced(request[t].entry) \cup {request[t].entry}}
                     ELSE {}
    OBVIOUS
  <2>2. history.miscounted \cup {} = history.miscounted
    OBVIOUS
  <2>3. history' = [history EXCEPT !.miscounted = @ \cup X]
    BY <1>4, <2>1, <2>2 DEF consume_write
  <2> QED BY <2>3
<1>5. \/ UNCHANGED vars
      \/ \E u \in Users : approve(u)
      \/ leave_approved
      \/ \E u \in Users, d \in {"APPROVE", "DENY"} : record_reviewer_attestation(u, d)
      \/ \E l \in Leases, agent \in Agents \cup {Unbound}, mode \in Modes,
            expires \in Expiries, count \in ReviewerCounts, prevent_self \in BOOLEAN :
            issue_capability_lease(l, agent, mode, expires, count, prevent_self)
      \/ \E l \in Leases : refresh_lease_status(l)
      \/ \E t \in Threads, l \in Leases : revoke_capability_lease(t, l)
      \/ \E a \in Actions, l \in Leases \cup {NoLease}, k \in Kinds, e \in Estimates :
            evaluate_gateway_action(a, [lease_id |-> l, kind |-> k, estimate |-> e])
      \/ \E a \in Actions, d \in {"ALLOW", "DENY"} : record_action_authorization(a, d)
      \/ \E t \in Threads, a \in Actions, used \in Consumptions : consume_check(t, a, used)
      \/ \E t \in Threads, l \in Leases, seconds \in Time :
            issue_credential_grant(t, l, seconds)
      \/ \E t \in Threads : revoke_walk(t)
      \/ \E g \in Grants : revoke_credential_grant(g)
      \/ Tick
      => history' = history
  BY DEF vars, approve, leave_approved, record_reviewer_attestation,
         issue_capability_lease, refresh_lease_status, revoke_capability_lease,
         evaluate_gateway_action, record_action_authorization, consume_check, CheckPassed,
         issue_credential_grant, revoke_walk, revoke_credential_grant, Tick
<1>6. \/ history' = history
      \/ \E X, Y : history' = [history EXCEPT !.late = @ \cup X, !.delayed = @ \cup Y]
      \/ \E X : history' = [history EXCEPT !.aborted = @ \cup X]
      \/ \E X : history' = [history EXCEPT !.miscounted = @ \cup X]
  BY <1>2, <1>3, <1>4, <1>5, NextCases
<1> QED BY <1>1, <1>6 DEF History

\* Thread t has marked lease l as revoked and not finished its walk.
Walking(t, l) == request[t].phase = "revoking" /\ request[t].lease_id = l

\* A walk goes on until it has revoked the grants of the lease or is aborted.
LEMMA WalkEnds ==
    ASSUME TypeOK, [Next]_vars, NEW t \in Threads, NEW l \in Leases, Walking(t, l)
    PROVE  \/ Walking(t, l)'
           \/ \A g \in Grants : grant'[g].lease_id = l => grant'[g].revoked
           \/ l \in history'.aborted
<1>0. /\ request[t] \in PendingRequest /\ history \in History
      /\ \A g \in Grants : grant[g] \in CredentialGrant
  BY DEF TypeOK
<1>1. CASE revoke_walk(t)
  <2>1. ASSUME NEW g \in Grants, grant'[g].lease_id = l PROVE grant'[g].revoked
    <3>1. grant'[g] = IF grant[g].lease_id = l
                      THEN [grant[g] EXCEPT !.revoked = TRUE] ELSE grant[g]
      BY <1>1 DEF revoke_walk, Revoked, Walking
    <3> QED BY <1>0, <2>1, <3>1, RevokedGrant
  <2> QED BY <2>1
<1>2. ASSUME NEW reached, revoke_aborted(t, reached) PROVE l \in history'.aborted
  BY <1>0, <1>2 DEF revoke_aborted, Walking, History
<1>3. ASSUME NEW u \in Threads, u # t, revoke_walk(u) PROVE request'[t] = request[t]
  BY <1>3 DEF revoke_walk, TypeOK
<1>4. ASSUME NEW u \in Threads, NEW reached, u # t, revoke_aborted(u, reached)
      PROVE  request'[t] = request[t]
  BY <1>4 DEF revoke_aborted, TypeOK
<1>5. ASSUME NEW u \in Threads, NEW k, revoke_capability_lease(u, k)
      PROVE  request'[t] = request[t]
  BY <1>5 DEF revoke_capability_lease, TypeOK, Walking
<1>6. ASSUME NEW u \in Threads, NEW a, NEW used, consume_check(u, a, used)
      PROVE  request'[t] = request[t]
  BY <1>6 DEF consume_check, CheckPassed, TypeOK, Walking
<1>7. ASSUME NEW u \in Threads, NEW k, NEW seconds, issue_credential_grant(u, k, seconds)
      PROVE  request'[t] = request[t]
  BY <1>7 DEF issue_credential_grant, TypeOK, Walking
<1>8. ASSUME NEW u \in Threads, consume_write(u) PROVE request'[t] = request[t]
  BY <1>8 DEF consume_write, Overtaken, Walking
<1>9. ASSUME NEW u \in Threads, NEW g \in Grants, grant_write(u, g)
      PROVE  request'[t] = [request[t] EXCEPT !.disturbed = TRUE]
  BY <1>9 DEF grant_write, StoreGrant, Disturbed, Walking
<1>10. \/ UNCHANGED vars
       \/ \E u \in Users : approve(u)
       \/ leave_approved
       \/ \E u \in Users, d \in {"APPROVE", "DENY"} : record_reviewer_attestation(u, d)
       \/ \E k \in Leases, agent \in Agents \cup {Unbound}, mode \in Modes,
             expires \in Expiries, count \in ReviewerCounts, prevent_self \in BOOLEAN :
             issue_capability_lease(k, agent, mode, expires, count, prevent_self)
       \/ \E k \in Leases : refresh_lease_status(k)
       \/ \E a \in Actions, k \in Leases \cup {NoLease}, kind \in Kinds, e \in Estimates :
             evaluate_gateway_action(a, [lease_id |-> k, kind |-> kind, estimate |-> e])
       \/ \E a \in Actions, d \in {"ALLOW", "DENY"} : record_action_authorization(a, d)
       \/ \E g \in Grants : revoke_credential_grant(g)
       \/ Tick
       => request'[t] = request[t]
  BY DEF vars, approve, leave_approved, record_reviewer_attestation,
         issue_capability_lease, refresh_lease_status, evaluate_gateway_action,
         record_action_authorization, revoke_credential_grant, Tick
<1>11. request'[t] \in {request[t], [request[t] EXCEPT !.disturbed = TRUE]} => Walking(t, l)'
  BY <1>0 DEF Walking, PendingRequest
<1> QED
  BY <1>1, <1>2, <1>3, <1>4, <1>5, <1>6, <1>7, <1>8, <1>9, <1>10, <1>11, NextCases

\* A credential that is left over from a revoked lease, or outlives its lease,
\* comes from a request that overlapped: it had found the lease active or
\* compared its lifetime before the other one came in between, or it stopped
\* the walk of the revocation.
THEOREM StrayGrantsRaced == Spec => []StrayGrantHasRace
<1>1. Init => StrayGrantHasRace
  BY DEF Init, StrayGrantHasRace
<1>2. TrustInvariant /\ StrayGrantHasRace /\ [Next]_vars => StrayGrantHasRace'
  <2> SUFFICES ASSUME TrustInvariant, StrayGrantHasRace, [Next]_vars, NEW g \in Grants,
                      NEW l, l = grant'[g].lease_id, l # NoLease
               PROVE  /\ (lease'[l].status = "REVOKED" /\ ~grant'[g].revoked) =>
                            \/ \E t \in Threads : Walking(t, l)'
                            \/ g \in history'.late
                            \/ l \in history'.aborted
                      /\ grant'[g].expires_at > lease'[l].expires_at => g \in history'.delayed
    BY DEF StrayGrantHasRace, Walking
  <2>0. TypeOK /\ grant[g] \in CredentialGrant /\ history \in History
    BY DEF TrustInvariant, TypeOK
  <2>1. CASE GrantKept(g)
    <3>1. /\ Issued(l)
          /\ (lease[l].status = "REVOKED" /\ ~grant[g].revoked) =>
                \/ \E t \in Threads : Walking(t, l)
                \/ g \in history.late
                \/ l \in history.aborted
          /\ grant[g].expires_at > lease[l].expires_at => g \in history.delayed
      BY <2>1 DEF TrustInvariant, GrantsOfIssuedLeases, StrayGrantHasRace, GrantKept, Walking
    <3>2. l \in Leases /\ lease'[l].expires_at = lease[l].expires_at
      BY <2>0, <3>1, IssuedKept DEF Kept, Issued
    <3>3. ASSUME lease'[l].status = "REVOKED", lease[l].status # "REVOKED"
          PROVE  \E t \in Threads : Walking(t, l)'
      <4>1. PICK t \in Threads : revoke_capability_lease(t, l)
        BY <2>0, <3>2, <3>3, RevokedBy
      <4>2. Walking(t, l)'
        BY <2>0, <4>1 DEF revoke_capability_lease, Walking, TypeOK
      <4> QED BY <4>2
    <3>4. ASSUME ~grant'[g].revoked, NEW t \in Threads, Walking(t, l)
          PROVE  Walking(t, l)' \/ l \in history'.aborted
      BY <2>0, <3>2, <3>4, WalkEnds
    <3>5. ~grant'[g].revoked => ~grant[g].revoked
      BY <2>1 DEF GrantKept
    <3>6. /\ history.late \subseteq history'.late
          /\ history.delayed \subseteq history'.delayed
          /\ history.aborted \subseteq history'.aborted
      BY <2>0, HistoryGrows
    <3>7. grant'[g].expires_at = grant[g].expires_at
      BY <2>1 DEF GrantKept
    <3> QED BY <3>1, <3>2, <3>3, <3>4, <3>5, <3>6, <3>7
  <2>2. ASSUME NEW t \in Threads, grant_write(t, g)
        PROVE  /\ lease'[l].status = "REVOKED" => g \in history'.late
               /\ grant'[g].expires_at > lease'[l].expires_at => g \in history'.delayed
    <3>1. /\ request[t].phase = "granting" /\ l = request[t].lease_id
          /\ grant'[g].expires_at = now + request[t].seconds
          /\ lease' = lease
      BY <2>0, <2>2 DEF grant_write, StoreGrant, TypeOK
    <3>2. lease'[l].status = "REVOKED" => g \in history'.late
      BY <2>0, <2>2, <3>1 DEF grant_write, StoreGrant, History
    <3>3. now # request[t].checked_at => g \in history'.delayed
      BY <2>0, <2>2 DEF grant_write, StoreGrant, History
    <3>4. /\ l \in Leases
          /\ request[t].checked_at + request[t].seconds <= lease[l].expires_at
      BY <3>1 DEF TrustInvariant, GrantRequestsHold, Issued
    <3>5. lease[l].expires_at \in Int /\ request[t].seconds \in Int /\ now \in Int
      BY <2>0, <3>1, <3>4, MaxTimeAssumption
         DEF TypeOK, CapabilityLease, PendingRequest, Time
    <3> QED BY <3>1, <3>2, <3>3, <3>4, <3>5
  <2> QED BY <2>0, <2>1, <2>2, GrantsKept
<1> QED BY <1>1, <1>2, Invariant, PTL DEF Spec

\* A token that introspection refused is never active again: its lease and
\* its grant keep their expiry, neither comes back to life, and the clock
\* does not go back.
THEOREM CredentialsStayDead == Spec => CredentialNeverRevives
<1> DEFINE Dead == \A g \in Grants :
                     (grant[g].lease_id # NoLease /\ ~introspect_credential(g))
                        => ~introspect_credential(g)'
<1>1. TrustInvariant /\ [Next]_vars => [Dead]_vars
  <2> SUFFICES ASSUME TrustInvariant, [Next]_vars, NEW g \in Grants, grant[g].lease_id # NoLease,
                      introspect_credential(g)'
               PROVE  introspect_credential(g)
    OBVIOUS
  <2>0. TypeOK
    BY DEF TrustInvariant
  <2>1. GrantKept(g)
    BY <2>0, GrantsKept DEF grant_write
  <2>2. Issued(grant[g].lease_id)
    BY DEF TrustInvariant, GrantsOfIssuedLeases
  <2>3. grant[g].lease_id \in Leases /\ Kept(grant[g].lease_id)
    <3>1. \A l : Issued(l) => l \in Leases /\ Kept(l)
      BY <2>0, IssuedKept DEF Issued
    <3> QED BY <2>2, <3>1
  <2>4. grant[g].expires_at \in Int /\ lease[grant[g].lease_id].expires_at \in Int
    BY <2>0, <2>3 DEF TypeOK, CredentialGrant, CapabilityLease, Time
  <2>5. now \in Int /\ now' \in Int /\ now <= now'
    BY <2>0, ClockStep
  <2>6. /\ ~grant[g].revoked
        /\ grant[g].expires_at > now
    BY <2>1, <2>4, <2>5 DEF introspect_credential, GrantKept
  <2>7. LiveLease(grant[g].lease_id)
    BY <2>1, <2>3, <2>4, <2>5 DEF introspect_credential, LiveLease, Kept, GrantKept
  <2> QED BY <2>6, <2>7 DEF introspect_credential
<1> QED BY <1>1, Invariant, PTL DEF Spec, CredentialNeverRevives

----------------------------------------------------------------------------
(* What is charged and what is recorded.                                   *)

\* What the consumptions of lease l add up to.
Total(l, x) ==
    SumFunctionOnSet([c \in consumptions |-> c.used[x]],
                     {c \in consumptions : c.lease_id = l})

\* A check that passed stands.
LEMMA CheckFresh ==
    ASSUME TypeOK, NEW t \in Threads, NEW a \in Actions, NEW used \in Consumptions,
           consume_check(t, a, used)
    PROVE  CheckStands(t)'
<1> DEFINE l == proposed[a].lease_id
<1>1. /\ lease' = lease /\ consumptions' = consumptions
      /\ \A c \in consumptions : c.action_id # a
  BY DEF consume_check, CheckPassed
<1>2. /\ request'[t].entry = [action_id |-> a, lease_id |-> l, used |-> used,
                              payload |-> proposed[a]]
      /\ request'[t].projected = [x \in Resources |-> lease[l].spent[x] + used[x]]
  BY DEF consume_check, CheckPassed, TypeOK
<1>3. /\ request'[t].entry.action_id = a /\ request'[t].entry.lease_id = l
      /\ request'[t].entry.used = used
  BY <1>2
<1> HIDE DEF l
<1> QED BY <1>1, <1>2, <1>3 DEF CheckStands

\* A check stands until the request writes or is overtaken: a write of
\* another lease and another action disturbs neither what is spent of the
\* lease nor whether the action is consumed.
LEMMA CheckStandsOn ==
    ASSUME TrustInvariant, [Next]_vars, NEW t \in Threads,
           request[t].phase = "checked", CheckStands(t),
           request'[t] = request[t], ~request[t].overtaken
    PROVE  CheckStands(t)'
<1> DEFINE entry == request[t].entry
           l == entry.lease_id
<1>0. TypeOK /\ l \in Leases /\ lease[l].status # "ABSENT"
  BY DEF TrustInvariant, RequestsJustified, Justified, Issued
<1>1. ASSUME NEW u \in Threads, consume_write(u)
      PROVE  /\ request[u].entry.lease_id # l
             /\ request[u].entry.action_id # entry.action_id
  <2>1. u # t
    BY <1>1 DEF consume_write, IdleRequest
  <2>2. request'[t] = Overtaken(request[t], request[u].entry)
    BY <1>1, <2>1 DEF consume_write
  <2>3. request[t] \in PendingRequest
    BY <1>0 DEF TypeOK
  <2> QED BY <2>2, <2>3 DEF Overtaken, PendingRequest
<1>2. \A c \in consumptions' : c.action_id # entry.action_id
  <2>1. \A c \in consumptions : c.action_id # entry.action_id
    BY DEF CheckStands
  <2>2. ASSUME NEW u \in Threads, consume_write(u), NEW c \in consumptions'
        PROVE  c.action_id # entry.action_id
    <3>1. c \in consumptions \/ c = request[u].entry
      BY <2>2 DEF consume_write
    <3> HIDE DEF entry
    <3> QED BY <1>1, <2>1, <2>2, <3>1
  <2> QED BY <2>1, <2>2, ConsumptionStep
<1>3. lease'[l].spent = lease[l].spent
  BY <1>0, <1>1, SpentStep
<1>4. request[t].projected = [x \in Resources |-> lease[l].spent[x] + entry.used[x]]
  BY DEF CheckStands
<1> QED BY <1>2, <1>3, <1>4 DEF CheckStands

\* A request that is not overtaken adds its entry to the consumptions and
\* replaces none.
LEMMA WriteAdds ==
    ASSUME ChargeInvariant, NEW t \in Threads, consume_write(t), ~request[t].overtaken
    PROVE  /\ consumptions' = consumptions \cup {request[t].entry}
           /\ request[t].entry \notin consumptions
<1>1. \A c \in consumptions : c.action_id # request[t].entry.action_id
  BY DEF ChargeInvariant, CheckStands, consume_write
<1>2. Replaced(request[t].entry) = {}
  BY <1>1 DEF Replaced
<1>3. consumptions \ {} = consumptions
  OBVIOUS
<1> QED BY <1>1, <1>2, <1>3 DEF consume_write

\* The consumptions stay finitely many.
LEMMA FinitelyMany ==
    ASSUME IsFiniteSet(consumptions), NEW t \in Threads, consume_write(t)
    PROVE  IsFiniteSet(consumptions')
<1>1. IsFiniteSet(consumptions \ Replaced(request[t].entry))
  BY FS_Subset
<1> QED BY <1>1, FS_AddElement DEF consume_write

\* It adds what it used to the total of its lease and to no other.
LEMMA TotalAfterWrite ==
    ASSUME TypeOK, TypeOK', ChargeInvariant, NEW t \in Threads, consume_write(t),
           ~request[t].overtaken, NEW l \in Leases, NEW x \in Resources
    PROVE  /\ Total(l, x) \in Nat
           /\ Total(l, x)' = Total(l, x) + (IF request[t].entry.lease_id = l
                                           THEN request[t].entry.used[x] ELSE 0)
<1> DEFINE entry == request[t].entry
           all == consumptions \cup {entry}
           g == [c \in consumptions |-> c.used[x]]
           h == [c \in all |-> c.used[x]]
           mine == {c \in consumptions : c.lease_id = l}
           later == {c \in all : c.lease_id = l}
<1>1. consumptions' = all /\ entry \notin consumptions
  BY WriteAdds
<1>2. IsFiniteSet(consumptions) /\ IsFiniteSet(all)
  BY FS_AddElement DEF ChargeInvariant
<1>3. g \in [consumptions -> Nat] /\ h \in [all -> Nat]
  BY <1>1 DEF TypeOK, ActionConsumption, Amounts
<1>4. Total(l, x) = SumFunctionOnSet(g, mine) /\ Total(l, x)' = SumFunctionOnSet(h, later)
  BY <1>1 DEF Total
<1>5. mine \in SUBSET consumptions /\ later \in SUBSET all
  OBVIOUS
<1>6. SumFunctionOnSet(g, mine) \in Nat
  <2> HIDE DEF g, mine
  <2> QED BY <1>2, <1>3, <1>5, SumSteps
<1>7. SumFunctionOnSet(h, mine) = SumFunctionOnSet(g, mine)
  <2>1. mine \in SUBSET (consumptions \cap all) /\ \A c \in mine : h[c] = g[c]
    OBVIOUS
  <2> HIDE DEF g, h, mine, all
  <2> QED BY <1>2, <1>3, <2>1, SumOfSame
<1>8. CASE entry.lease_id # l
  <2>1. later = mine
    BY <1>8
  <2> HIDE DEF g, h, mine, later, entry
  <2> QED BY <1>4, <1>6, <1>7, <1>8, <2>1 DEF entry
<1>9. CASE entry.lease_id = l
  <2>1. entry \in later /\ later \ {entry} = mine /\ h[entry] = entry.used[x]
    BY <1>1, <1>9
  <2>2. SumFunctionOnSet(h, later) = h[entry] + SumFunctionOnSet(h, later \ {entry})
    <3> HIDE DEF h, later, entry, all
    <3> QED BY <1>2, <1>3, <1>5, <2>1, SumSteps
  <2>3. h[entry] \in Nat
    BY <1>3
  <2>4. SumFunctionOnSet(h, later) = SumFunctionOnSet(g, mine) + entry.used[x]
    <3> HIDE DEF g, h, mine, later, entry
    <3>1. SumFunctionOnSet(h, later \ {entry}) = SumFunctionOnSet(h, mine)
      BY <2>1, Zenon
    <3> QED BY <1>6, <1>7, <2>1, <2>2, <2>3, <3>1
  <2> HIDE DEF g, h, mine, later
  <2> QED BY <1>4, <1>6, <1>9, <2>4
<1> QED BY <1>8, <1>9

\* The total of a lease depends on its consumptions alone.
LEMMA TotalOfSame ==
    ASSUME TypeOK, TypeOK', IsFiniteSet(consumptions), IsFiniteSet(consumptions'),
           NEW l \in Leases, NEW x \in Resources,
           \A c : (c \in consumptions /\ c.lease_id = l)
                    <=> (c \in consumptions' /\ c.lease_id = l)
    PROVE  Total(l, x)' = Total(l, x)
<1> DEFINE now_all == consumptions
           then_all == consumptions'
           g == [c \in now_all |-> c.used[x]]
           h == [c \in then_all |-> c.used[x]]
           mine == {c \in now_all : c.lease_id = l}
           later == {c \in then_all : c.lease_id = l}
<1>1. later = mine
  OBVIOUS
<1>2. g \in [now_all -> Nat] /\ h \in [then_all -> Nat]
  BY DEF TypeOK, ActionConsumption, Amounts
<1>3. mine \in SUBSET (now_all \cap then_all) /\ \A c \in mine : h[c] = g[c]
  OBVIOUS
<1>4. IsFiniteSet(now_all) /\ IsFiniteSet(then_all)
  OBVIOUS
<1>5. Total(l, x) = SumFunctionOnSet(g, mine) /\ Total(l, x)' = SumFunctionOnSet(h, later)
  BY DEF Total
<1> HIDE DEF now_all, then_all, g, h, mine, later
<1>6. SumFunctionOnSet(h, mine) = SumFunctionOnSet(g, mine)
  BY <1>2, <1>3, <1>4, SumOfSame
<1> QED BY <1>1, <1>5, <1>6, Zenon

\* No consumption is charged to a lease that is not issued.
LEMMA NothingBeforeIssue ==
    ASSUME TrustInvariant, ChargeInvariant, NEW l \in Leases, NEW x \in Resources,
           lease[l].status = "ABSENT"
    PROVE  Total(l, x) = 0
<1> DEFINE g == [c \in consumptions |-> c.used[x]]
<1>1. {c \in consumptions : c.lease_id = l} = {}
  BY DEF TrustInvariant, ConsumptionsJustified, Justified, Issued
<1>2. g \in [consumptions -> Nat]
  BY DEF TrustInvariant, TypeOK, ActionConsumption, Amounts
<1>3. SumFunctionOnSet(g, {}) = 0
  <2> HIDE DEF g
  <2> QED BY <1>2, SumSteps DEF ChargeInvariant
<1> QED BY <1>1, <1>3 DEF Total

\* A write charges the lease what it adds to the total; one that was overtaken
\* leaves the leases alone that it does not miscount; an issued lease starts
\* with nothing, and every other step leaves both alone.
LEMMA NextCharges ==
    ASSUME TrustInvariant, TrustInvariant', ChargeInvariant, IsFiniteSet(consumptions'),
           [Next]_vars
    PROVE  ChargesExact'
<1> SUFFICES ASSUME NEW l \in Leases, l \notin history'.miscounted, NEW x \in Resources
             PROVE  lease'[l].spent[x] = Total(l, x)'
  BY DEF ChargesExact, Total
<1>1. TypeOK /\ TypeOK'
  BY DEF TrustInvariant
<1>0. l \notin history.miscounted
  BY <1>1, HistoryGrows
<1>2. lease[l].spent[x] = Total(l, x)
  BY <1>0 DEF ChargeInvariant, ChargesExact, Total
<1>3. ASSUME NEW t \in Threads, consume_write(t), ~request[t].overtaken
      PROVE  lease'[l].spent[x] = Total(l, x)'
  <2> DEFINE entry == request[t].entry
  <2>1. /\ Total(l, x) \in Nat
        /\ Total(l, x)' = Total(l, x) + (IF entry.lease_id = l THEN entry.used[x] ELSE 0)
    BY <1>1, <1>3, TotalAfterWrite
  <2>2. request[t].projected = [y \in Resources |->
                                  lease[entry.lease_id].spent[y] + entry.used[y]]
    BY <1>3 DEF ChargeInvariant, CheckStands, consume_write
  <2>3. lease[l] \in CapabilityLease /\ request[t].projected \in Amounts
    BY <1>1, <1>3 DEF TypeOK, consume_write, PendingRequest
  <2>4. lease'[l] = IF entry.lease_id = l THEN Charged(lease[l], request[t].projected)
                    ELSE lease[l]
    BY <1>1, <1>3 DEF consume_write, TypeOK
  <2> HIDE DEF entry
  <2>5. CASE entry.lease_id = l
    <3>1. lease'[l].spent = request[t].projected
      BY <2>3, <2>4, <2>5, ChargedLease
    <3> QED BY <1>2, <2>1, <2>2, <2>5, <3>1
  <2>6. CASE entry.lease_id # l
    BY <1>2, <2>1, <2>4, <2>6
  <2> QED BY <2>5, <2>6
<1>4. ASSUME NEW t \in Threads, consume_write(t), request[t].overtaken
      PROVE  lease'[l].spent[x] = Total(l, x)'
  <2> DEFINE entry == request[t].entry
             affected == {c.lease_id : c \in Replaced(entry) \cup {entry}}
  <2>1. affected \subseteq history'.miscounted
    BY <1>1, <1>4 DEF consume_write, TypeOK, History
  <2>2. entry.lease_id # l /\ \A c \in Replaced(entry) : c.lease_id # l
    BY <2>1
  <2>3. lease'[l] = lease[l]
    BY <1>1, <1>4, <2>2 DEF consume_write, TypeOK
  <2>4. consumptions' = (consumptions \ Replaced(entry)) \cup {entry}
    BY <1>4 DEF consume_write
  <2>5. \A c : (c \in consumptions /\ c.lease_id = l)
                 <=> (c \in consumptions' /\ c.lease_id = l)
    <3> HIDE DEF entry
    <3> QED BY <2>2, <2>4
  <2>6. Total(l, x)' = Total(l, x)
    BY <1>1, <2>5, TotalOfSame DEF ChargeInvariant
  <2> QED BY <1>2, <2>3, <2>6
<1>5. CASE UNCHANGED consumptions /\ ~ \E t \in Threads : consume_write(t)
  <2>1. Total(l, x)' = Total(l, x)
    BY <1>5 DEF Total
  <2>2. lease[l].status = "ABSENT" => Total(l, x) = 0
    BY NothingBeforeIssue
  <2>3. Nothing[x] = 0
    BY DEF Nothing
  <2> QED BY <1>1, <1>2, <1>5, <2>1, <2>2, <2>3, SpentStep
<1> QED BY <1>3, <1>4, <1>5, ConsumptionStep

\* What the check of a request found stands until it is overtaken, and the
\* consumed budget of every lease that no overtaken request charged is what its
\* consumptions add up to.
THEOREM ChargeInvariance == Spec => []ChargeInvariant
<1>1. Init => ChargeInvariant
  <2> SUFFICES ASSUME Init PROVE ChargeInvariant
    OBVIOUS
  <2>1. \A t \in Threads : request[t].phase # "checked"
    BY DEF Init, IdleRequest
  <2>2. consumptions = {} /\ IsFiniteSet(consumptions)
    BY FS_EmptySet DEF Init
  <2>3. ASSUME NEW l \in Leases, NEW x \in Resources PROVE lease[l].spent[x] = Total(l, x)
    <3> DEFINE g == [c \in consumptions |-> c.used[x]]
    <3>1. g \in [{} -> Nat] /\ {c \in consumptions : c.lease_id = l} = {}
      BY <2>2
    <3>2. SumFunctionOnSet(g, {}) = 0
      <4> HIDE DEF g
      <4> QED BY <3>1, FS_EmptySet, SumSteps
    <3>3. lease[l].spent[x] = 0
      BY DEF Init, Nothing
    <3> QED BY <3>1, <3>2, <3>3 DEF Total
  <2> QED BY <2>1, <2>2, <2>3 DEF ChargeInvariant, ChargesExact, Total
<1>2. TrustInvariant /\ TrustInvariant' /\ ChargeInvariant /\ [Next]_vars => ChargeInvariant'
  <2> SUFFICES ASSUME TrustInvariant, TrustInvariant', ChargeInvariant, [Next]_vars
               PROVE  ChargeInvariant'
    OBVIOUS
  <2>0. TypeOK
    BY DEF TrustInvariant
  <2>1. IsFiniteSet(consumptions')
    BY FinitelyMany, ConsumptionStep DEF ChargeInvariant
  <2>2. ChargesExact'
    BY <2>1, NextCharges
  <2>3. ASSUME NEW t \in Threads, request'[t].phase = "checked", ~request'[t].overtaken
        PROVE  CheckStands(t)'
    <3>1. request[t] \in PendingRequest
      BY <2>0 DEF TypeOK
    <3>2. CASE request'[t] = request[t]
      BY <2>3, <3>2, CheckStandsOn DEF ChargeInvariant
    <3>3. ASSUME NEW a \in Actions, NEW used \in Consumptions, consume_check(t, a, used)
          PROVE  CheckStands(t)'
      BY <2>0, <3>3, CheckFresh
    <3>4. request'[t] # IdleRequest
      BY <2>3 DEF IdleRequest
    <3>5. ASSUME NEW l, revoke_capability_lease(t, l) PROVE FALSE
      BY <2>0, <2>3, <3>5 DEF revoke_capability_lease, TypeOK
    <3>6. ASSUME NEW l, NEW seconds, issue_credential_grant(t, l, seconds) PROVE FALSE
      BY <2>0, <2>3, <3>6 DEF issue_credential_grant, TypeOK
    <3>7. ASSUME request[t].phase = "checked",
                 request'[t] = [request[t] EXCEPT !.overtaken = TRUE]
          PROVE  FALSE
      BY <2>3, <3>1, <3>7 DEF PendingRequest
    <3>8. ASSUME request[t].phase = "revoking",
                 request'[t] = [request[t] EXCEPT !.disturbed = TRUE]
          PROVE  FALSE
      BY <2>3, <3>1, <3>8 DEF PendingRequest
    <3> QED BY <2>0, <3>2, <3>3, <3>4, <3>5, <3>6, <3>7, <3>8, RequestAfter
  <2> QED BY <2>1, <2>2, <2>3 DEF ChargeInvariant
<1> QED BY <1>1, <1>2, Invariant, PTL DEF Spec

\* A charge is lost or counted twice only by a request that another one has
\* overtaken: the finding about the unlocked budget update has this cause and
\* no other.
THEOREM ChargesAreExact == Spec => []ChargesExact
<1>1. ChargeInvariant => ChargesExact
  BY DEF ChargeInvariant
<1> QED BY <1>1, ChargeInvariance, PTL

\* A recorded consumption is replaced only by a request for its action that
\* was checked before it was recorded.
THEOREM ConsumptionsReplaced == Spec => ReplacedByOvertaken
<1> DEFINE A == \A c \in consumptions \ consumptions' :
                  \E t \in Threads :
                    /\ request[t].phase = "checked" /\ request'[t].phase = "idle"
                    /\ request[t].overtaken /\ request[t].entry.action_id = c.action_id
<1>1. ChargeInvariant /\ [Next]_vars => [A]_vars
  <2> SUFFICES ASSUME ChargeInvariant, [Next]_vars, NEW c \in consumptions,
                      c \notin consumptions'
               PROVE  \E t \in Threads :
                        /\ request[t].phase = "checked" /\ request'[t].phase = "idle"
                        /\ request[t].overtaken /\ request[t].entry.action_id = c.action_id
    OBVIOUS
  <2>1. PICK t \in Threads : consume_write(t)
    BY ConsumptionStep
  <2>2. c.action_id = request[t].entry.action_id
    BY <2>1 DEF consume_write, Replaced
  <2>3. request[t].overtaken
    BY <2>1, WriteAdds
  <2>4. request[t].phase = "checked" /\ request'[t].phase = "idle"
    BY <2>1 DEF consume_write, IdleRequest
  <2> QED BY <2>2, <2>3, <2>4
<1> QED BY <1>1, ChargeInvariance, PTL DEF Spec, ReplacedByOvertaken

=============================================================================
