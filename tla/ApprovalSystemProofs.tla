------------------------ MODULE ApprovalSystemProofs ------------------------
(***************************************************************************)
(* Proofs about ApprovalSystem, for any payloads with file lists of any    *)
(* length, any number of executions and resolving threads and any bound on *)
(* the attempts.  First what the risk engine's loop over the files         *)
(* computes, then the inductive invariant, action by action, then the      *)
(* theorems.                                                               *)
(***************************************************************************)
EXTENDS ApprovalSystem, Induction

----------------------------------------------------------------------------
(* The loop over the files.                                                *)

FileChange == [path : PathClass, diff : BOOLEAN, new_content : BOOLEAN]

(* f is what the fold of RaiseLevel over files[1..n] computes, by the set  *)
(* of the indices that are folded.                                         *)
Unfolds(f, n, files) ==
    f = [s \in SUBSET (1..n) |->
           IF s = {} THEN 1 ELSE RaiseLevel(f[s \ {Max(s)}], files[Max(s)])]

\* The recursion FoldLeft is defined by has a solution for every length.
LEMMA FoldExists ==
  ASSUME NEW files
  PROVE  \A n \in Nat : \E f : Unfolds(f, n, files)
  <1> DEFINE P == {n \in Nat : \E f : Unfolds(f, n, files)}
  <1>1. 0 \in P
    <2>1. Unfolds([s \in SUBSET (1..0) |-> 1], 0, files)
      <3>1. \A s \in SUBSET (1..0) : s = {}
        OBVIOUS
      <3> QED
        BY <3>1 DEF Unfolds
    <2> QED
      BY <2>1
  <1>2. ASSUME NEW n \in Nat, n \in P PROVE n + 1 \in P
    <2>1. PICK f : Unfolds(f, n, files)
      BY <1>2
    <2> DEFINE g == [s \in SUBSET (1..(n+1)) |->
                       IF n + 1 \in s THEN RaiseLevel(f[s \ {n + 1}], files[n + 1])
                                      ELSE f[s]]
    <2>2. ASSUME NEW s \in SUBSET (1..(n+1))
          PROVE  g[s] = IF s = {} THEN 1 ELSE RaiseLevel(g[s \ {Max(s)}], files[Max(s)])
      <3>1. CASE s = {}
        <4>1. g[s] = f[s] /\ s \in SUBSET (1..n)
          BY <3>1
        <4> QED
          BY <2>1, <3>1, <4>1 DEF Unfolds
      <3>2. CASE s # {} /\ n + 1 \in s
        <4>1. Max(s) \in s /\ \A y \in s : Max(s) >= y
          <5>1. n + 1 \in Nat
            OBVIOUS
          <5> HIDE DEF g
          <5> QED
            BY <3>2, <5>1, MaxOfBounded, Zenon
        <4>2. Max(s) = n + 1
          <5>1. Max(s) \in 1..(n+1) /\ Max(s) >= n + 1
            BY <3>2, <4>1
          <5> QED
            BY <5>1
        <4>3. g[s] = RaiseLevel(f[s \ {n + 1}], files[n + 1])
          BY <3>2
        <4>4. g[s \ {n + 1}] = f[s \ {n + 1}]
          OBVIOUS
        <4> HIDE DEF g
        <4> QED
          BY <3>2, <4>2, <4>3, <4>4
      <3>3. CASE s # {} /\ n + 1 \notin s
        <4>1. s \in SUBSET (1..n)
          BY <3>3
        <4>2. s \ {Max(s)} \in SUBSET (1..n)
          BY <4>1
        <4>3. g[s] = f[s] /\ g[s \ {Max(s)}] = f[s \ {Max(s)}]
          BY <3>3, <4>1, <4>2
        <4>4. f[s] = RaiseLevel(f[s \ {Max(s)}], files[Max(s)])
          BY <2>1, <3>3, <4>1 DEF Unfolds
        <4> HIDE DEF g
        <4> QED
          BY <3>3, <4>3, <4>4
      <3> QED
        BY <3>1, <3>2, <3>3
    <2>3. Unfolds(g, n + 1, files)
      BY <2>2, Zenon DEF Unfolds
    <2> QED
      BY <2>3
  <1> HIDE DEF P
  <1>3. Nat \subseteq P
    BY <1>1, <1>2, NaturalsClosed
  <1> QED
    BY <1>3 DEF P

\* FoldLeft(RaiseLevel, 1, files) is the value of such a solution at the set of
\* all indices.
LEMMA FoldUnfolds ==
  ASSUME NEW files, NEW n \in Nat, DOMAIN files = 1..n
  PROVE  \E f : Unfolds(f, n, files) /\ FoldLeft(RaiseLevel, 1, files) = f[1..n]
  <1> DEFINE F == CHOOSE f : Unfolds(f, n, files)
  <1>1. Unfolds(F, n, files)
    BY FoldExists, Zenon
  <1>2. FoldLeft(RaiseLevel, 1, files) = F[1..n]
    BY DEF FoldLeft, MapThenFoldSet, Unfolds
  <1> QED
    BY <1>1, <1>2

\* One round of the loop stays within RiskLevels, never lowers a level that
\* asks for plans, and a critical or high path raises it to such a level.
LEMMA RaiseLevelStep ==
  ASSUME NEW h \in 1..4, NEW file \in FileChange
  PROVE  /\ RaiseLevel(h, file) \in 1..4
         /\ h >= 3 => RaiseLevel(h, file) >= 3
         /\ file.path \in {"critical", "high"} => RaiseLevel(h, file) >= 3
  <1>1. CASE file.path = "critical"
    BY <1>1 DEF RaiseLevel
  <1>2. CASE file.path # "critical" /\ file.path = "high" /\ h # 4
    BY <1>2 DEF RaiseLevel
  <1>3. CASE file.path # "critical" /\ file.path = "high" /\ h = 4
    BY <1>3 DEF RaiseLevel
  <1>4. CASE file.path \notin {"critical", "high", "low"} /\ h = 1
    BY <1>4 DEF RaiseLevel
  <1>5. CASE file.path \notin {"critical", "high"} /\ ~(file.path # "low" /\ h = 1)
    BY <1>5 DEF RaiseLevel
  <1> QED
    BY <1>1, <1>2, <1>3, <1>4, <1>5

\* The level the loop of assess_approval_request ends with, for a list of files
\* of any length and in any order: one of RiskLevels, and at least HIGH as soon
\* as one path is critical or high.
THEOREM LevelOfFiles ==
  ASSUME NEW files \in Seq(FileChange)
  PROVE  LET highest == FoldLeft(RaiseLevel, 1, files) IN
         /\ highest \in 1..4
         /\ (\E i \in DOMAIN files : files[i].path \in {"critical", "high"})
               => highest >= 3
  <1> DEFINE N == Len(files)
  <1>1. N \in Nat /\ DOMAIN files = 1..N
    OBVIOUS
  <1>2. \A i \in 1..N : files[i] \in FileChange
    OBVIOUS
  <1> HIDE DEF N
  <1>3. PICK f : Unfolds(f, N, files) /\ FoldLeft(RaiseLevel, 1, files) = f[1..N]
    BY <1>1, FoldUnfolds
  <1> DEFINE Good(n) == /\ f[1..n] \in 1..4
                        /\ (\E i \in 1..n : files[i].path \in {"critical", "high"})
                              => f[1..n] >= 3
             P == {n \in Nat : n <= N => Good(n)}
  <1>4. 0 \in P
    <2>1. 1..0 = {} /\ {} \in SUBSET (1..N)
      OBVIOUS
    <2>2. f[1..0] = 1
      BY <1>3, <2>1 DEF Unfolds
    <2> QED
      BY <2>1, <2>2
  <1>5. ASSUME NEW n \in Nat, n \in P PROVE n + 1 \in P
    <2> SUFFICES ASSUME n + 1 <= N PROVE Good(n + 1)
      OBVIOUS
    <2>1. n + 1 \in 1..N /\ n <= N /\ n + 1 \in Nat
      BY <1>1
    <2>2. Good(n)
      BY <1>5, <2>1
    <2> DEFINE s == 1..(n + 1)
    <2>3. s \in SUBSET (1..N) /\ s \in SUBSET (1..(n + 1)) /\ n + 1 \in s /\ s # {}
      BY <1>1, <2>1
    <2>4. Max(s) \in s /\ \A y \in s : Max(s) >= y
      <3> HIDE DEF s
      <3> QED
        BY <2>1, <2>3, MaxOfBounded, Zenon
    <2>5. Max(s) = n + 1
      <3>1. Max(s) \in 1..(n + 1) /\ Max(s) >= n + 1
        BY <2>3, <2>4
      <3> QED
        BY <3>1
    <2>6. s \ {n + 1} = 1..n
      OBVIOUS
    <2>7. f[s] = RaiseLevel(f[1..n], files[n + 1])
      <3>1. f[s] = RaiseLevel(f[s \ {Max(s)}], files[Max(s)])
        <4> HIDE DEF s
        <4> QED
          BY <1>3, <2>3, Zenon DEF Unfolds
      <3> HIDE DEF s
      <3> QED
        BY <2>5, <2>6, <3>1, Zenon
    <2>8. files[n + 1] \in FileChange /\ f[1..n] \in 1..4
      BY <1>2, <2>1, <2>2
    <2>9. /\ f[s] \in 1..4
          /\ f[1..n] >= 3 => f[s] >= 3
          /\ files[n + 1].path \in {"critical", "high"} => f[s] >= 3
      <3> HIDE DEF s
      <3> QED
        BY <2>7, <2>8, RaiseLevelStep
    <2>10. ASSUME NEW i \in s, files[i].path \in {"critical", "high"}
           PROVE  f[s] >= 3
      <3>1. i = n + 1 \/ i \in 1..n
        OBVIOUS
      <3> QED
        BY <2>2, <2>9, <2>10, <3>1
    <2> QED
      BY <2>9, <2>10
  <1> HIDE DEF P
  <1>6. N \in P
    BY <1>1, <1>4, <1>5, NaturalsClosed
  <1> QED
    BY <1>1, <1>3, <1>6 DEF P

----------------------------------------------------------------------------
(* The inductive invariant.                                                *)

Risk == [level : Range(RiskLevels) \cup {"BLOCKED"}, blocked : BOOLEAN,
         required_actions : BOOLEAN]
PayloadOrNone == Payloads \cup ToolCalls \cup {NoPayload}

TypeInv ==
    /\ approval \in [status : ApprovalStatus \cup {"ABSENT"}, payload : PayloadOrNone,
                     risk : Risk, approved_payload_hash : PayloadOrNone]
    /\ exec \in [Executors ->
                   [pc : {"idle", "branch", "create", "files", "pr", "opened"},
                    done : Nat]]
    /\ github \in [branch : BOOLEAN, files : SUBSET Nat, pr : BOOLEAN]
    /\ decided \in BOOLEAN /\ interrupted \in BOOLEAN
    /\ overlapped \in BOOLEAN
    /\ GatewayOK

(* The risk an approval carries is the one of its payload.                 *)
RiskInv ==
    approval.status # "ABSENT" =>
        /\ approval.payload # NoPayload
        /\ \/ approval.risk = assess_approval_request(approval.payload)
           \/ approval.payload \in ToolCalls /\ ~approval.risk.required_actions

(* An approved hash is the payload's, and stands for a decision that the   *)
(* required actions allowed.                                               *)
HashInv ==
    /\ approval.status = "ABSENT" => approval.approved_payload_hash = NoPayload
    /\ approval.approved_payload_hash # NoPayload =>
          /\ approval.approved_payload_hash = approval.payload
          /\ ~approval.risk.required_actions

(* What is under way on GitHub, or is there, was approved and not blocked. *)
ExecInv ==
    github.branch \/ (\E e \in Executors : Executing(e)) =>
        /\ approval.approved_payload_hash # NoPayload
        /\ ~approval.risk.blocked
        /\ approval.payload.files # << >>

(* How far the repository is when an execution is at pc.                   *)
ProgressInv ==
    /\ approval.status # "ABSENT" => github.files \subseteq 1..FileCount
    /\ ~github.branch => github.files = {}
    /\ github.pr => github.branch
    /\ \A e \in Executors :
          /\ exec[e].pc \in {"idle", "branch", "create"} => exec[e].done = 0
          /\ exec[e].pc \in {"files", "pr", "opened"} =>
                github.branch /\ 1..exec[e].done \subseteq github.files
          /\ exec[e].pc = "files" => exec[e].done < FileCount
          /\ exec[e].pc \in {"pr", "opened"} => exec[e].done = FileCount
          /\ exec[e].pc = "opened" => github.pr

(* An execution no decision overtook is the only one, and EXECUTING.       *)
AloneInv ==
    ~decided => \A e \in Executors : Executing(e) => approval.status = "EXECUTING"

(* The gateway holds a call only for the approval it created.              *)
CallInv ==
    /\ pending.status # "ABSENT" => approval.payload \in ToolCalls
    /\ approval.status = "ABSENT" => pending.status = "ABSENT"
    /\ pending.status = "ABSENT" /\ approval.status # "ABSENT" =>
          approval.risk = assess_approval_request(approval.payload)
    /\ \A r \in Resolvers :
          /\ resolver[r] # "idle" => pending.status # "ABSENT"
          /\ resolver[r] \notin {"idle", "retry"} =>
                approval.approved_payload_hash = approval.payload

(* While no two threads were at the call at the same time, one is active   *)
(* and the request is not closed under its feet.                           *)
OneResolverInv ==
    ~overlapped =>
        /\ \A r, q \in Resolvers :
              resolver[r] # "idle" /\ resolver[q] # "idle" => r = q
        /\ \A r \in Resolvers :
              /\ resolver[r] \in {"take", "lease", "acquire"} =>
                    pending.status = "WAITING_FOR_APPROVAL"
              /\ resolver[r] \in {"forward", "sent", "answered"} =>
                    pending.status \in {"WAITING_FOR_APPROVAL", "FORWARDING"}
              /\ resolver[r] = "retry" =>
                    pending.status \in {"WAITING_FOR_APPROVAL", "FORWARDING", "DEAD_LETTER"}

(* ... and a call that reached the child is still unanswered or closed.    *)
SentInv ==
    received > 0 /\ unsettled = {} /\ ~overlapped =>
        \/ \E r \in Resolvers : resolver[r] = "sent"
        \/ pending.status = "FORWARDED"

IInv ==
    /\ TypeInv /\ RiskInv /\ HashInv /\ ExecInv /\ ProgressInv /\ ReadyIsComplete
    /\ AloneInv /\ OverlapNeedsDecision /\ CallInv /\ ReceivedWasApproved
    /\ OneResolverInv /\ SentInv /\ RepeatHasCause /\ OrphanNeedsOverlap

----------------------------------------------------------------------------
(* Facts the actions share.                                                *)

\* assess_approval_request returns a RiskAssessment for every payload.
LEMMA AssessType ==
  ASSUME NEW p \in Payload
  PROVE  assess_approval_request(p) \in Risk
  <1> DEFINE highest == FoldLeft(RaiseLevel, 1, p.files)
  <1>1. p.files \in Seq(FileChange)
    BY DEF Payload, FileChange
  <1>2. highest \in 1..4
    BY <1>1, LevelOfFiles
  <1> HIDE DEF highest
  <1>3. RiskLevels[highest] \in Range(RiskLevels)
    BY <1>2 DEF RiskLevels, Range
  <1>4. (highest >= 3 /\ ~(p.test_plan /\ p.rollback_plan)) \in BOOLEAN
    OBVIOUS
  <1>5. CASE RefusedOutright(p)
    BY <1>5 DEF assess_approval_request, Risk
  <1>6. CASE ~RefusedOutright(p)
    BY <1>3, <1>4, <1>6 DEF assess_approval_request, Risk, highest
  <1> QED
    BY <1>5, <1>6

\* The number of files of a stored approval.
LEMMA FileCountNat ==
  ASSUME TypeInv, RiskInv, approval.status # "ABSENT"
  PROVE  FileCount \in Nat /\ approval.payload \in Payload
  <1>1. approval.payload \in Payload
    BY PayloadAssumption DEF TypeInv, RiskInv, PayloadOrNone
  <1> QED
    BY <1>1 DEF FileCount, Payload

\* Before there is an approval nothing runs: no execution, no branch, no
\* pending call.
LEMMA NothingBefore ==
  ASSUME IInv, approval.status = "ABSENT"
  PROVE  /\ ~github.branch /\ github.files = {} /\ ~github.pr
         /\ \A e \in Executors : ~Executing(e)
         /\ pending.status = "ABSENT"
         /\ \A r \in Resolvers : resolver[r] = "idle"
         /\ received = 0
  <1>1. approval.approved_payload_hash = NoPayload
    BY DEF IInv, HashInv
  <1>2. ~github.branch /\ \A e \in Executors : ~Executing(e)
    BY <1>1 DEF IInv, ExecInv
  <1>3. github.files = {} /\ ~github.pr
    BY <1>2 DEF IInv, ProgressInv
  <1>4. pending.status = "ABSENT" /\ \A r \in Resolvers : resolver[r] = "idle"
    BY DEF IInv, CallInv
  <1>5. received = 0
    <2>1. received \in 0..2 /\ ~(received > 0)
      BY <1>1, PayloadAssumption DEF IInv, ReceivedWasApproved, TypeInv, GatewayOK
    <2> QED
      BY <2>1
  <1> QED
    BY <1>2, <1>3, <1>4, <1>5

(* The halves of the invariant, for the runner and for the gateway.        *)
RunnerInv ==
    ExecInv /\ ProgressInv /\ ReadyIsComplete /\ AloneInv /\ OverlapNeedsDecision
GatewayInv ==
    /\ CallInv /\ ReceivedWasApproved /\ OneResolverInv /\ SentInv
    /\ RepeatHasCause /\ OrphanNeedsOverlap

(* What the runner's steps and the decisions keep of an approval.          *)
SameRequest ==
    /\ approval'.payload = approval.payload
    /\ approval'.risk = approval.risk
    /\ (approval'.status = "ABSENT") = (approval.status = "ABSENT")

\* The gateway's half does not depend on the runner.
LEMMA GatewayFrame ==
  ASSUME IInv, SameRequest, UNCHANGED gatewayVars,
         approval'.approved_payload_hash
            \in {approval.approved_payload_hash, approval.payload},
         approval'.approved_payload_hash # approval.approved_payload_hash
            => approval'.approved_payload_hash # NoPayload
  PROVE  GatewayInv'
  <1>0. approval.approved_payload_hash = approval.payload
          => approval'.approved_payload_hash = approval'.payload
    BY DEF SameRequest
  <1>1. CallInv'
    BY <1>0 DEF IInv, CallInv, SameRequest, gatewayVars
  <1>2. ReceivedWasApproved'
    BY <1>0 DEF IInv, ReceivedWasApproved, SameRequest, gatewayVars
  <1>3. OneResolverInv' /\ SentInv'
    BY DEF IInv, OneResolverInv, SentInv, gatewayVars
  <1>4. RepeatHasCause' /\ OrphanNeedsOverlap'
    BY DEF IInv, RepeatHasCause, OrphanNeedsOverlap, gatewayVars
  <1> QED
    BY <1>1, <1>2, <1>3, <1>4 DEF GatewayInv

\* The runner's half does not depend on the gateway.
LEMMA RunnerFrame ==
  ASSUME IInv, UNCHANGED <<approval, runnerVars>>
  PROVE  RunnerInv' /\ RiskInv' /\ HashInv'
  <1> USE DEF IInv, runnerVars
  <1>1. ExecInv'
    BY DEF ExecInv, Executing
  <1>2. ProgressInv'
    BY DEF ProgressInv, FileCount
  <1>3. ReadyIsComplete'
    BY DEF ReadyIsComplete, FileCount
  <1>4. AloneInv' /\ OverlapNeedsDecision'
    BY DEF AloneInv, OverlapNeedsDecision, Executing
  <1>5. RiskInv' /\ HashInv'
    BY DEF RiskInv, HashInv
  <1> QED
    BY <1>1, <1>2, <1>3, <1>4, <1>5 DEF RunnerInv

\* The parts make up the invariant.
LEMMA Assemble ==
  ASSUME TypeInv', RiskInv', HashInv', RunnerInv', GatewayInv'
  PROVE  IInv'
  BY DEF IInv, RunnerInv, GatewayInv

----------------------------------------------------------------------------
(* Creation and decisions preserve the invariant.                          *)

\* A new approval, whoever asked for it: nothing has been done with it.
LEMMA NewApproval ==
  ASSUME IInv, approval.status = "ABSENT",
         approval'.status # "ABSENT", approval'.status # "READY_FOR_PR",
         approval'.approved_payload_hash = NoPayload,
         UNCHANGED runnerVars
  PROVE  HashInv' /\ RunnerInv'
  <1>1. /\ ~github.branch /\ github.files = {} /\ ~github.pr
        /\ \A e \in Executors : ~Executing(e)
    BY NothingBefore
  <1>2. /\ ~github'.branch /\ github'.files = {} /\ ~github'.pr
        /\ \A e \in Executors : exec'[e].pc = "idle"
    BY <1>1 DEF runnerVars, Executing
  <1>3. HashInv'
    BY DEF HashInv
  <1>4. ExecInv'
    BY <1>2 DEF ExecInv, Executing
  <1>5. ProgressInv'
    BY <1>2 DEF IInv, ProgressInv, runnerVars
  <1>6. ReadyIsComplete'
    BY DEF ReadyIsComplete
  <1>7. AloneInv' /\ OverlapNeedsDecision'
    BY <1>2 DEF AloneInv, OverlapNeedsDecision, Executing
  <1> QED
    BY <1>3, <1>4, <1>5, <1>6, <1>7 DEF RunnerInv

\* create_approval_request stores an approval with the risk of its payload.
LEMMA CreatePreserves ==
  ASSUME IInv, Create
  PROVE  IInv'
  <1>1. PICK p \in Payloads, open \in {"REQUESTED", "PENDING_REVIEW"} :
           create_approval_request(p, open)
    BY DEF Create
  <1> DEFINE risk == assess_approval_request(p)
  <1>2. p \in Payload /\ p # NoPayload /\ p \in PayloadOrNone
    BY PayloadAssumption DEF PayloadOrNone
  <1>3. risk \in Risk
    BY <1>2, AssessType
  <1>4. approval.status = "ABSENT"
    BY <1>1 DEF create_approval_request
  <1>5. approval' = [status |-> IF risk.blocked THEN "BLOCKED" ELSE open,
                     payload |-> p, risk |-> risk,
                     approved_payload_hash |-> NoPayload]
    BY <1>1 DEF create_approval_request, AbsentApproval
  <1> HIDE DEF risk
  <1>6. UNCHANGED <<runnerVars, gatewayVars>>
    BY DEF Create
  <1>7. /\ approval'.status \in {"BLOCKED", "REQUESTED", "PENDING_REVIEW"}
        /\ approval'.payload = p /\ approval'.risk = risk
        /\ approval'.approved_payload_hash = NoPayload
    BY <1>5
  <1>8. TypeInv'
    <2>1. approval' \in [status : ApprovalStatus \cup {"ABSENT"}, payload : PayloadOrNone,
                         risk : Risk, approved_payload_hash : PayloadOrNone]
      BY <1>2, <1>3, <1>5, <1>7 DEF ApprovalStatus, PayloadOrNone
    <2> QED
      BY <2>1, <1>6 DEF IInv, TypeInv, GatewayOK, runnerVars, gatewayVars
  <1>9. RiskInv'
    BY <1>2, <1>7 DEF RiskInv, risk
  <1>10. HashInv' /\ RunnerInv'
    BY <1>4, <1>6, <1>7, NewApproval
  <1>11. /\ pending'.status = "ABSENT" /\ received' = 0
         /\ \A r \in Resolvers : resolver'[r] = "idle"
    BY <1>4, <1>6, NothingBefore DEF gatewayVars
  <1>12. GatewayInv'
    BY <1>7, <1>11
    DEF GatewayInv, CallInv, ReceivedWasApproved, OneResolverInv, SentInv,
        RepeatHasCause, OrphanNeedsOverlap, risk
  <1> QED
    BY <1>8, <1>9, <1>10, <1>12, Assemble

\* submit_tool_call stores the gateway's own approval and the pending request.
LEMMA SubmitPreserves ==
  ASSUME IInv, Submit
  PROVE  IInv'
  <1>0. PICK call \in ToolCalls : create_gateway_approval(call)
    BY DEF Submit, submit_tool_call
  <1>1. /\ approval.status = "ABSENT"
        /\ approval' = [status |-> "REQUESTED", payload |-> call,
                        risk |-> [level |-> "HIGH", blocked |-> FALSE,
                                  required_actions |-> FALSE],
                        approved_payload_hash |-> NoPayload]
    BY <1>0 DEF create_gateway_approval, AbsentApproval
  <1>2. /\ pending' = [status |-> "WAITING_FOR_APPROVAL", attempts |-> 0, lease |-> "none"]
        /\ held' = TRUE
        /\ UNCHANGED <<resolver, server, received, unsettled, overlapped>>
        /\ UNCHANGED runnerVars
    BY DEF Submit, submit_tool_call, gatewayHistory
  <1>3. call # NoPayload /\ call \in PayloadOrNone
    BY PayloadAssumption DEF PayloadOrNone
  <1>4. TypeInv'
    <2>1. approval' \in [status : ApprovalStatus \cup {"ABSENT"}, payload : PayloadOrNone,
                         risk : Risk, approved_payload_hash : PayloadOrNone]
      BY <1>1, <1>3 DEF ApprovalStatus, PayloadOrNone, Risk, RiskLevels, Range
    <2>2. GatewayOK'
      BY <1>2, AttemptAssumption DEF IInv, TypeInv, GatewayOK, MCPPendingStatus
    <2> QED
      BY <2>1, <2>2, <1>2 DEF IInv, TypeInv, runnerVars
  <1>5. RiskInv'
    BY <1>1, <1>3 DEF RiskInv
  <1>6. HashInv' /\ RunnerInv'
    BY <1>1, <1>2, NewApproval
  <1>7. received' = 0 /\ \A r \in Resolvers : resolver'[r] = "idle"
    BY <1>1, <1>2, NothingBefore
  <1>8. GatewayInv'
    BY <1>1, <1>2, <1>7
    DEF GatewayInv, CallInv, ReceivedWasApproved, OneResolverInv, SentInv,
        RepeatHasCause, OrphanNeedsOverlap
  <1> QED
    BY <1>4, <1>5, <1>6, <1>8, Assemble

\* decide_approval changes the status and, on approve, the approved hash.
LEMMA DecidePreserves ==
  ASSUME IInv, Decide
  PROVE  IInv'
  <1>1. PICK decision \in {"approve", "deny", "revise"} : decide_approval(decision)
    BY DEF Decide
  <1>2. /\ approval.status \notin {"ABSENT", "BLOCKED"}
        /\ UNCHANGED <<exec, github, interrupted>> /\ UNCHANGED gatewayVars
        /\ decided' = (decided \/ \E e \in Executors : Executing(e))
    BY <1>1 DEF Decide, decide_approval, NoteDecision
  <1>3. PICK status \in {"APPROVED", "DENIED", "REVISION_REQUESTED"},
             hash \in {approval.approved_payload_hash, approval.payload} :
          /\ approval' = [approval EXCEPT !.status = status,
                                          !.approved_payload_hash = hash]
          /\ hash # approval.approved_payload_hash => ~approval.risk.required_actions
    <2>1. CASE decision = "approve"
      BY <1>1, <2>1 DEF decide_approval, compute_approval_payload_hash
    <2>2. CASE decision = "deny"
      BY <1>1, <2>2 DEF decide_approval, IInv, TypeInv
    <2>3. CASE decision = "revise"
      BY <1>1, <2>3 DEF decide_approval, IInv, TypeInv
    <2> QED
      BY <2>1, <2>2, <2>3
  <1>4. /\ approval'.status = status /\ approval'.payload = approval.payload
        /\ approval'.risk = approval.risk /\ approval'.approved_payload_hash = hash
    BY <1>3 DEF IInv, TypeInv
  <1>5. approval.payload # NoPayload
    BY <1>2 DEF IInv, RiskInv
  <1>6. TypeInv'
    <2>1. approval' \in [status : ApprovalStatus \cup {"ABSENT"}, payload : PayloadOrNone,
                         risk : Risk, approved_payload_hash : PayloadOrNone]
      BY <1>3 DEF IInv, TypeInv, ApprovalStatus
    <2>2. decided' \in BOOLEAN
      BY <1>2
    <2> QED
      BY <2>1, <2>2, <1>2 DEF IInv, TypeInv, GatewayOK, gatewayVars
  <1>7. RiskInv'
    BY <1>2, <1>4 DEF IInv, RiskInv
  <1>8. HashInv'
    BY <1>3, <1>4, <1>5 DEF IInv, HashInv
  <1>9. RunnerInv'
    <2>1. ExecInv'
      BY <1>2, <1>3, <1>4, <1>5 DEF IInv, ExecInv, Executing
    <2>2. ProgressInv'
      BY <1>2, <1>4 DEF IInv, ProgressInv, FileCount
    <2>3. ReadyIsComplete'
      BY <1>4 DEF ReadyIsComplete
    <2>4. AloneInv' /\ OverlapNeedsDecision'
      BY <1>2 DEF AloneInv, OverlapNeedsDecision, Executing
    <2> QED
      BY <2>1, <2>2, <2>3, <2>4 DEF RunnerInv
  <1>10. GatewayInv'
    <2>1. SameRequest
      BY <1>2, <1>4 DEF SameRequest
    <2> QED
      BY <2>1, <1>2, <1>3, <1>4, <1>5, GatewayFrame
  <1> QED
    BY <1>6, <1>7, <1>8, <1>9, <1>10, Assemble

----------------------------------------------------------------------------
(* The steps of an execution preserve the invariant.                       *)

\* An execution belongs to an approval that exists.
LEMMA ExecutingExists ==
  ASSUME IInv, NEW e \in Executors, Executing(e)
  PROVE  approval.status # "ABSENT" /\ FileCount \in Nat
  <1>1. approval.status # "ABSENT"
    BY DEF IInv, ExecInv, HashInv
  <1> QED
    BY <1>1, FileCountNat DEF IInv

\* What every step of an execution leaves alone: all of the approval but its
\* status.
LEMMA StatusStep ==
  ASSUME IInv, NEW s \in ApprovalStatus, approval.status # "ABSENT",
         approval' = [approval EXCEPT !.status = s]
  PROVE  /\ SameRequest /\ approval'.status = s /\ FileCount' = FileCount
         /\ approval'.approved_payload_hash = approval.approved_payload_hash
         /\ approval' \in [status : ApprovalStatus \cup {"ABSENT"}, payload : PayloadOrNone,
                           risk : Risk, approved_payload_hash : PayloadOrNone]
         /\ RiskInv' /\ HashInv'
  <1>1. /\ approval'.status = s /\ approval'.payload = approval.payload
        /\ approval'.risk = approval.risk
        /\ approval'.approved_payload_hash = approval.approved_payload_hash
        /\ approval' \in [status : ApprovalStatus \cup {"ABSENT"}, payload : PayloadOrNone,
                          risk : Risk, approved_payload_hash : PayloadOrNone]
    BY DEF IInv, TypeInv
  <1>2. s # "ABSENT"
    BY DEF ApprovalStatus
  <1>3. SameRequest
    BY <1>1, <1>2 DEF SameRequest
  <1>4. FileCount' = FileCount
    BY <1>1 DEF FileCount
  <1>5. RiskInv' /\ HashInv'
    BY <1>1, <1>2 DEF IInv, RiskInv, HashInv
  <1> QED
    BY <1>1, <1>3, <1>4, <1>5

\* execute_github_change: the checks and EXECUTING.
LEMMA BeginPreserves ==
  ASSUME IInv, NEW e \in Executors, execute_github_change(e), UNCHANGED gatewayVars
  PROVE  IInv'
  <1>1. /\ ~Executing(e) /\ approval.status = "APPROVED" /\ ~approval.risk.blocked
        /\ approval.approved_payload_hash = approval.payload
        /\ approval.payload.files # << >>
        /\ approval' = [approval EXCEPT !.status = "EXECUTING"]
        /\ exec' = [exec EXCEPT ![e].pc = "branch"]
        /\ decided' = (decided /\ \E f \in Executors : Executing(f))
        /\ UNCHANGED <<github, interrupted>>
    BY DEF execute_github_change, validate_execution, compute_approval_payload_hash, Goto
  <1>2. "EXECUTING" \in ApprovalStatus /\ approval.status # "ABSENT"
    BY <1>1 DEF ApprovalStatus
  <1>3. /\ SameRequest /\ approval'.status = "EXECUTING" /\ FileCount' = FileCount
        /\ approval'.approved_payload_hash = approval.approved_payload_hash
        /\ approval' \in [status : ApprovalStatus \cup {"ABSENT"}, payload : PayloadOrNone,
                          risk : Risk, approved_payload_hash : PayloadOrNone]
        /\ RiskInv' /\ HashInv'
    BY <1>1, <1>2, StatusStep
  <1>4. approval.payload # NoPayload
    BY <1>2 DEF IInv, RiskInv
  <1>5. exec[e].pc = "idle"
    BY <1>1 DEF Executing
  <1>6. /\ exec'[e].pc = "branch" /\ exec'[e].done = exec[e].done
        /\ \A f \in Executors \ {e} : exec'[f] = exec[f]
    BY <1>1 DEF IInv, TypeInv
  <1>7. TypeInv'
    <2>1. decided' \in BOOLEAN
      BY <1>1
    <2> QED
      BY <2>1, <1>1, <1>3 DEF IInv, TypeInv, GatewayOK, gatewayVars
  <1>8. RunnerInv'
    <2>1. ExecInv'
      BY <1>1, <1>3, <1>4 DEF ExecInv, SameRequest
    <2>2. exec[e].done = 0
      BY <1>5 DEF IInv, ProgressInv
    <2>3. ProgressInv'
      BY <2>2, <1>1, <1>2, <1>3, <1>6 DEF IInv, ProgressInv
    <2>4. ReadyIsComplete'
      BY <1>3 DEF ReadyIsComplete
    <2>5. AloneInv'
      BY <1>3 DEF AloneInv
    <2>6. ASSUME NEW f \in Executors, f # e, Executing(f) PROVE decided'
      <3>1. decided
        BY <1>1, <2>6 DEF IInv, AloneInv
      <3> QED
        BY <1>1, <2>6, <3>1
    <2>7. OverlapNeedsDecision'
      BY <2>6, <1>6 DEF OverlapNeedsDecision, Executing
    <2> QED
      BY <2>1, <2>3, <2>4, <2>5, <2>7 DEF RunnerInv
  <1>9. GatewayInv'
    BY <1>3, GatewayFrame
  <1> QED
    BY <1>3, <1>7, <1>8, <1>9, Assemble

\* A step of an execution that keeps the approval: the rest of the invariant
\* follows from what it does to the repository.
LEMMA GithubStep ==
  ASSUME IInv, NEW e \in Executors, NEW x, Executing(e), x.pc # "idle",
         UNCHANGED <<approval, decided, interrupted>>, UNCHANGED gatewayVars,
         exec' = [exec EXCEPT ![e] = x],
         x \in [pc : {"idle", "branch", "create", "files", "pr", "opened"}, done : Nat],
         github' \in [branch : BOOLEAN, files : SUBSET Nat, pr : BOOLEAN],
         ProgressInv', github.branch => github'.branch,
         github.files \subseteq github'.files, github.pr => github'.pr
  PROVE  IInv'
  <1>1. /\ exec'[e] = x
        /\ \A f \in Executors : Executing(f)' = Executing(f)
    BY DEF IInv, TypeInv, Executing
  <1>2. TypeInv'
    BY DEF IInv, TypeInv, GatewayOK, gatewayVars
  <1>3. RiskInv' /\ HashInv'
    BY DEF IInv, RiskInv, HashInv
  <1>4. ExecInv'
    BY <1>1 DEF IInv, ExecInv
  <1>5. ReadyIsComplete'
    <2> SUFFICES ASSUME approval.status = "READY_FOR_PR"
                 PROVE  github'.branch /\ github'.files = 1..FileCount /\ github'.pr
      BY DEF ReadyIsComplete, FileCount
    <2>1. github.branch /\ github.files = 1..FileCount /\ github.pr
      BY DEF IInv, ReadyIsComplete
    <2>2. github'.files \subseteq 1..FileCount
      BY DEF ProgressInv, FileCount
    <2> QED
      BY <2>1, <2>2
  <1>6. AloneInv' /\ OverlapNeedsDecision'
    BY <1>1 DEF IInv, AloneInv, OverlapNeedsDecision
  <1>7. GatewayInv'
    <2>1. SameRequest
      BY DEF SameRequest
    <2> QED
      BY <2>1, GatewayFrame
  <1> QED
    BY <1>2, <1>3, <1>4, <1>5, <1>6, <1>7, Assemble DEF RunnerInv

\* The branch is looked up, and created when it is missing.
LEMMA BranchPreserves ==
  ASSUME IInv, NEW e \in Executors, find_branch(e) \/ create_ref(e),
         UNCHANGED gatewayVars
  PROVE  IInv'
  <1>1. Executing(e)
    BY DEF find_branch, create_ref, Executing
  <1>2. approval.status # "ABSENT" /\ FileCount \in Nat
    BY <1>1, ExecutingExists
  <1>3. 0 < FileCount
    <2>1. approval.payload.files # << >>
      BY <1>1 DEF IInv, ExecInv
    <2>2. approval.payload \in Payload
      BY <1>2, FileCountNat DEF IInv
    <2>3. approval.payload.files \in Seq(FileChange)
      BY <2>2 DEF Payload, FileChange
    <2> QED
      BY <2>1, <2>3 DEF FileCount
  <1>4. exec[e].done = 0 /\ exec[e] \in [pc : {"branch", "create"}, done : Nat]
    BY DEF IInv, ProgressInv, TypeInv, find_branch, create_ref
  <1>5. CASE find_branch(e)
    <2> DEFINE pc == IF github.branch THEN "files" ELSE "create"
               x == [exec[e] EXCEPT !.pc = pc]
    <2>1. /\ exec' = [exec EXCEPT ![e] = x]
          /\ UNCHANGED <<approval, github, decided, interrupted>>
      BY <1>5 DEF find_branch, Goto, runnerHistory
    <2>2. x.pc = pc /\ x.done = 0
          /\ x \in [pc : {"idle", "branch", "create", "files", "pr", "opened"}, done : Nat]
      BY <1>4
    <2> HIDE DEF x
    <2>3. exec'[e] = x /\ \A f \in Executors \ {e} : exec'[f] = exec[f]
      BY <2>1 DEF IInv, TypeInv
    <2>4. ProgressInv'
      BY <1>2, <1>3, <2>1, <2>2, <2>3 DEF IInv, ProgressInv, FileCount
    <2>5. github' \in [branch : BOOLEAN, files : SUBSET Nat, pr : BOOLEAN]
      BY <2>1 DEF IInv, TypeInv
    <2> QED
      BY <1>1, <2>1, <2>2, <2>4, <2>5, GithubStep
  <1>6. CASE create_ref(e)
    <2> DEFINE x == [exec[e] EXCEPT !.pc = "files"]
    <2>1. /\ exec' = [exec EXCEPT ![e] = x]
          /\ github' = [github EXCEPT !.branch = TRUE]
          /\ UNCHANGED <<approval, decided, interrupted>>
      BY <1>6 DEF create_ref, Goto, runnerHistory
    <2>2. x.pc = "files" /\ x.done = 0
          /\ x \in [pc : {"idle", "branch", "create", "files", "pr", "opened"}, done : Nat]
      BY <1>4
    <2> HIDE DEF x
    <2>3. exec'[e] = x /\ \A f \in Executors \ {e} : exec'[f] = exec[f]
      BY <2>1 DEF IInv, TypeInv
    <2>4. /\ github' \in [branch : BOOLEAN, files : SUBSET Nat, pr : BOOLEAN]
          /\ github'.branch /\ github'.files = github.files /\ github'.pr = github.pr
      BY <2>1 DEF IInv, TypeInv
    <2>5. ProgressInv'
      BY <1>2, <1>3, <2>1, <2>2, <2>3, <2>4 DEF IInv, ProgressInv, FileCount
    <2> QED
      BY <1>1, <2>1, <2>2, <2>4, <2>5, GithubStep
  <1> QED
    BY <1>5, <1>6

\* One file is put on the branch.
LEMMA PutFilePreserves ==
  ASSUME IInv, NEW e \in Executors, put_file(e), UNCHANGED gatewayVars
  PROVE  IInv'
  <1> DEFINE i == exec[e].done + 1
             x == [pc |-> IF i = FileCount THEN "pr" ELSE "files", done |-> i]
  <1>1. /\ exec[e].pc = "files"
        /\ github' = [github EXCEPT !.files = @ \cup {i}]
        /\ exec' = [exec EXCEPT ![e] = x]
        /\ UNCHANGED <<approval, decided, interrupted>>
    BY DEF put_file, runnerHistory
  <1>2. Executing(e)
    BY <1>1 DEF Executing
  <1>3. approval.status # "ABSENT" /\ FileCount \in Nat
    BY <1>2, ExecutingExists
  <1>4. /\ exec[e].done \in Nat /\ exec[e].done < FileCount
        /\ github.branch /\ 1..exec[e].done \subseteq github.files
    BY <1>1 DEF IInv, ProgressInv, TypeInv
  <1>5. i \in Nat /\ i \in 1..FileCount /\ 1..i = (1..exec[e].done) \cup {i}
    BY <1>3, <1>4
  <1>6. /\ x.pc \in {"files", "pr"} /\ x.done = i
        /\ x.pc = "files" => i < FileCount
        /\ x.pc = "pr" => i = FileCount
        /\ x \in [pc : {"idle", "branch", "create", "files", "pr", "opened"}, done : Nat]
    BY <1>3, <1>5
  <1> HIDE DEF x, i
  <1>7. exec'[e] = x /\ \A f \in Executors \ {e} : exec'[f] = exec[f]
    BY <1>1 DEF IInv, TypeInv
  <1>8. /\ github' \in [branch : BOOLEAN, files : SUBSET Nat, pr : BOOLEAN]
        /\ github'.branch = github.branch /\ github'.pr = github.pr
        /\ github'.files = github.files \cup {i}
    BY <1>1, <1>5 DEF IInv, TypeInv
  <1>9. ProgressInv'
    <2>1. FileCount' = FileCount /\ approval'.status # "ABSENT"
      BY <1>1, <1>3 DEF FileCount
    <2>2. github'.files \subseteq 1..FileCount
      BY <1>3, <1>5, <1>8 DEF IInv, ProgressInv
    <2>3. 1..i \subseteq github'.files
      BY <1>4, <1>5, <1>8
    <2>4. ASSUME NEW f \in Executors \ {e}
          PROVE  /\ exec'[f].pc \in {"idle", "branch", "create"} => exec'[f].done = 0
                 /\ exec'[f].pc \in {"files", "pr", "opened"} =>
                       github'.branch /\ 1..exec'[f].done \subseteq github'.files
                 /\ exec'[f].pc = "files" => exec'[f].done < FileCount
                 /\ exec'[f].pc \in {"pr", "opened"} => exec'[f].done = FileCount
                 /\ exec'[f].pc = "opened" => github'.pr
      BY <1>7, <1>8 DEF IInv, ProgressInv
    <2>5. /\ exec'[e].pc \in {"idle", "branch", "create"} => exec'[e].done = 0
          /\ exec'[e].pc \in {"files", "pr", "opened"} =>
                github'.branch /\ 1..exec'[e].done \subseteq github'.files
          /\ exec'[e].pc = "files" => exec'[e].done < FileCount
          /\ exec'[e].pc \in {"pr", "opened"} => exec'[e].done = FileCount
          /\ exec'[e].pc = "opened" => github'.pr
      BY <1>4, <1>6, <1>7, <1>8, <2>3
    <2>6. /\ ~github'.branch => github'.files = {}
          /\ github'.pr => github'.branch
      BY <1>4, <1>8
    <2> QED
      BY <2>1, <2>2, <2>4, <2>5, <2>6 DEF ProgressInv
  <1> QED
    BY <1>1, <1>2, <1>6, <1>8, <1>9, GithubStep

\* The pull request is opened.
LEMMA OpenPreserves ==
  ASSUME IInv, NEW e \in Executors, open_pull_request(e), UNCHANGED gatewayVars
  PROVE  IInv'
  <1> DEFINE x == [exec[e] EXCEPT !.pc = "opened"]
  <1>1. /\ exec[e].pc = "pr"
        /\ exec' = [exec EXCEPT ![e] = x]
        /\ github' = [github EXCEPT !.pr = TRUE]
        /\ UNCHANGED <<approval, decided, interrupted>>
    BY DEF open_pull_request, Goto, runnerHistory
  <1>2. Executing(e)
    BY <1>1 DEF Executing
  <1>3. x.pc = "opened" /\ x.done = exec[e].done
        /\ x \in [pc : {"idle", "branch", "create", "files", "pr", "opened"}, done : Nat]
    BY DEF IInv, TypeInv
  <1> HIDE DEF x
  <1>4. exec'[e] = x /\ \A f \in Executors \ {e} : exec'[f] = exec[f]
    BY <1>1 DEF IInv, TypeInv
  <1>5. /\ github' \in [branch : BOOLEAN, files : SUBSET Nat, pr : BOOLEAN]
        /\ github'.branch = github.branch /\ github'.files = github.files /\ github'.pr
    BY <1>1 DEF IInv, TypeInv
  <1>6. ProgressInv'
    BY <1>1, <1>3, <1>4, <1>5 DEF IInv, ProgressInv, FileCount
  <1> QED
    BY <1>1, <1>2, <1>3, <1>5, <1>6, GithubStep

\* An execution ends, with READY_FOR_PR or with FAILED.
LEMMA EndPreserves ==
  ASSUME IInv, NEW e \in Executors, finish_execution(e) \/ execution_failed(e),
         UNCHANGED gatewayVars
  PROVE  IInv'
  <1>1. PICK s \in {"READY_FOR_PR", "FAILED"} :
          /\ Executing(e)
          /\ approval' = [approval EXCEPT !.status = s]
          /\ exec' = [exec EXCEPT ![e] = ExecIdle]
          /\ UNCHANGED <<github, decided, interrupted>>
          /\ s = "READY_FOR_PR" => exec[e].pc = "opened"
    BY DEF finish_execution, execution_failed, Executing, runnerHistory
  <1>2. approval.status # "ABSENT" /\ FileCount \in Nat
    BY <1>1, ExecutingExists
  <1>3. s \in ApprovalStatus
    BY DEF ApprovalStatus
  <1>4. /\ SameRequest /\ approval'.status = s /\ FileCount' = FileCount
        /\ approval'.approved_payload_hash = approval.approved_payload_hash
        /\ approval' \in [status : ApprovalStatus \cup {"ABSENT"}, payload : PayloadOrNone,
                          risk : Risk, approved_payload_hash : PayloadOrNone]
        /\ RiskInv' /\ HashInv'
    BY <1>1, <1>2, <1>3, StatusStep
  <1>5. exec'[e].pc = "idle" /\ exec'[e].done = 0
        /\ \A f \in Executors \ {e} : exec'[f] = exec[f]
    BY <1>1 DEF IInv, TypeInv, ExecIdle
  <1>6. TypeInv'
    BY <1>1, <1>4 DEF IInv, TypeInv, GatewayOK, gatewayVars, ExecIdle
  <1>7. ExecInv'
    BY <1>1, <1>4, <1>5 DEF IInv, ExecInv, Executing, SameRequest
  <1>8. ProgressInv'
    BY <1>1, <1>2, <1>4, <1>5 DEF IInv, ProgressInv
  <1>9. ReadyIsComplete'
    <2> SUFFICES ASSUME s = "READY_FOR_PR"
                 PROVE  github.branch /\ github.files = 1..FileCount /\ github.pr
      BY <1>1, <1>4 DEF ReadyIsComplete
    <2>1. exec[e].pc = "opened"
      BY <1>1
    <2>2. github.branch /\ github.pr /\ 1..FileCount \subseteq github.files
      BY <2>1 DEF IInv, ProgressInv
    <2>3. github.files \subseteq 1..FileCount
      BY <1>2 DEF IInv, ProgressInv
    <2> QED
      BY <2>2, <2>3
  <1>10. AloneInv'
    <2>1. ~decided => \A f \in Executors \ {e} : ~Executing(f)
      BY <1>1 DEF IInv, OverlapNeedsDecision
    <2> QED
      BY <2>1, <1>1, <1>5 DEF AloneInv, Executing
  <1>11. OverlapNeedsDecision'
    BY <1>1, <1>5 DEF IInv, OverlapNeedsDecision, Executing
  <1>12. GatewayInv'
    BY <1>4, GatewayFrame
  <1> QED
    BY <1>4, <1>6, <1>7, <1>8, <1>9, <1>10, <1>11, <1>12, Assemble DEF RunnerInv

\* Every step of an execution.
LEMMA ExecutePreserves ==
  ASSUME IInv, Execute
  PROVE  IInv'
  <1>1. PICK e \in Executors : ExecutorStep(e) /\ UNCHANGED gatewayVars
    BY DEF Execute
  <1> QED
    BY <1>1, BeginPreserves, BranchPreserves, PutFilePreserves, OpenPreserves,
       EndPreserves
    DEF ExecutorStep, Execution

----------------------------------------------------------------------------
(* The steps of the gateway preserve the invariant.                        *)

\* The registry and the expiry: no thread moves.
LEMMA RequestPreserves ==
  ASSUME IInv, UNCHANGED <<approval, runnerVars>>,
         UNCHANGED <<held, resolver, received, unsettled, overlapped>>,
         server' \in register_child_server,
         pending' \in [status : MCPPendingStatus \cup {"ABSENT"},
                       attempts : 0..AttemptBound, lease : {"none", "live", "expired"}],
         pending'.status = pending.status
  PROVE  IInv'
  <1>1. TypeInv'
    BY DEF IInv, TypeInv, GatewayOK, runnerVars
  <1>2. RunnerInv' /\ RiskInv' /\ HashInv'
    BY RunnerFrame
  <1>3. CallInv'
    BY DEF IInv, CallInv
  <1>4. ReceivedWasApproved' /\ RepeatHasCause' /\ OrphanNeedsOverlap'
    BY DEF IInv, ReceivedWasApproved, RepeatHasCause, OrphanNeedsOverlap
  <1>5. OneResolverInv'
    BY DEF IInv, OneResolverInv
  <1>6. SentInv'
    BY DEF IInv, SentInv
  <1> QED
    BY <1>1, <1>2, <1>3, <1>4, <1>5, <1>6, Assemble DEF GatewayInv

\* enable_child_server and disable_child_server.
LEMMA RegistryPreserves ==
  ASSUME IInv, Registry
  PROVE  IInv'
  <1>1. /\ server' \in register_child_server
        /\ UNCHANGED <<approval, runnerVars>>
        /\ UNCHANGED <<pending, held, resolver, received, unsettled, overlapped>>
    BY DEF Registry, enable_child_server, disable_child_server, register_child_server,
           gatewayHistory
  <1>2. pending' \in [status : MCPPendingStatus \cup {"ABSENT"},
                      attempts : 0..AttemptBound, lease : {"none", "live", "expired"}]
    BY <1>1 DEF IInv, TypeInv, GatewayOK
  <1> QED
    BY <1>1, <1>2, RequestPreserves

\* The end of a lease.
LEMMA ExpiryPreserves ==
  ASSUME IInv, UNCHANGED runnerVars, expire_pending_lease
  PROVE  IInv'
  <1>1. pending \in [status : MCPPendingStatus \cup {"ABSENT"},
                     attempts : 0..AttemptBound, lease : {"none", "live", "expired"}]
    BY DEF IInv, TypeInv, GatewayOK
  <1> QED
    BY <1>1, RequestPreserves DEF expire_pending_lease, gatewayHistory, IInv, TypeInv, GatewayOK

\* A step of the gateway leaves the runner's half as it is.
LEMMA GatewayOnly ==
  ASSUME IInv, UNCHANGED <<approval, runnerVars>>, GatewayOK', GatewayInv',
         overlapped' \in BOOLEAN
  PROVE  IInv'
  <1>1. TypeInv'
    BY DEF IInv, TypeInv, runnerVars
  <1>2. RunnerInv' /\ RiskInv' /\ HashInv'
    BY RunnerFrame
  <1> QED
    BY <1>1, <1>2, Assemble

\* The first part of resolve_after_side_channel_decision: the thread goes on only
\* with an approved call, and closes one that is not approved.
LEMMA ResolvePreserves ==
  ASSUME IInv, NEW r \in Resolvers, resolve_after_side_channel_decision(r),
         UNCHANGED runnerVars
  PROVE  IInv'
  <1>1. /\ resolver[r] = "idle" /\ pending.status # "ABSENT"
        /\ overlapped' = (overlapped \/ Resolving)
        /\ UNCHANGED <<approval, server, received, unsettled>>
    BY DEF resolve_after_side_channel_decision
  <1>2. /\ pending \in [status : MCPPendingStatus \cup {"ABSENT"},
                        attempts : 0..AttemptBound, lease : {"none", "live", "expired"}]
        /\ resolver \in [Resolvers -> {"idle", "take", "lease", "acquire", "forward",
                                       "sent", "answered", "retry"}]
        /\ held \in BOOLEAN
    BY DEF IInv, TypeInv, GatewayOK
  <1>3. overlapped' \in BOOLEAN
    BY <1>1 DEF IInv, TypeInv, Resolving
  <1>4. ~overlapped' => ~overlapped /\ \A q \in Resolvers : resolver[q] = "idle"
    BY <1>1 DEF Resolving
  <1>5. CASE pending.status \in FINAL_PENDING_STATUSES
    <2>1. held' = FALSE /\ UNCHANGED <<pending, resolver>>
      BY <1>5 DEF resolve_after_side_channel_decision
    <2>2. GatewayOK'
      BY <1>1, <1>2, <2>1 DEF IInv, TypeInv, GatewayOK
    <2>3. GatewayInv'
      BY <1>1, <1>4, <2>1
      DEF IInv, GatewayInv, CallInv, ReceivedWasApproved, OneResolverInv, SentInv,
          RepeatHasCause, OrphanNeedsOverlap
    <2> QED
      BY <1>1, <1>3, <2>2, <2>3, GatewayOnly
  <1>6. CASE pending.status \notin FINAL_PENDING_STATUSES
    <2>1. pending.status \in {"WAITING_FOR_APPROVAL", "FORWARDING"}
      BY <1>1, <1>2, <1>6 DEF MCPPendingStatus, FINAL_PENDING_STATUSES
    <2>2. Reopened(pending).status = "WAITING_FOR_APPROVAL"
          /\ Reopened(pending) \in [status : MCPPendingStatus \cup {"ABSENT"},
                     attempts : 0..AttemptBound, lease : {"none", "live", "expired"}]
      BY <1>2, <2>1 DEF Reopened, MCPPendingStatus
    <2>3. ~overlapped' /\ unsettled' = {} => received' = 0
      <3>1. received \in 0..2
        BY DEF IInv, TypeInv, GatewayOK
      <3>2. ~overlapped' /\ unsettled' = {} => ~(received > 0)
        BY <1>1, <1>4, <2>1 DEF IInv, SentInv
      <3> QED
        BY <1>1, <3>1, <3>2
    <2>4. CASE approval.status # "APPROVED"
      <3>1. pending' = Marked(Reopened(pending), "BLOCKED_BY_DECISION")
            /\ UNCHANGED <<held, resolver>>
        BY <1>6, <2>4 DEF resolve_after_side_channel_decision
      <3>2. pending'.status = "BLOCKED_BY_DECISION"
            /\ pending' \in [status : MCPPendingStatus \cup {"ABSENT"},
                     attempts : 0..AttemptBound, lease : {"none", "live", "expired"}]
        BY <2>2, <3>1 DEF Marked, FINAL_PENDING_STATUSES, MCPPendingStatus
      <3>3. GatewayOK'
        BY <1>1, <1>2, <3>1, <3>2 DEF IInv, TypeInv, GatewayOK
      <3>4. CallInv' /\ ReceivedWasApproved' /\ RepeatHasCause' /\ OrphanNeedsOverlap'
        BY <1>1, <3>1, <3>2
        DEF IInv, CallInv, ReceivedWasApproved, RepeatHasCause, OrphanNeedsOverlap
      <3>5. OneResolverInv' /\ SentInv'
        BY <1>4, <2>3, <3>1 DEF OneResolverInv, SentInv
      <3> QED
        BY <1>1, <1>3, <3>3, <3>4, <3>5, GatewayOnly DEF GatewayInv
    <2>5. CASE approval.status = "APPROVED"
      <3>1. /\ pending' = Reopened(pending) /\ held' = held
            /\ \/ UNCHANGED resolver
               \/ /\ approval.approved_payload_hash = approval.payload
                  /\ resolver' = [resolver EXCEPT ![r] = "take"]
        BY <1>6, <2>5
        DEF resolve_after_side_channel_decision, Goto_, compute_approval_payload_hash
      <3>2. GatewayOK'
        BY <1>1, <1>2, <2>2, <3>1 DEF IInv, TypeInv, GatewayOK
      <3>3. \A q \in Resolvers : q # r => resolver'[q] = resolver[q]
        BY <1>2, <3>1
      <3>4. \/ resolver'[r] = "idle"
            \/ /\ resolver'[r] = "take"
               /\ approval.approved_payload_hash = approval.payload
        BY <1>1, <1>2, <3>1
      <3>5. CallInv'
        BY <1>1, <2>2, <3>1, <3>3, <3>4 DEF IInv, CallInv
      <3>6. ReceivedWasApproved' /\ RepeatHasCause' /\ OrphanNeedsOverlap'
        BY <1>1, <2>2, <3>1
        DEF IInv, ReceivedWasApproved, RepeatHasCause, OrphanNeedsOverlap
      <3>7. OneResolverInv'
        BY <1>4, <2>2, <3>1, <3>3, <3>4 DEF OneResolverInv
      <3>8. SentInv'
        BY <2>3 DEF SentInv
      <3> QED
        BY <1>1, <1>3, <3>2, <3>5, <3>6, <3>7, <3>8, GatewayOnly DEF GatewayInv
    <2> QED
      BY <2>4, <2>5
  <1> QED
    BY <1>5, <1>6

\* _recover_pending_call: without an overlap the request still waits, so the call
\* is found.
LEMMA RecoverPreserves ==
  ASSUME IInv, NEW r \in Resolvers, recover_pending_call(r), UNCHANGED runnerVars
  PROVE  IInv'
  <1>1. resolver[r] = "take"
        /\ UNCHANGED <<approval, server, received, unsettled, overlapped>>
    BY DEF recover_pending_call, gatewayHistory
  <1>2. GatewayOK
    BY DEF IInv, TypeInv
  <1>3. overlapped' \in BOOLEAN
    BY <1>1 DEF IInv, TypeInv
  <1>4. CASE held \/ pending.status = "WAITING_FOR_APPROVAL"
    <2>1. held' = FALSE /\ resolver' = [resolver EXCEPT ![r] = "lease"] /\ pending' = pending
      BY <1>4 DEF recover_pending_call, Goto_
    <2>2. GatewayOK'
      BY <1>1, <1>2, <2>1 DEF GatewayOK
    <2>3. resolver'[r] = "lease" /\ \A q \in Resolvers : q # r => resolver'[q] = resolver[q]
      BY <1>2, <2>1 DEF GatewayOK
    <2>4. CallInv' /\ ReceivedWasApproved' /\ RepeatHasCause' /\ OrphanNeedsOverlap'
      BY <1>1, <2>1, <2>3
      DEF IInv, CallInv, ReceivedWasApproved, RepeatHasCause, OrphanNeedsOverlap
    <2>5. OneResolverInv'
      BY <1>1, <2>1, <2>3 DEF IInv, OneResolverInv
    <2>6. SentInv'
      BY <1>1, <2>1, <2>3 DEF IInv, SentInv
    <2> QED
      BY <1>1, <1>3, <2>2, <2>4, <2>5, <2>6, GatewayOnly DEF GatewayInv
  <1>5. CASE ~(held \/ pending.status = "WAITING_FOR_APPROVAL")
    <2>1. /\ pending' = Marked(pending, "ORPHANED") /\ held' = held
          /\ resolver' = [resolver EXCEPT ![r] = "idle"]
      BY <1>5 DEF recover_pending_call, Idle
    <2>2. overlapped
      BY <1>1, <1>5 DEF IInv, OneResolverInv
    <2>3. GatewayOK'
      BY <1>1, <1>2, <2>1 DEF GatewayOK, Marked, MCPPendingStatus
    <2>4. pending.status # "ABSENT" /\ pending'.status # "ABSENT"
      BY <1>1, <1>2, <2>1 DEF IInv, CallInv, Marked, GatewayOK
    <2>5. \A q \in Resolvers : resolver'[q] # "idle" => resolver[q] # "idle"
      BY <1>2, <2>1 DEF GatewayOK
    <2>6. CallInv'
      BY <1>1, <2>4, <2>5 DEF IInv, CallInv
    <2>7. ReceivedWasApproved' /\ RepeatHasCause' /\ OrphanNeedsOverlap'
          /\ OneResolverInv' /\ SentInv'
      BY <1>1, <2>2
      DEF IInv, ReceivedWasApproved, RepeatHasCause, OrphanNeedsOverlap,
          OneResolverInv, SentInv
    <2> QED
      BY <1>1, <1>3, <2>3, <2>6, <2>7, GatewayOnly DEF GatewayInv
  <1> QED
    BY <1>4, <1>5

\* A step of the active thread that leaves the pending request as it is.
LEMMA MovePreserves ==
  ASSUME IInv, NEW r \in Resolvers, NEW pc, UNCHANGED runnerVars,
         UNCHANGED <<approval, pending, held, server, received, overlapped>>,
         resolver[r] # "idle", resolver' = [resolver EXCEPT ![r] = pc],
         pc \in {"idle", "acquire", "answered"},
         pc = "acquire" => resolver[r] = "lease",
         pc = "answered" => resolver[r] = "forward",
         unsettled \subseteq unsettled', unsettled' \subseteq Endings,
         resolver[r] = "sent" => unsettled' # {}
  PROVE  IInv'
  <1>1. GatewayOK'
    BY DEF IInv, TypeInv, GatewayOK
  <1>2. overlapped' \in BOOLEAN
    BY DEF IInv, TypeInv
  <1>3. resolver'[r] = pc /\ \A q \in Resolvers : q # r => resolver'[q] = resolver[q]
    BY DEF IInv, TypeInv, GatewayOK
  <1>4. CallInv' /\ ReceivedWasApproved' /\ RepeatHasCause' /\ OrphanNeedsOverlap'
    BY <1>3 DEF IInv, CallInv, ReceivedWasApproved, RepeatHasCause, OrphanNeedsOverlap
  <1>5. OneResolverInv'
    BY <1>3 DEF IInv, OneResolverInv
  <1>6. SentInv'
    BY <1>3 DEF IInv, SentInv
  <1> QED
    BY <1>1, <1>2, <1>4, <1>5, <1>6, GatewayOnly DEF GatewayInv

\* The lease is checked; an attempt ends with an exception.
LEMMA CheckPreserves ==
  ASSUME IInv, NEW r \in Resolvers, check_pending_lease(r) \/ forward_raised(r),
         UNCHANGED runnerVars
  PROVE  IInv'
  <1>1. unsettled \subseteq Endings
    BY DEF IInv, TypeInv, GatewayOK
  <1>2. CASE check_pending_lease(r)
    <2>1. /\ resolver[r] = "lease"
          /\ UNCHANGED <<approval, pending, held, server, received, overlapped, unsettled>>
      BY <1>2 DEF check_pending_lease, gatewayHistory
    <2>2. PICK pc \in {"idle", "acquire"} : resolver' = [resolver EXCEPT ![r] = pc]
      BY <1>2 DEF check_pending_lease, Idle, Goto_
    <2>3. unsettled' = unsettled
      BY <2>1
    <2> QED
      BY <1>1, <2>1, <2>2, <2>3, MovePreserves
  <1>3. CASE forward_raised(r)
    <2>1. /\ unsettled \subseteq unsettled' /\ unsettled' \subseteq Endings
          /\ resolver[r] = "sent" => unsettled' # {}
      BY <1>1, <1>3 DEF forward_raised, Endings
    <2> QED
      BY <1>3, <2>1, MovePreserves DEF forward_raised, Idle
  <1> QED
    BY <1>2, <1>3

\* _acquire_pending_lease counts the attempt and takes the lease.
LEMMA AcquirePreserves ==
  ASSUME IInv, NEW r \in Resolvers, acquire_pending_lease(r), UNCHANGED runnerVars
  PROVE  IInv'
  <1>1. /\ resolver[r] = "acquire" /\ pending.attempts < AttemptBound
        /\ pending' = [status |-> "FORWARDING", attempts |-> pending.attempts + 1,
                       lease |-> "live"]
        /\ resolver' = [resolver EXCEPT ![r] = "forward"]
        /\ UNCHANGED <<approval, held, server, received, unsettled, overlapped>>
    BY DEF acquire_pending_lease, Goto_, gatewayHistory
  <1>2. pending.attempts \in 0..AttemptBound
    BY DEF IInv, TypeInv, GatewayOK
  <1>3. GatewayOK'
    <2>1. pending.attempts + 1 \in 0..AttemptBound
      BY <1>1, <1>2, AttemptAssumption
    <2> QED
      BY <2>1, <1>1 DEF IInv, TypeInv, GatewayOK, MCPPendingStatus
  <1>4. overlapped' \in BOOLEAN
    BY <1>1 DEF IInv, TypeInv
  <1>5. resolver'[r] = "forward" /\ \A q \in Resolvers : q # r => resolver'[q] = resolver[q]
    BY <1>1 DEF IInv, TypeInv, GatewayOK
  <1>6. CallInv' /\ ReceivedWasApproved' /\ RepeatHasCause' /\ OrphanNeedsOverlap'
    BY <1>1, <1>5
    DEF IInv, CallInv, ReceivedWasApproved, RepeatHasCause, OrphanNeedsOverlap
  <1>7. OneResolverInv'
    BY <1>1, <1>5 DEF IInv, OneResolverInv
  <1>8. SentInv'
    <2> SUFFICES ASSUME received > 0, unsettled = {}, ~overlapped PROVE FALSE
      BY <1>1 DEF SentInv
    <2>1. \A q \in Resolvers : q # r => resolver[q] = "idle"
      BY <1>1 DEF IInv, OneResolverInv
    <2>2. pending.status = "WAITING_FOR_APPROVAL"
      BY <1>1 DEF IInv, OneResolverInv
    <2> QED
      BY <1>1, <2>1, <2>2 DEF IInv, SentInv
  <1> QED
    BY <1>1, <1>3, <1>4, <1>6, <1>7, <1>8, GatewayOnly DEF GatewayInv

\* call_tool: a second call reaches the child only after a doubt or an overlap.
LEMMA CallPreserves ==
  ASSUME IInv, NEW r \in Resolvers, call_tool(r), UNCHANGED runnerVars
  PROVE  IInv'
  <1>1. /\ resolver[r] = "forward"
        /\ UNCHANGED <<approval, pending, held, server, unsettled, overlapped>>
    BY DEF call_tool, gatewayHistory
  <1>2. overlapped' \in BOOLEAN
        /\ received \in 0..2
    BY <1>1 DEF IInv, TypeInv, GatewayOK
  <1>3. CASE server = "enabled"
    <2>1. /\ received' = IF received = 2 THEN 2 ELSE received + 1
          /\ resolver' = [resolver EXCEPT ![r] = "sent"]
      BY <1>3 DEF call_tool, Goto_
    <2>2. received' \in 1..2 /\ (received' > 1 => received > 0)
      BY <1>2, <2>1
    <2>3. GatewayOK'
      BY <1>1, <2>1, <2>2 DEF IInv, TypeInv, GatewayOK
    <2>4. resolver'[r] = "sent" /\ \A q \in Resolvers : q # r => resolver'[q] = resolver[q]
      BY <2>1 DEF IInv, TypeInv, GatewayOK
    <2>5. received > 0 => unsettled # {} \/ overlapped
      <3> SUFFICES ASSUME received > 0, unsettled = {}, ~overlapped PROVE FALSE
        OBVIOUS
      <3>1. \A q \in Resolvers : q # r => resolver[q] = "idle"
        BY <1>1 DEF IInv, OneResolverInv
      <3>2. pending.status \in {"WAITING_FOR_APPROVAL", "FORWARDING"}
        BY <1>1 DEF IInv, OneResolverInv
      <3> QED
        BY <1>1, <3>1, <3>2 DEF IInv, SentInv
    <2>6. CallInv' /\ OrphanNeedsOverlap'
      BY <1>1, <2>4 DEF IInv, CallInv, OrphanNeedsOverlap
    <2>7. ReceivedWasApproved'
      BY <1>1 DEF IInv, CallInv, ReceivedWasApproved
    <2>8. RepeatHasCause'
      BY <1>1, <2>2, <2>5 DEF RepeatHasCause
    <2>9. OneResolverInv'
      BY <1>1, <2>4 DEF IInv, OneResolverInv
    <2>10. SentInv'
      BY <2>4 DEF SentInv
    <2> QED
      BY <1>1, <1>2, <2>3, <2>6, <2>7, <2>8, <2>9, <2>10, GatewayOnly DEF GatewayInv
  <1>4. CASE server # "enabled"
    <2>1. resolver' = [resolver EXCEPT ![r] = "answered"] /\ received' = received
      BY <1>4 DEF call_tool, Goto_
    <2>2. unsettled' = unsettled /\ unsettled \subseteq Endings
      BY <1>1 DEF IInv, TypeInv, GatewayOK
    <2> QED
      BY <1>1, <2>1, <2>2, MovePreserves
  <1> QED
    BY <1>3, <1>4

\* The child answered: the request is closed as forwarded.
LEMMA ForwardedPreserves ==
  ASSUME IInv, NEW r \in Resolvers, forwarded_after_approval(r), UNCHANGED runnerVars
  PROVE  IInv'
  <1>1. /\ resolver[r] \in {"sent", "answered"}
        /\ pending' = Marked(pending, "FORWARDED")
        /\ resolver' = [resolver EXCEPT ![r] = "idle"]
        /\ UNCHANGED <<approval, held, server, received, unsettled, overlapped>>
    BY DEF forwarded_after_approval, Idle, gatewayHistory
  <1>2. overlapped' \in BOOLEAN /\ GatewayOK
    BY <1>1 DEF IInv, TypeInv
  <1>3. GatewayOK'
    BY <1>1, <1>2 DEF GatewayOK, Marked, MCPPendingStatus
  <1>4. /\ pending.status # "ABSENT" /\ pending'.status # "ABSENT"
        /\ pending'.status = "ORPHANED" => pending.status = "ORPHANED"
        /\ pending.status \in {"WAITING_FOR_APPROVAL", "FORWARDING", "FORWARDED"}
              => pending'.status = "FORWARDED"
    BY <1>1, <1>2 DEF IInv, CallInv, Marked, GatewayOK, FINAL_PENDING_STATUSES
  <1>5. resolver'[r] = "idle" /\ \A q \in Resolvers : q # r => resolver'[q] = resolver[q]
    BY <1>1, <1>2 DEF GatewayOK
  <1>6. CallInv' /\ ReceivedWasApproved' /\ RepeatHasCause' /\ OrphanNeedsOverlap'
    BY <1>1, <1>4, <1>5
    DEF IInv, CallInv, ReceivedWasApproved, RepeatHasCause, OrphanNeedsOverlap
  <1>7. OneResolverInv' /\ SentInv'
    BY <1>1, <1>4, <1>5 DEF IInv, OneResolverInv, SentInv
  <1> QED
    BY <1>1, <1>2, <1>3, <1>6, <1>7, GatewayOnly DEF GatewayInv

\* The child refused or its answer was lost: the request waits again, or is dead.
LEMMA FailurePreserves ==
  ASSUME IInv, NEW r \in Resolvers, handle_forward_failure(r), UNCHANGED runnerVars
  PROVE  IInv'
  <1>1. /\ resolver[r] \in {"forward", "sent"}
        /\ pending' = [pending EXCEPT
                         !.status = IF pending.attempts >= MaxAttempts
                                    THEN "DEAD_LETTER" ELSE "WAITING_FOR_APPROVAL",
                         !.lease = "none"]
        /\ \/ resolver[r] = "sent" /\ \E ending \in Endings : unsettled' = unsettled \cup {ending}
           \/ resolver[r] = "forward" /\ unsettled' = unsettled
        /\ resolver' = [resolver EXCEPT ![r] = "idle"]
        /\ UNCHANGED <<approval, held, server, received, overlapped>>
    BY DEF handle_forward_failure, Idle
  <1>2. overlapped' \in BOOLEAN /\ GatewayOK
    BY <1>1 DEF IInv, TypeInv
  <1>3. GatewayOK' /\ pending'.status \in {"DEAD_LETTER", "WAITING_FOR_APPROVAL"}
    BY <1>1, <1>2 DEF GatewayOK, MCPPendingStatus
  <1>4. pending.status # "ABSENT"
    BY <1>1 DEF IInv, CallInv
  <1>5. resolver'[r] = "idle" /\ \A q \in Resolvers : q # r => resolver'[q] = resolver[q]
    BY <1>1, <1>2 DEF GatewayOK
  <1>6. CallInv' /\ ReceivedWasApproved' /\ RepeatHasCause' /\ OrphanNeedsOverlap'
    BY <1>1, <1>3, <1>4, <1>5
    DEF IInv, CallInv, ReceivedWasApproved, RepeatHasCause, OrphanNeedsOverlap
  <1>7. OneResolverInv'
    BY <1>1, <1>5 DEF IInv, OneResolverInv
  <1>8. SentInv'
    <2> SUFFICES ASSUME received > 0, unsettled' = {}, ~overlapped PROVE FALSE
      BY <1>1 DEF SentInv
    <2>1. resolver[r] = "forward" /\ unsettled = {}
      BY <1>1
    <2>2. \A q \in Resolvers : q # r => resolver[q] = "idle"
      BY <2>1 DEF IInv, OneResolverInv
    <2>3. pending.status \in {"WAITING_FOR_APPROVAL", "FORWARDING"}
      BY <2>1 DEF IInv, OneResolverInv
    <2> QED
      BY <2>1, <2>2, <2>3 DEF IInv, SentInv
  <1> QED
    BY <1>1, <1>2, <1>3, <1>6, <1>7, <1>8, GatewayOnly DEF GatewayInv

\* The checks of retry_pending_gateway_request, and its assignments: a request
\* is reopened, but without an overlap not one that was forwarded.
LEMMA RetryPreserves ==
  ASSUME IInv, NEW r \in Resolvers, check_retry(r) \/ retry_pending_gateway_request(r),
         UNCHANGED runnerVars
  PROVE  IInv'
  <1>1. GatewayOK /\ UNCHANGED approval
    BY DEF IInv, TypeInv, check_retry, retry_pending_gateway_request
  <1>2. CASE check_retry(r)
    <2>1. /\ resolver[r] = "idle" /\ resolver' = [resolver EXCEPT ![r] = "retry"]
          /\ pending.status \in {"WAITING_FOR_APPROVAL", "FORWARDING", "DEAD_LETTER"}
          /\ overlapped' = (overlapped \/ Resolving)
          /\ UNCHANGED <<approval, pending, held, server, received, unsettled>>
      BY <1>2 DEF check_retry, Goto_
    <2>2. ~overlapped' => ~overlapped /\ \A q \in Resolvers : resolver[q] = "idle"
      BY <2>1 DEF Resolving
    <2>3. overlapped' \in BOOLEAN
      BY <2>1 DEF IInv, TypeInv, Resolving
    <2>4. resolver'[r] = "retry" /\ \A q \in Resolvers : q # r => resolver'[q] = resolver[q]
      BY <1>1, <2>1 DEF GatewayOK
    <2>5. GatewayOK'
      BY <1>1, <2>1 DEF GatewayOK
    <2>6. CallInv' /\ ReceivedWasApproved' /\ RepeatHasCause' /\ OrphanNeedsOverlap'
      BY <2>1, <2>4 DEF IInv, CallInv, ReceivedWasApproved, RepeatHasCause, OrphanNeedsOverlap
    <2>7. OneResolverInv'
      BY <2>1, <2>2, <2>4 DEF OneResolverInv
    <2>8. SentInv'
      BY <2>1, <2>2, <2>4 DEF IInv, SentInv
    <2> QED
      BY <1>1, <2>3, <2>5, <2>6, <2>7, <2>8, GatewayOnly DEF GatewayInv
  <1>3. CASE retry_pending_gateway_request(r)
    <2>1. /\ resolver[r] = "retry" /\ resolver' = [resolver EXCEPT ![r] = "idle"]
          /\ UNCHANGED <<approval, held, server, received, unsettled, overlapped>>
      BY <1>3 DEF retry_pending_gateway_request, Idle, gatewayHistory
    <2>2. /\ pending'.status = "WAITING_FOR_APPROVAL"
          /\ pending' \in [status : MCPPendingStatus \cup {"ABSENT"},
                           attempts : 0..AttemptBound, lease : {"none", "live", "expired"}]
      BY <1>1, <1>3, AttemptAssumption
      DEF retry_pending_gateway_request, GatewayOK, MCPPendingStatus
    <2>3. overlapped' \in BOOLEAN
      BY <2>1 DEF IInv, TypeInv
    <2>4. resolver'[r] = "idle" /\ \A q \in Resolvers : q # r => resolver'[q] = resolver[q]
      BY <1>1, <2>1 DEF GatewayOK
    <2>5. GatewayOK'
      BY <1>1, <2>1, <2>2 DEF GatewayOK
    <2>6. pending.status # "ABSENT"
      BY <2>1 DEF IInv, CallInv
    <2>7. CallInv' /\ ReceivedWasApproved' /\ RepeatHasCause' /\ OrphanNeedsOverlap'
      BY <2>1, <2>2, <2>4, <2>6
      DEF IInv, CallInv, ReceivedWasApproved, RepeatHasCause, OrphanNeedsOverlap
    <2>8. ~overlapped => \A q \in Resolvers : q # r => resolver[q] = "idle"
      BY <2>1 DEF IInv, OneResolverInv
    <2>9. OneResolverInv'
      BY <2>1, <2>4, <2>8 DEF OneResolverInv
    <2>10. SentInv'
      <3>1. ~overlapped => pending.status # "FORWARDED"
        BY <2>1 DEF IInv, OneResolverInv
      <3> QED
        BY <2>1, <2>8, <3>1 DEF IInv, SentInv
    <2> QED
      BY <1>1, <2>3, <2>5, <2>7, <2>9, <2>10, GatewayOnly DEF GatewayInv
  <1> QED
    BY <1>2, <1>3

\* Every step of a thread, and the expiry.
LEMMA ResolvePhasePreserves ==
  ASSUME IInv, Resolve
  PROVE  IInv'
  <1>1. UNCHANGED runnerVars
    BY DEF Resolve
  <1>2. ASSUME NEW r \in Resolvers, ResolverStep(r) PROVE IInv'
    BY <1>1, <1>2, ResolvePreserves, RecoverPreserves, CheckPreserves, AcquirePreserves,
       CallPreserves, ForwardedPreserves, FailurePreserves, RetryPreserves
    DEF ResolverStep
  <1>3. CASE expire_pending_lease
    BY <1>1, <1>3, ExpiryPreserves
  <1> QED
    BY <1>2, <1>3 DEF Resolve

\* A crash loses the executions and the threads, and neither the approval nor the
\* pending request.
LEMMA CrashPreserves ==
  ASSUME IInv, Crash
  PROVE  IInv'
  <1>1. /\ exec' = [e \in Executors |-> ExecIdle]
        /\ interrupted' = (interrupted \/ \E e \in Executors : Executing(e))
        /\ held' = FALSE /\ resolver' = [r \in Resolvers |-> "idle"]
        /\ unsettled' = IF \E r \in Resolvers : resolver[r] = "sent"
                        THEN unsettled \cup {"unanswered"} ELSE unsettled
        /\ UNCHANGED <<approval, github, decided, pending, server, received, overlapped>>
    BY DEF Crash, StopExecutions, StopResolvers
  <1>2. TypeInv'
    <2>0. unsettled \subseteq Endings
      BY DEF IInv, TypeInv, GatewayOK
    <2>1. interrupted' \in BOOLEAN /\ unsettled' \subseteq Endings
      BY <1>1, <2>0 DEF Endings
    <2> QED
      BY <1>1, <2>1 DEF IInv, TypeInv, GatewayOK, ExecIdle
  <1>3. RiskInv' /\ HashInv'
    BY <1>1 DEF IInv, RiskInv, HashInv
  <1>4. \A e \in Executors : exec'[e].pc = "idle" /\ exec'[e].done = 0
    BY <1>1 DEF ExecIdle
  <1>5. ExecInv'
    BY <1>1, <1>4 DEF IInv, ExecInv, Executing
  <1>6. ProgressInv' /\ ReadyIsComplete'
    BY <1>1, <1>4 DEF IInv, ProgressInv, ReadyIsComplete, FileCount
  <1>7. AloneInv' /\ OverlapNeedsDecision'
    BY <1>4 DEF AloneInv, OverlapNeedsDecision, Executing
  <1>8. \A r \in Resolvers : resolver'[r] = "idle"
    BY <1>1
  <1>9. CallInv' /\ ReceivedWasApproved' /\ OrphanNeedsOverlap' /\ OneResolverInv'
    BY <1>1, <1>8 DEF IInv, CallInv, ReceivedWasApproved, OrphanNeedsOverlap, OneResolverInv
  <1>10. SentInv' /\ RepeatHasCause'
    BY <1>1 DEF IInv, SentInv, RepeatHasCause
  <1> QED
    BY <1>2, <1>3, <1>5, <1>6, <1>7, <1>9, <1>10, Assemble DEF RunnerInv, GatewayInv

----------------------------------------------------------------------------
(* Theorems.                                                               *)

\* The invariant holds initially.
LEMMA InitInvariant == Init => IInv
  <1> SUFFICES ASSUME Init PROVE IInv
    OBVIOUS
  <1>1. /\ approval.status = "ABSENT" /\ approval.approved_payload_hash = NoPayload
        /\ approval \in [status : ApprovalStatus \cup {"ABSENT"}, payload : PayloadOrNone,
                         risk : Risk, approved_payload_hash : PayloadOrNone]
    BY DEF Init, InitApproval, AbsentApproval, PayloadOrNone, Risk, RiskLevels, Range
  <1>2. TypeInv
    <2>1. /\ exec \in [Executors ->
                         [pc : {"idle", "branch", "create", "files", "pr", "opened"},
                          done : Nat]]
          /\ github \in [branch : BOOLEAN, files : SUBSET Nat, pr : BOOLEAN]
          /\ decided \in BOOLEAN /\ interrupted \in BOOLEAN
      BY DEF Init, InitRunner, ExecIdle
    <2>2. 0 \in 0..AttemptBound
      BY AttemptAssumption
    <2>3. pending \in [status : MCPPendingStatus \cup {"ABSENT"},
                       attempts : 0..AttemptBound, lease : {"none", "live", "expired"}]
      BY <2>2 DEF Init, InitGateway
    <2>4. /\ resolver \in [Resolvers -> {"idle", "take", "lease", "acquire", "forward",
                                         "sent", "answered", "retry"}]
          /\ server \in register_child_server /\ received \in 0..2
      BY DEF Init, InitGateway
    <2>5. held \in BOOLEAN /\ unsettled \subseteq Endings /\ overlapped \in BOOLEAN
      BY DEF Init, InitGateway
    <2> QED
      BY <1>1, <2>1, <2>3, <2>4, <2>5 DEF TypeInv, GatewayOK
  <1>3. RiskInv /\ HashInv
    BY <1>1 DEF RiskInv, HashInv
  <1>4. ExecInv /\ ProgressInv /\ ReadyIsComplete /\ AloneInv /\ OverlapNeedsDecision
    BY <1>1
    DEF Init, InitRunner, ExecIdle, ExecInv, ProgressInv, ReadyIsComplete, AloneInv,
        OverlapNeedsDecision, Executing
  <1>5. /\ CallInv /\ ReceivedWasApproved /\ OneResolverInv /\ SentInv
        /\ RepeatHasCause /\ OrphanNeedsOverlap
    BY <1>1 DEF Init, InitGateway, CallInv, ReceivedWasApproved, OneResolverInv, SentInv,
           RepeatHasCause, OrphanNeedsOverlap
  <1> QED
    BY <1>2, <1>3, <1>4, <1>5 DEF IInv

\* Every step keeps it.
LEMMA NextInvariant == IInv /\ [Next]_vars => IInv'
  <1> SUFFICES ASSUME IInv, [Next]_vars PROVE IInv'
    OBVIOUS
  <1>1. CASE UNCHANGED vars
    <2>1. /\ UNCHANGED <<approval, runnerVars>>
          /\ UNCHANGED <<held, resolver, received, unsettled, overlapped>>
          /\ server' = server /\ pending' = pending
      BY <1>1 DEF vars, runnerVars, gatewayVars
    <2> QED
      BY <2>1, RequestPreserves DEF IInv, TypeInv, GatewayOK
  <1> QED
    BY <1>1, CreatePreserves, DecidePreserves, SubmitPreserves, ExecutePreserves,
       RegistryPreserves, ResolvePhasePreserves, CrashPreserves
    DEF Next

\* IInv is an invariant of the approval system.
THEOREM Invariance == Spec => []IInv
  BY InitInvariant, NextInvariant, PTL DEF Spec

\* Every variable keeps its type; in particular no execution writes a file that
\* the approved payload does not have (execute_github_change).
THEOREM TypeCorrect == Spec => []TypeOK
  <1>1. IInv => TypeOK
    <2> SUFFICES ASSUME IInv PROVE TypeOK
      OBVIOUS
    <2>1. ApprovalOK
      BY DEF IInv, TypeInv, ApprovalOK, PayloadOrNone, Risk
    <2>2. approval.payload # NoPayload => github.files \subseteq 1..FileCount
      BY NothingBefore DEF IInv, ProgressInv
    <2>3. RunnerOK
      BY <2>2 DEF IInv, TypeInv, RunnerOK
    <2> QED
      BY <2>1, <2>3 DEF IInv, TypeInv, TypeOK
  <1> QED
    BY <1>1, Invariance, PTL

\* What the risk engine would have stopped is never written to GitHub, for
\* changes of any size and whatever the order of their files, of the decisions
\* and of the executions (assess_approval_request, decide_approval,
\* _validate_execution), but for the path of a gateway's own approval, which
\* does not pass the risk engine (_create_approval_request of mcp_gateway.py).
THEOREM ExecutedSafely == Spec => []ExecutedIsSafe
  <1> DEFINE Stopped(p, own) ==
        ~ LET paths == {p.files[i].path : i \in DOMAIN p.files}
          IN  /\ p.branch = "feature"
              /\ "blocked" \in paths => own
              /\ \A i \in DOMAIN p.files : p.files[i].diff
              /\ paths \cap {"critical", "high"} # {} => p.test_plan /\ p.rollback_plan
  <1>1. ASSUME NEW call \in ToolCalls
        PROVE  ~Stopped(call, TRUE)
    <2>1. DOMAIN call.files = {1}
      <3>1. call.files \in Seq(FileChange)
        BY PayloadAssumption DEF Payload, FileChange
      <3> QED
        BY <3>1, ToolCallAssumption
    <2> QED
      BY <2>1, ToolCallAssumption
  <1>2. ASSUME NEW p \in Payload, ~assess_approval_request(p).blocked,
               ~assess_approval_request(p).required_actions
        PROVE  ~Stopped(p, FALSE)
    <2> DEFINE highest == FoldLeft(RaiseLevel, 1, p.files)
    <2>1. ~RefusedOutright(p)
      BY <1>2 DEF assess_approval_request
    <2>2. ~(highest >= 3 /\ ~(p.test_plan /\ p.rollback_plan))
      BY <1>2, <2>1 DEF assess_approval_request
    <2>3. p.branch \in {"feature", "protected"} /\ p.files \in Seq(FileChange)
      BY DEF Payload, FileChange
    <2>4. (\E i \in DOMAIN p.files : p.files[i].path \in {"critical", "high"})
             => highest >= 3
      BY <2>3, LevelOfFiles
    <2> HIDE DEF highest
    <2> QED
      BY <2>1, <2>2, <2>3, <2>4 DEF RefusedOutright
  <1>3. IInv => ExecutedIsSafe
    <2> DEFINE own == pending.status # "ABSENT"
    <2> SUFFICES ASSUME IInv, github.branch PROVE ~Stopped(approval.payload, own)
      BY DEF ExecutedIsSafe
    <2>1. approval.approved_payload_hash # NoPayload /\ ~approval.risk.blocked
      BY DEF IInv, ExecInv
    <2>2. ~approval.risk.required_actions /\ approval.status # "ABSENT"
      BY <2>1 DEF IInv, HashInv
    <2>3. approval.payload \in Payload
      BY <2>2, FileCountNat DEF IInv
    <2>4. CASE pending.status # "ABSENT"
      <3>1. approval.payload \in ToolCalls
        BY <2>4 DEF IInv, CallInv
      <3> QED
        BY <1>1, <2>4, <3>1
    <2>5. CASE pending.status = "ABSENT"
      <3>1. approval.risk = assess_approval_request(approval.payload)
        BY <2>2, <2>5 DEF IInv, CallInv
      <3>2. ~Stopped(approval.payload, FALSE)
        BY <1>2, <2>1, <2>2, <2>3, <3>1
      <3> QED
        BY <2>5, <3>2
    <2> QED
      BY <2>4, <2>5
  <1> QED
    BY <1>3, Invariance, PTL

\* READY_FOR_PR is the truth, whatever executions overlapped, failed or were
\* repeated before (execute_github_change).
THEOREM ReadyComplete == Spec => []ReadyIsComplete
  <1>1. IInv => ReadyIsComplete
    BY DEF IInv
  <1> QED
    BY <1>1, Invariance, PTL

\* Executions of any number of requests overlap only after a decision in between
\* (execute_github_change, decide_approval).
THEOREM OverlapDecided == Spec => []OverlapNeedsDecision
  <1>1. IInv => OverlapNeedsDecision
    BY DEF IInv
  <1> QED
    BY <1>1, Invariance, PTL

\* The child receives a held call only if exactly that call was approved
\* (resolve_after_side_channel_decision).
THEOREM CallsApproved == Spec => []ReceivedWasApproved
  <1>1. IInv => ReceivedWasApproved
    BY DEF IInv
  <1> QED
    BY <1>1, Invariance, PTL

\* The child receives a call again only after an attempt it refused or left
\* without an answer, or an overlap of requests, through any number of restarts,
\* retries and expired leases (mcp_gateway.py, mcp_gateway_routes.py).
THEOREM RepeatsCaused == Spec => []RepeatHasCause
  <1>1. IInv => RepeatHasCause
    BY DEF IInv
  <1> QED
    BY <1>1, Invariance, PTL

\* No approved call is given up unless threads resolved at the same time
\* (_recover_pending_call).
THEOREM OrphansOverlapped == Spec => []OrphanNeedsOverlap
  <1>1. IInv => OrphanNeedsOverlap
    BY DEF IInv
  <1> QED
    BY <1>1, Invariance, PTL

\* The runner follows VALID_TRANSITIONS though it never consults them, unless a
\* decision overtook the execution (github_runner.py, approval_lifecycle.py).
THEOREM LifecycleFollowed == Spec => RunnerFollowsLifecycle
  <1> DEFINE Follows ==
        (\E e \in Executors : ExecutorStep(e)) /\ ~decided
          => \/ approval'.status = approval.status
             \/ can_transition(approval.status, approval'.status)
  <1>1. ASSUME IInv, NEW e \in Executors, ExecutorStep(e), ~decided
        PROVE  \/ approval'.status = approval.status
               \/ can_transition(approval.status, approval'.status)
    <2>1. CASE execute_github_change(e)
      <3>1. approval.status = "APPROVED" /\ approval'.status = "EXECUTING"
        BY <1>1, <2>1 DEF execute_github_change, validate_execution, IInv, TypeInv
      <3> QED
        BY <3>1 DEF can_transition, LEGACY_STATUS, VALID_TRANSITIONS
    <2>2. CASE finish_execution(e) \/ execution_failed(e)
      <3>1. Executing(e)
        BY <2>2 DEF finish_execution, execution_failed, Executing
      <3>2. approval.status = "EXECUTING"
        BY <1>1, <3>1 DEF IInv, AloneInv
      <3>3. approval'.status \in {"READY_FOR_PR", "FAILED"}
        BY <1>1, <2>2 DEF finish_execution, execution_failed, IInv, TypeInv
      <3> QED
        BY <3>2, <3>3 DEF can_transition, LEGACY_STATUS, VALID_TRANSITIONS
    <2>3. CASE find_branch(e) \/ create_ref(e) \/ put_file(e) \/ open_pull_request(e)
      BY <2>3 DEF find_branch, create_ref, put_file, open_pull_request
    <2> QED
      BY <1>1, <2>1, <2>2, <2>3 DEF ExecutorStep, Execution
  <1>2. IInv /\ [Next]_vars => [Follows]_vars
    BY <1>1
  <1> QED
    BY <1>2, Invariance, PTL DEF Spec, RunnerFollowsLifecycle
=============================================================================
