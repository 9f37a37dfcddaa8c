------------------------- MODULE AgentRunRefinement -------------------------
(***************************************************************************)
(* What the supervisor has written to disk implements AgentRunContract.    *)
(* By Synced the contract sees the same run on disk and in memory, so it   *)
(* is enough to map the effect of a step on memory (Effect, in module      *)
(* AgentRunProofs) to a step of the contract.                              *)
(***************************************************************************)
EXTENDS AgentRunProofs

StateBar  == [r \in Runs |-> ContractState(disk[r])]
PassedBar == [r \in Runs |-> ContractPassed(disk[r])]

\* The contract sees no difference between memory and disk.
LEMMA SameSight ==
  ASSUME IInv
  PROVE  /\ StateBar = [r \in Runs |-> ContractState(mem[r])]
         /\ PassedBar = [r \in Runs |-> ContractPassed(mem[r])]
  <1>1. ASSUME NEW r \in Runs
        PROVE  ContractState(disk[r]) = ContractState(mem[r])
    BY DEF IInv, Synced, ContractState
  <1>2. ASSUME NEW r \in Runs
        PROVE  ContractPassed(disk[r]) = ContractPassed(mem[r])
    BY DEF IInv, Synced, ContractPassed
  <1> QED
    BY <1>1, <1>2 DEF StateBar, PassedBar

\* What a harmless handler may do in the eyes of the contract: close the run.
LEMMA HarmlessSight ==
  ASSUME NEW m, NEW n, Harmless(m, n)
  PROVE  /\ ContractPassed(n) = ContractPassed(m)
         /\ \/ ContractState(n) = ContractState(m)
            \/ ContractState(m) = "open" /\ ContractState(n) = "closed" /\ ~Existing(n)
  <1>1. ContractPassed(n) = ContractPassed(m)
    BY DEF Harmless, ContractPassed
  <1>2. \/ ContractState(n) = ContractState(m)
        \/ ContractState(m) = "open" /\ ContractState(n) = "closed" /\ ~Existing(n)
    BY DEF Harmless, ContractState, Existing, TERMINAL_RUN_STATUSES
  <1> QED
    BY <1>1, <1>2

\* A step of the supervisor is a step of the contract or invisible to it.
LEMMA ContractStep ==
  ASSUME IInv, [Next]_vars
  PROVE  [Contract!Next]_(Contract!vars)
  <1>1. IInv' /\ Effect
    BY NextStep
  <1>2. /\ StateBar = [q \in Runs |-> ContractState(mem[q])]
        /\ PassedBar = [q \in Runs |-> ContractPassed(mem[q])]
    BY SameSight
  <1>3. /\ StateBar' = [q \in Runs |-> ContractState(mem'[q])]
        /\ PassedBar' = [q \in Runs |-> ContractPassed(mem'[q])]
    <2>1. \A q \in Runs : Synced(mem'[q], disk'[q])
      BY <1>1 DEF IInv
    <2>2. ASSUME NEW q \in Runs
          PROVE  /\ ContractState(disk'[q]) = ContractState(mem'[q])
                 /\ ContractPassed(disk'[q]) = ContractPassed(mem'[q])
      <3>1. ContractState(disk'[q]) = ContractState(mem'[q])
        BY <2>1 DEF Synced, ContractState
      <3>2. ContractPassed(disk'[q]) = ContractPassed(mem'[q])
        BY <2>1 DEF Synced, ContractPassed
      <3> QED
        BY <3>1, <3>2
    <2> QED
      BY <2>2 DEF StateBar, PassedBar
  <1>4. CASE \A q \in Runs : Quiet(mem[q], mem'[q])
    <2>1. ASSUME NEW q \in Runs
          PROVE  /\ ContractPassed(mem'[q]) = ContractPassed(mem[q])
                 /\ ContractState(mem'[q]) = ContractState(mem[q])
      <3>1. Harmless(mem[q], mem'[q]) /\ (Existing(mem[q]) => Existing(mem'[q]))
        BY <1>4 DEF Quiet
      <3>2. ContractState(mem[q]) = "open" => Existing(mem[q])
        BY DEF ContractState, Existing
      <3> QED
        BY <3>1, <3>2, HarmlessSight
    <2>2. StateBar' = StateBar /\ PassedBar' = PassedBar
      BY <1>2, <1>3, <2>1
    <2> QED
      BY <2>2 DEF Contract!vars, StateBar, PassedBar
  <1>5. ASSUME NEW r \in Runs,
               Harmless(mem[r], mem'[r]) \/ Created(r) \/ Started(r) \/ Passed(r),
               \A q \in Runs : q # r => mem'[q] = mem[q]
        PROVE  [Contract!Next]_(Contract!vars)
    <2>1. ASSUME ContractState(mem'[r]) = ContractState(mem[r]),
                 ContractPassed(mem'[r]) = ContractPassed(mem[r])
          PROVE  UNCHANGED Contract!vars
      <3>1. StateBar' = StateBar /\ PassedBar' = PassedBar
        BY <1>2, <1>3, <1>5, <2>1
      <3> QED
        BY <3>1 DEF Contract!vars, StateBar, PassedBar
    <2>2. /\ StateBar' = [StateBar EXCEPT ![r] = ContractState(mem'[r])]
          /\ PassedBar' = [PassedBar EXCEPT ![r] = ContractPassed(mem'[r])]
          /\ StateBar[r] = ContractState(mem[r]) /\ PassedBar[r] = ContractPassed(mem[r])
          /\ \A q \in Runs : StateBar[q] = ContractState(mem[q])
      BY <1>2, <1>3, <1>5
    <2>3. CASE Harmless(mem[r], mem'[r])
      <3>1. ContractPassed(mem'[r]) = ContractPassed(mem[r])
        BY <2>3, HarmlessSight
      <3>2. CASE ContractState(mem'[r]) = ContractState(mem[r])
        BY <2>1, <3>1, <3>2
      <3>3. CASE ContractState(mem[r]) = "open" /\ ContractState(mem'[r]) = "closed"
        <4>1. /\ StateBar[r] = "open" /\ StateBar' = [StateBar EXCEPT ![r] = "closed"]
              /\ PassedBar' = PassedBar
          BY <1>2, <1>3, <1>5, <2>2, <3>1, <3>3
        <4>2. Contract!Close(r)
          BY <4>1 DEF Contract!Close, StateBar, PassedBar
        <4> QED
          BY <4>2 DEF Contract!Next
      <3> QED
        BY <2>3, <3>2, <3>3, HarmlessSight
    <2>4. CASE Created(r)
      <3>1. \A j \in Steps : /\ mem[r].steps[j].status = "PENDING"
                             /\ mem'[r].steps[j].status \in {"READY", "PENDING"}
        BY <2>4, CreatedRun
      <3>2. ContractPassed(mem'[r]) = {} /\ ContractPassed(mem[r]) = {}
        BY <3>1 DEF ContractPassed
      <3>3. mem'[r].status = "SCHEDULED"
        BY <2>4, CreatedRun, StepsNonEmpty
      <3>4. ContractState(mem[r]) = "absent" /\ ContractState(mem'[r]) = "open"
        BY <2>4, <3>3 DEF Created, ContractState
      <3>5. \A q \in Runs : ContractState(mem[q]) \in {"absent", "closed"}
        BY <2>4 DEF Created, Existing, ContractState
      <3>6. /\ StateBar[r] = "absent" /\ StateBar' = [StateBar EXCEPT ![r] = "open"]
            /\ PassedBar' = PassedBar
            /\ \A q \in Runs : StateBar[q] \in {"absent", "closed"}
        BY <1>2, <1>3, <1>5, <2>2, <3>2, <3>4, <3>5
      <3>7. Contract!Open(r)
        BY <3>6 DEF Contract!Open, StateBar, PassedBar
      <3> QED
        BY <3>7 DEF Contract!Next
    <2>5. CASE Started(r)
      <3>1. ContractPassed(mem'[r]) = ContractPassed(mem[r])
        BY <2>5 DEF Started, ContractPassed
      <3>2. ContractState(mem'[r]) = ContractState(mem[r])
        BY <2>5 DEF Started, Live, TERMINAL_RUN_STATUSES, ContractState
      <3> QED
        BY <2>1, <3>1, <3>2
    <2>6. CASE Passed(r)
      <3>1. PICK k \in Steps :
              /\ mem[r].status = "RUNNING"
              /\ mem'[r].status = IF k = StepCount - 1 THEN "SUCCEEDED" ELSE "RUNNING"
              /\ \A j \in Steps :
                    /\ mem[r].steps[j].status = "SUCCEEDED" <=> j < k
                    /\ mem'[r].steps[j].status = "SUCCEEDED" <=> j <= k
        BY <2>6 DEF Passed
      <3>2. ContractPassed(mem[r]) = 0 .. (k - 1)
        <4>1. ContractPassed(mem[r]) = {j \in Steps : j < k}
          BY <3>1 DEF ContractPassed
        <4> QED
          BY <4>1, StepCountAssumption DEF Steps
      <3>3. ContractPassed(mem'[r]) = 0 .. k
        <4>1. ContractPassed(mem'[r]) = {j \in Steps : j <= k}
          BY <3>1 DEF ContractPassed
        <4> QED
          BY <4>1, StepCountAssumption DEF Steps
      <3>4. /\ ContractState(mem[r]) = "open"
            /\ ContractState(mem'[r]) = IF k = StepCount - 1 THEN "succeeded" ELSE "open"
        BY <3>1 DEF ContractState
      <3>5. /\ StateBar[r] = "open" /\ PassedBar[r] = 0 .. (k - 1)
            /\ PassedBar' = [PassedBar EXCEPT ![r] = 0 .. k]
            /\ StateBar' = [StateBar EXCEPT ![r] =
                  IF k = StepCount - 1 THEN "succeeded" ELSE "open"]
        BY <2>2, <3>2, <3>3, <3>4
      <3>6. Contract!Pass(r, k)
        BY <3>5 DEF Contract!Pass, StateBar, PassedBar
      <3> QED
        BY <3>6 DEF Contract!Next, Contract!Steps, Steps
    <2> QED
      BY <1>5, <2>3, <2>4, <2>5, <2>6
  <1> QED
    BY <1>1, <1>4, <1>5 DEF Effect

\* The durable runs open one at a time, pass their steps in order, succeed
\* exactly when the last one passed and never change once they have ended.
THEOREM Implementation == Spec => ImplementsContract
  <1>1. Init => Contract!Init
    <2> SUFFICES ASSUME Init PROVE Contract!Init
      OBVIOUS
    <2>1. disk = [r \in Runs |-> AbsentRun]
      BY DEF Init
    <2>2. AbsentRun.status = "ABSENT"
          /\ \A k \in Steps : AbsentRun.steps[k].status = "PENDING"
      BY DEF AbsentRun, NewStep
    <2>3. ContractState(AbsentRun) = "absent" /\ ContractPassed(AbsentRun) = {}
      BY <2>2 DEF ContractState, ContractPassed
    <2> QED
      BY <2>1, <2>3 DEF Contract!Init
  <1>2. IInv /\ [Next]_vars => [Contract!Next]_(Contract!vars)
    BY ContractStep
  <1> QED
    BY <1>1, <1>2, Invariance, PTL DEF Spec, ImplementsContract, Contract!Spec
=============================================================================
