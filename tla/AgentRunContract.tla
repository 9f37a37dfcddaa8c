-------------------------- MODULE AgentRunContract --------------------------
(***************************************************************************)
(* What Mission Control promises about the runs of one approved AgentTask, *)
(* with no threads, leases, retries or crashes in sight: at any time at    *)
(* most one run is open, an open run passes its steps one at a time and in *)
(* order, it is reported as succeeded exactly when the last one passed,    *)
(* and a run that has ended stays as it is for ever.  Module AgentRun is   *)
(* shown to implement this contract with what it has written to disk.      *)
(***************************************************************************)
EXTENDS Naturals

CONSTANTS Runs, StepCount

VARIABLES
    state,   \* of each run: absent, open, succeeded or closed
    passed   \* of each run: the steps that have passed

vars == <<state, passed>>

Steps == 0 .. (StepCount - 1)

Init ==
    /\ state = [r \in Runs |-> "absent"]
    /\ passed = [r \in Runs |-> {}]

Open(r) ==
    /\ state[r] = "absent"
    /\ \A q \in Runs : state[q] \in {"absent", "closed"}
    /\ state' = [state EXCEPT ![r] = "open"]
    /\ UNCHANGED passed

Pass(r, k) ==
    /\ state[r] = "open"
    /\ passed[r] = 0 .. (k - 1)
    /\ passed' = [passed EXCEPT ![r] = 0 .. k]
    /\ state' = [state EXCEPT ![r] = IF k = StepCount - 1 THEN "succeeded" ELSE "open"]

Close(r) ==
    /\ state[r] = "open"
    /\ state' = [state EXCEPT ![r] = "closed"]
    /\ UNCHANGED passed

Next ==
    \E r \in Runs :
        \/ Open(r)
        \/ \E k \in Steps : Pass(r, k)
        \/ Close(r)

Spec == Init /\ [][Next]_vars
=============================================================================
