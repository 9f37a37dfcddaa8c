--------------------------- MODULE MCGovernedRun ---------------------------
(* Instances of GovernedRun for TLC.                                       *)
EXTENDS GovernedRun, TLC

(* A step with two actions (the commands of a test plan), or two steps     *)
(* with one action each.                                                   *)
MCValidation == [k \in Steps |-> 2]
MCSingle == [k \in Steps |-> 1]

Symmetry == Permutations(Threads) \cup Permutations(Locks)
=============================================================================
