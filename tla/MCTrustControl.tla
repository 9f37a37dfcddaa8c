--------------------------- MODULE MCTrustControl ---------------------------
(* Instances of TrustControl for TLC.                                      *)
EXTENDS TrustControl, TLC

CONSTANTS BudgetPerResource, MaxAmount

Each(n) == [x \in Resources |-> n]
MCBudget == Each(BudgetPerResource)
MCEstimates == {Each(1)}
MCConsumptions == {Each(n) : n \in 1 .. MaxAmount}

Symmetry ==
    Permutations(Users \ {Creator}) \cup Permutations(Agents)
        \cup Permutations(Leases) \cup Permutations(Actions)
        \cup Permutations(Grants) \cup Permutations(Threads)
=============================================================================
