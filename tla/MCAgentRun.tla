----------------------------- MODULE MCAgentRun -----------------------------
(* Model checking of AgentRun: identifiers are interchangeable.            *)
EXTENDS AgentRunInvariant, TLC

Symmetry == Permutations(Runs) \cup Permutations(Threads)
=============================================================================
