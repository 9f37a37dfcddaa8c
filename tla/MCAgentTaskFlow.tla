-------------------------- MODULE MCAgentTaskFlow --------------------------
(* Instances of AgentTaskFlow: one process, or the API beside a script.    *)
EXTENDS AgentTaskFlow, TLC

HomeShared == [w \in Workers |-> Api]
HomeScripts == [w \in Workers |-> IF w \in Supervised THEN Api ELSE "cli"]
StartedFlow == [w \in Workers |-> {"flow"}]
StartedMixed ==
    [w \in Workers |-> IF w \in Supervised THEN {"flow"}
                      ELSE {"local", "plan", "dry", "pr"}]
CreateUpdate == <<"create", "update">>
============================================================================
