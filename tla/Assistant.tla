------------------------------ MODULE Assistant ------------------------------
(***************************************************************************)
(* The assistant at two levels: its turns, which compete for slots and     *)
(* conversations, and the tools of one conversation.  A behaviour is one   *)
(* of the two.                                                             *)
(***************************************************************************)
EXTENDS AgentTurns, AgentTools

VARIABLE level

assistantVars == <<level, vars, toolVars>>

AssistantInit == level \in {"turns", "tools"} /\ Init /\ ToolsInit

AssistantNext ==
    \/ level = "turns" /\ Next /\ UNCHANGED <<level, toolVars>>
    \/ level = "tools" /\ ToolsNext /\ UNCHANGED <<level, vars>>

AssistantSpec ==
    /\ AssistantInit /\ [][AssistantNext]_assistantVars
    /\ level = "turns" => Fairness
==============================================================================
