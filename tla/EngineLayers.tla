----------------------------- MODULE EngineLayers -----------------------------
(***************************************************************************)
(* The engine at its two layers: the runtime that hands out permits, and   *)
(* below it the transport that carries one call.  CPP_ENGINE_TRANSPORT     *)
(* chooses the transport of the event loop's runtime once; there is no     *)
(* fallback from one to the other.  A behaviour is one of the layers; the  *)
(* runtime sees of a transport that a call ends, or is cancelled and then  *)
(* cleans up.                                                              *)
(***************************************************************************)
EXTENDS EngineRuntime, EngineProcess, EngineRpc

CONSTANT Layers     \* those a run looks at

VARIABLE layer

layersVars == <<layer, vars, process, rpcVars>>

LayersInit ==
    /\ layer \in Layers
    /\ Init /\ ProcessInit /\ RpcInit
    \* Graphs are interchangeable: one of them stands for any.
    /\ artifact \in {None} \cup {g \in Graphs : layer = "grpc" /\ g = CHOOSE h \in Graphs : TRUE}

LayersNext ==
    \/ layer = "runtime" /\ Next /\ UNCHANGED <<layer, process, rpcVars>>
    \/ layer = "subprocess" /\ ProcessNext /\ UNCHANGED <<layer, vars, rpcVars>>
    \/ layer = "grpc" /\ RpcNext /\ UNCHANGED <<layer, vars, process>>

LayersSafety == LayersInit /\ [][LayersNext]_layersVars

\* Of a layer that rests in its initial state, fairness asks nothing.
LayersSpec == LayersSafety /\ RuntimeFairness /\ ProcessFairness
==============================================================================
