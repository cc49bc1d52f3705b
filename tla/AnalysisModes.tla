---------------------------- MODULE AnalysisModes ----------------------------
(***************************************************************************)
(* The two analyses of the product: "synthetic", on the road network with  *)
(* the engine, published in revisions, and "real", sampled, written once.  *)
(* Their records and endpoints are separate; a behaviour is one of the     *)
(* two.                                                                    *)
(***************************************************************************)
EXTENDS AnalysisRun, SampledAnalysis

VARIABLE mode

modeVars == <<mode, vars, sampledVars>>

ModesInit ==
    /\ mode \in {"synthetic", "real"}
    /\ Init /\ SampledInit
    \* A sampled analysis does not look at the other kind's request: one stands for any.
    /\ mode = "real" => wants

ModesNext ==
    \/ mode = "synthetic" /\ Next /\ UNCHANGED <<mode, sampledVars>>
    \/ mode = "real" /\ SampledNext /\ UNCHANGED <<mode, vars>>

ModesSpec == ModesInit /\ [][ModesNext]_modeVars
==============================================================================
