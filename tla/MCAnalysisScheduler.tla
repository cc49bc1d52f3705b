------------------------- MODULE MCAnalysisScheduler -------------------------
(* Instances of AnalysisScheduler for TLC. *)
EXTENDS AnalysisScheduler, TLC

JobSymmetry == Permutations(Jobs)
Symmetry == Permutations(Jobs) \cup Permutations(Workers)
===============================================================================
