---------------------------- MODULE MCEngineLayers ----------------------------
(* The engine's layers on small sets of calls and health checks.           *)
EXTENDS EngineLayers, TLC

Symmetry == Permutations(Admitted) \cup Permutations(Calls \ Admitted)
                                   \cup Permutations(Checkers)
===============================================================================
