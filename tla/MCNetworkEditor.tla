--------------------------- MODULE MCNetworkEditor ---------------------------
EXTENDS NetworkEditor, TLC

Symmetry == Permutations(Windows)
=============================================================================
