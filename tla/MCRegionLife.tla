----------------------------- MODULE MCRegionLife -----------------------------
EXTENDS RegionLife

Symmetry == Permutations(Clients) \cup Permutations(Versions)
==============================================================================
