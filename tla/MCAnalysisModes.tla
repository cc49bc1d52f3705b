--------------------------- MODULE MCAnalysisModes ---------------------------
EXTENDS AnalysisModes, SampledIsoline, TLC

MCServices == <<"shop", "school">>

\* Four of one category, one more than its reserve, and one of the other.
MCPlaces == <<"shop1", "school1", "shop2", "shop3", "shop4">>
MCKindOf == [p \in ToSet(MCPlaces) |-> IF p = "school1" THEN "school" ELSE "shop"]

Symmetry == Permutations(CoverageRequests) \cup Permutations(Sampled)
==============================================================================
