---------------------------- MODULE MCPoiServices ----------------------------
EXTENDS PoiServices, TLC

CONSTANTS c1, c2, c3, p1, p2, q1, q2, schools, clinics

\* Two callers share a client, the third is another process.
MCHome == c1 :> p1 @@ c2 :> p1 @@ c3 :> p2

MCCategoryOf == q1 :> schools @@ q2 :> clinics

Symmetry == Permutations({c1, c2}) \cup Permutations(Workers)
==============================================================================
