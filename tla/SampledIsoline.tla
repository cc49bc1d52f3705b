---------------------------- MODULE SampledIsoline ----------------------------
(***************************************************************************)
(* What the drawn isochrone of a sampled analysis promises.  It is a       *)
(* property for TLC: what cannot be reached from the border of the grid    *)
(* has to be searched for.                                                 *)
(***************************************************************************)
EXTENDS SampledAnalysis

\* What is too far away on all sides: from the border of the grid on.
RECURSIVE Beyond(_, _)
Beyond(grid, found) ==
    LET touches(a, b) == a[1] - b[1] \in -1..1 /\ a[2] - b[2] \in -1..1
        more == {n \in Nodes \ found : grid[n] = "above" /\ \E m \in found : touches(m, n)}
    IN IF more = {} THEN found ELSE Beyond(grid, found \cup more)

\* Whoever is within the time is inside the drawn isochrone, and whoever is out of it
\* and can be reached from outside without crossing it is not, also where nodes of the
\* grid are exactly at the threshold (extract_isoline, point_in_isochrone).
IsolineExact ==
    work.stage = "isochrone" =>
        LET beyond == Beyond(work.grid, Border)
        IN \A n \in Nodes :
              /\ work.grid[n] = "below" => InIsochrone(n, work.rings)
              /\ n \in beyond => ~InIsochrone(n, work.rings)
===============================================================================
