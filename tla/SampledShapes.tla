---------------------------- MODULE SampledShapes ----------------------------
(***************************************************************************)
(* The algorithms of a sampled analysis: the line of equal walking time    *)
(* through a grid (backend/app/contour.py), what lies inside it            *)
(* (sampled_geometry.py), and the partition of an area by the services it  *)
(* lacks (blind_zone_coverage.py).                                         *)
(*                                                                         *)
(* A node of the grid is below, at or above the threshold.  The line       *)
(* crosses a cell's edge somewhere between its ends, at the end that is at *)
(* the threshold; here in the middle.  Coordinates are doubled.  In the    *)
(* partition an area is a set of places on a street, and everything within *)
(* a radius on that street is served.                                      *)
(***************************************************************************)
EXTENDS Integers, Sequences, FiniteSets, SequencesExt, FiniteSetsExt, Recursions

CONSTANTS
    Side,        \* nodes on a side of the grid
    Services,    \* categories, in their order
    Radius,      \* service_radius_meters, in places
    MinZone      \* min_zone_area_m2, in places

ASSUME ShapesAssumption ==
    /\ Side \in Nat /\ Radius \in Nat /\ MinZone \in Nat
    /\ Services \in Seq(STRING) /\ Cardinality(ToSet(Services)) = Len(Services)

Nodes == (1..Side) \X (1..Side)

----------------------------------------------------------------------------
(* extract_isoline.                                                        *)

Inside(grid, n) == grid[n] # "above"

\* The crossing on an edge, if one of its ends is inside.
Crossed(grid, a, b) == Inside(grid, a) # Inside(grid, b)
Crossing(grid, a, b) ==
    LET inner == IF Inside(grid, a) THEN a ELSE b
    IN IF grid[inner] = "at" THEN <<2 * inner[1], 2 * inner[2]>>
       ELSE <<a[1] + b[1], a[2] + b[2]>>

\* The corners of a cell around, from the bottom left.
Corner(c, i) ==
    CASE i = 0 -> c [] i = 1 -> <<c[1] + 1, c[2]>>
      [] i = 2 -> <<c[1] + 1, c[2] + 1>> [] i = 3 -> <<c[1], c[2] + 1>>

CutEdges(grid, c) == {i \in 0..3 : Crossed(grid, Corner(c, i), Corner(c, (i + 1) % 4))}
Around(grid, c, i) == Crossing(grid, Corner(c, i % 4), Corner(c, (i + 1) % 4))

\* Two segments, each around one corner of a pair of opposite ones.
Saddle(grid, c, i) ==
    << <<Around(grid, c, i + 3), Around(grid, c, i)>>, <<Around(grid, c, i + 1), Around(grid, c, i + 2)>> >>

\* The two crossed edges of a cell, in the order of the table of cases.
EdgePair(grid, c, cut) ==
    IF 3 \in cut /\ ~(2 \in cut /\ Inside(grid, Corner(c, 3)))
    THEN <<3, Min(cut)>> ELSE <<Min(cut), Max(cut)>>

Across(grid, c, cut) ==
    LET e == EdgePair(grid, c, cut) IN << <<Around(grid, c, e[1]), Around(grid, c, e[2])>> >>

\* mutant: the two saddles are mixed up
SegmentsMixed(grid, c) ==
    LET cut == CutEdges(grid, c)
    IN IF cut = {} THEN <<>>
       ELSE IF Cardinality(cut) = 2 THEN Across(grid, c, cut)
       ELSE Saddle(grid, c, IF Inside(grid, c) THEN 1 ELSE 0)

\* Of four crossings, two go around each inner corner; of two, one to the other.
CellSegments(grid, c) ==
    LET cut == CutEdges(grid, c)
    IN IF cut = {} THEN <<>>
       ELSE IF Cardinality(cut) = 2 THEN Across(grid, c, cut)
       ELSE Saddle(grid, c, IF Inside(grid, c) THEN 0 ELSE 1)

\* Row by row.
Cells == LET n == Side - 1 IN [i \in 1..(n * n) |-> <<((i - 1) % n) + 1, ((i - 1) \div n) + 1>>]

Segments(grid) == FoldLeft(LAMBDA s, c : s \o CellSegments(grid, c), <<>>, Cells)

\* A ring is complete where it began.
BackAtStart(ring) == Last(ring) = Head(ring)

\* From the end of a ring, the first unused segment that touches it, until the ring is
\* complete or no segment does.
Follow(segments, used, ring) ==
    LET further(t) ==
            LET onward == {i \in DOMAIN segments : i \notin t.used /\ Last(t.ring) \in ToSet(segments[i])}
                i      == Min(onward)
                other  == IF segments[i][1] = Last(t.ring) THEN segments[i][2] ELSE segments[i][1]
            IN IF BackAtStart(t.ring) \/ onward = {} THEN t
               ELSE [used |-> t.used \cup {i}, ring |-> Append(t.ring, other)]
        traced[n \in 0..Len(segments)] ==
            IF n = 0 THEN [used |-> used, ring |-> ring] ELSE further(traced[n - 1])
    IN traced[Len(segments)]

\* Closed rings of four points and more become polygons; nothing else does.
Rings(segments) ==
    LET traced == FoldLeftDomain(LAMBDA acc, i :
            IF i \in acc.used THEN acc
            ELSE LET f == Follow(segments, acc.used \cup {i}, segments[i])
                 IN [used |-> f.used,
                     rings |-> IF Last(f.ring) = Head(f.ring) /\ Len(f.ring) >= 4
                               THEN Append(acc.rings, f.ring) ELSE acc.rings],
            [used |-> {}, rings |-> <<>>], segments)
    IN traced.rings

\* _point_in_ring: on the ring, or an odd number of crossings to the right.
InRing(p, ring) ==
    LET previous(i) == ring[IF i = 1 THEN Len(ring) ELSE i - 1]
        cross(a, b) == (b[1] - a[1]) * (p[2] - a[2]) - (b[2] - a[2]) * (p[1] - a[1])
        between(v, a, b) == (a <= v /\ v <= b) \/ (b <= v /\ v <= a)
        on(a, b) == cross(a, b) = 0 /\ between(p[1], a[1], b[1]) /\ between(p[2], a[2], b[2])
        right(a, b) == (a[2] > p[2]) # (b[2] > p[2]) /\ (IF b[2] > a[2] THEN cross(a, b) > 0 ELSE cross(a, b) < 0)
    IN \/ \E i \in DOMAIN ring : on(previous(i), ring[i])
       \/ Cardinality({i \in DOMAIN ring : right(previous(i), ring[i])}) % 2 = 1

\* point_in_isochrone: every ring is a polygon of its own.
InIsochrone(n, rings) == \E i \in DOMAIN rings : InRing(<<2 * n[1], 2 * n[2]>>, rings[i])

Border == {n \in Nodes : n[1] \in {1, Side} \/ n[2] \in {1, Side}}

----------------------------------------------------------------------------
(* build_blind_zone_coverage.                                              *)

Served(area, at) == {x \in area : \E p \in at : x - p \in (-Radius)..Radius}

Region(lacks, area) == [lacks |-> lacks, area |-> area]

\* One more category splits each region in what it serves and what it does not.
Split(region, served, c) ==
    {r \in {Region(region.lacks, region.area \cap served),
            Region(region.lacks \cup {c}, region.area \ served)} : r.area # {}}

Partition(domain, at, assessed) ==
    LET order == Only(Services, assessed)
        regions[i \in 0..Len(order)] ==
            IF i = 0 THEN {Region({}, domain)}
            ELSE UNION {Split(r, Served(domain, at[order[i]]), order[i]) : r \in regions[i - 1]}
    IN regions[Len(order)]

\* The connected parts of an area; slivers are left out.
Part(area, x) == {y \in area : (x..y) \cup (y..x) \subseteq area}
Kept(area) == {x \in area : Cardinality(Part(area, x)) >= MinZone}

Zones(domain, at, assessed) ==
    {z \in {Region(r.lacks, Kept(r.area)) : r \in Partition(domain, at, assessed)} :
        z.lacks # {} /\ z.area # {}}

\* What the layer says of itself.
ZoneStatus(domain, assessed, inventory) ==
    IF domain = {} THEN "empty"
    ELSE IF assessed = {} THEN "unknown"
    ELSE IF assessed # ToSet(Services) \/ ~inventory THEN "provisional" ELSE "confirmed"
=============================================================================
