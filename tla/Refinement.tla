------------------------------ MODULE Refinement ------------------------------
(***************************************************************************)
(* Questions about a network that only a person can answer, what their     *)
(* answers would change, and how answers and manual edits survive that the *)
(* network is generated anew: refinement_inputs.py, refinement_impact.py   *)
(* and manual_graph_edits.py behind the editor's endpoints.                *)
(*                                                                         *)
(* The region is an arm of a generated junction: walkways o-p1 and p2-q    *)
(* along its two sides, a crossing C between o and q, and between the two  *)
(* ports p1 and p2 at most the crossing R of a review and one, X, that the *)
(* user draws.  Port p1 may be moved one unit away.                        *)
(***************************************************************************)
EXTENDS Naturals, FiniteSets, FiniteSetsExt, TLC

CONSTANTS
    Waits,        \* waiting times, the least and greatest of which are the scenarios
    DefaultWait,
    Threshold,
    Budget,
    MaxDone       \* bound: edits, reviews and changes of the source

ASSUME RefinementAssumption ==
    /\ Waits \subseteq Nat /\ DefaultWait \in Waits /\ Threshold \in Nat
    /\ Budget \in Nat \ {0} /\ MaxDone \in Nat

VARIABLES
    source,       \* how far port p1 is out in the road source: all else is generated
    patch,        \* annotations["manualGraphEdits"]
    network,      \* the region's network on disk
    sketch,       \* the graph on the canvas
    done,
    seen          \* history: by date, what a review was made of

refinementVars == <<source, patch, network, sketch, done, seen>>

Junction  == {"o", "p1", "p2", "q"}
Crossings == {"C", "R", "X"}

\* A graph: how far p1 is out, whether both walkways still run along the arm
\* (separated), the reviews at the ports, and the edges, each with its review if it
\* has one.
Edge(kind) == [kind |-> kind, wait |-> DefaultWait, bent |-> FALSE, reviews |-> {}]
Gone == Edge("gone")
Generated(out) == [out |-> out, separated |-> TRUE, ports |-> {},
                   C |-> Edge("crossing"), R |-> Gone, X |-> Gone]

Live(g, e)  == g[e].kind # "gone"
Walks(g, e) == g[e].kind = "crossing"
\* pathMeters: its ends follow the port.
Path(g, e)  == <<IF e = "C" THEN 0 ELSE g.out, g[e].bent>>
Straight(g) == <<g.out, FALSE>>
-----------------------------------------------------------------------------
(* build_refinement_inputs: the questions, with the review that holds.     *)

\* The question whether to cross at the ports, and for each crossing how long one waits.
EdgeOf(i) == IF i = "crossing" THEN "R" ELSE i

\* The same two ports of one arm, unless a crossing of another origin joins them.
AsksCrossing(g) ==
    g.separated /\ \A e \in {"R", "X"} : Walks(g, e) => \E r \in g[e].reviews : r.input = "crossing"

AsksWait(g, e) ==
    Walks(g, e) /\ \A r \in g[e].reviews : r.decision \notin {"open", "closed"}

Asked(g) ==
    {i \in {"crossing"} : AsksCrossing(g)} \cup {e \in Crossings : AsksWait(g, e)}

\* The review of an edge takes precedence over the one at the ports.
LastReview(g, i) ==
    LET of(reviews) == {r \in reviews : r.input = i}
        edge == IF Live(g, EdgeOf(i)) THEN of(g[EdgeOf(i)].reviews) ELSE {}
    IN IF edge # {} THEN edge ELSE of(g.ports)

\* mutant: a review holds while its edge is there, however it waits.
HoldsWhileOpen(g, i) ==
    \E r \in LastReview(g, i) :
        IF r.decision = "closed" THEN ~Live(g, EdgeOf(i)) /\ r.path = Straight(g)
                                 ELSE Walks(g, EdgeOf(i)) /\ r.path = Path(g, EdgeOf(i))

Holds(g, i) ==
    \E r \in LastReview(g, i) :
        IF r.decision = "closed"
        THEN ~Live(g, EdgeOf(i)) /\ r.path = Straight(g)
        ELSE /\ Walks(g, EdgeOf(i))
             /\ r.path = Path(g, EdgeOf(i)) /\ r.wait = g[EdgeOf(i)].wait

\* An edge that has been turned into something else is left to manual work.
Resolvable(g, i) == i = "crossing" => ~Live(g, "R") \/ Walks(g, "R")

Alternatives(i) == IF i = "crossing" THEN {"open", "closed"} ELSE {"set_wait"}

\* apply_refinement_decision
Applied(g, i, decision, wait) ==
    LET e == EdgeOf(i)
        review == [input |-> i, decision |-> decision, at |-> done + 1, wait |-> wait,
                   path |-> IF i # "crossing" \/ (decision = "open" /\ Live(g, e))
                            THEN Path(g, e) ELSE Straight(g)]
    IN CASE decision = "set_wait" -> [g EXCEPT ![e].wait = wait, ![e].reviews = {review}]
         [] decision = "open"     -> [g EXCEPT ![e] = [kind |-> "crossing", wait |-> wait,
                                                       bent |-> review.path[2],
                                                       reviews |-> {review}],
                                               !.ports = {review}]
         [] decision = "closed"   -> [g EXCEPT ![e] = Gone, !.ports = {review}]
-----------------------------------------------------------------------------
(* plan_refinements: what one answer would change, seen from o.            *)

Link(a, b, walk, wait, e) == [ends |-> {a, b}, walk |-> walk, wait |-> wait, edge |-> e]

Bend(g, e) == IF g[e].bent THEN 1 ELSE 0

\* _adjacency
Links(g) ==
    {Link("o", "p1", 1 + g.out, 0, "w1"), Link("p2", "q", 1, 0, "w2")}
    \cup {Link("o", "q", 4 + Bend(g, e), IF Walks(g, e) THEN g[e].wait ELSE 0, e) :
             e \in {c \in {"C"} : Live(g, c)}}
    \cup {Link("p1", "p2", 1 + g.out + Bend(g, e), IF Walks(g, e) THEN g[e].wait ELSE 0, e) :
             e \in {c \in {"R", "X"} : Live(g, c)}}

Far == 1000

\* _distances: who is reached over one link more, three times.
Arrival(d, links, v) ==
    Min({d[v]} \cup {Min({d[u] : u \in l.ends}) + l.walk + l.wait :
                        l \in {k \in links : v \in k.ends}})

Relaxed(d, links) ==
    [o  |-> 0,                        p1 |-> Arrival(d, links, "p1"),
     p2 |-> Arrival(d, links, "p2"),  q  |-> Arrival(d, links, "q")]

Distances(links) ==
    Relaxed(Relaxed(Relaxed([o |-> 0, p1 |-> Far, p2 |-> Far, q |-> Far], links), links), links)

Rewaited(links, e, wait) == {IF l.edge = e THEN [l EXCEPT !.wait = wait] ELSE l : l \in links}
Without(links, e)        == {l \in links : l.edge # e}

OptimisticLinks(g, i) ==
    IF Live(g, EdgeOf(i)) THEN Rewaited(Links(g), EdgeOf(i), Min(Waits))
    ELSE Links(g) \cup {Link("p1", "p2", 1 + g.out, Min(Waits), "virtual")}

PessimisticLinks(g, i) ==
    IF i = "crossing" THEN Without(Links(g), EdgeOf(i))
    ELSE Rewaited(Links(g), EdgeOf(i), Max(Waits))

EndsOf(i) == IF i = "C" THEN {"o", "q"} ELSE {"p1", "p2"}

Gap(t) == IF t > Threshold THEN t - Threshold ELSE Threshold - t

\* _screening: in reach first, then those with an end nobody reaches, then those
\* nearest to the threshold, then by name.
Key(d, i) ==
    LET met == {v \in EndsOf(i) : d[v] < Far}
        near == \E v \in met : d[v] <= Threshold
    IN <<IF near THEN 0 ELSE 1,
         IF near THEN 2 - Cardinality(EndsOf(i) \ met) ELSE 0,
         IF met = {} THEN 2 * Far ELSE Min({Gap(d[v]) : v \in met}),
         [crossing |-> 1, C |-> 2, R |-> 3, X |-> 4][i]>>

Before(a, b) ==
    \E n \in 1..4 : a[n] < b[n] /\ \A k \in 1..(n - 1) : a[k] = b[k]

Eligible(g) == {i \in Asked(g) : ~Holds(g, i) /\ Resolvable(g, i)}

Evaluated(g) ==
    LET now   == Distances(Links(g))
        items == Eligible(g)
    IN {i \in items :
           Cardinality({j \in items : Before(Key(now, j), Key(now, i))}) < Budget}
-----------------------------------------------------------------------------
(* Manual edits on top of a generated network.                             *)

Fields == DOMAIN Generated(0)

NoPatch == [given |-> FALSE, of |-> 0, upsert |-> <<>>]

\* make_manual_edits
PatchTo(g) ==
    [given |-> TRUE, of |-> source,
     upsert |-> [f \in {k \in Fields : g[k] # Generated(source)[k]} |-> g[f]]]

\* apply_manual_edits refuses a patch of another generated network.
Fits(base, p) == ~p.given \/ p.of = base

Replayed(base, p) ==
    [f \in Fields |-> IF f \in DOMAIN p.upsert THEN p.upsert[f] ELSE Generated(base)[f]]

MayDo == done < MaxDone
Did   == done' = done + 1

RefinementInit ==
    /\ source = 0 /\ patch = NoPatch
    /\ network = Generated(0) /\ sketch = Generated(0)
    /\ done = 0
    /\ seen = <<>>

\* apply_editor_refinement and the review the window applies.
Decide ==
    /\ MayDo /\ Did
    /\ \E i \in {j \in Asked(sketch) : Resolvable(sketch, j)} :
       \E decision \in Alternatives(i), wait \in Waits :
          /\ sketch' = Applied(sketch, i, decision, wait)
          /\ seen' = [n \in DOMAIN seen \cup {done'} |->
                         IF n \in DOMAIN seen THEN seen[n]
                         ELSE [edge |-> sketch'[EdgeOf(i)], ports |-> sketch'.out]]
    /\ UNCHANGED <<source, patch, network>>

\* What the user does to the canvas by hand.
Redrawn(g) ==
    {[g EXCEPT !.out = 1 - g.out], [g EXCEPT !.separated = FALSE]}
    \cup {[g EXCEPT ![e] = Gone] : e \in {c \in Crossings : Live(g, c)}}
    \cup {[g EXCEPT ![e].kind = "walkway", ![e].wait = DefaultWait] : e \in {c \in {"C", "R"} : Walks(g, c)}}
    \cup {[g EXCEPT ![e].kind = "crossing"] : e \in {c \in {"C", "R"} : g[c].kind = "walkway"}}
    \cup {[g EXCEPT ![e].wait = w] : e \in {c \in Crossings : Walks(g, c)}, w \in Waits}
    \cup {[g EXCEPT ![e].bent = ~g[e].bent] : e \in {c \in {"C", "R"} : Live(g, c)}}
    \cup {h \in {[g EXCEPT !.X = Edge("crossing")]} : ~Live(g, "X")}

Redraw ==
    /\ MayDo /\ Did
    /\ sketch' \in Redrawn(sketch) \ {sketch}
    /\ UNCHANGED <<source, patch, network, seen>>

\* save_editor refuses while the network is not what the patch makes of the source.
SaveSketch ==
    /\ sketch # network
    /\ Fits(source, patch) /\ Replayed(source, patch) = network
    /\ patch' = PatchTo(sketch)
    /\ network' = Replayed(source, patch')
    /\ sketch' = network'
    /\ UNCHANGED <<source, done, seen>>

Reload ==
    /\ sketch # network
    /\ sketch' = network
    /\ UNCHANGED <<source, patch, network, done, seen>>

\* The road source or the modelling rules change.
SourceChanges ==
    /\ MayDo /\ Did
    /\ source' = 1 - source
    /\ UNCHANGED <<patch, network, sketch, seen>>

\* export_synthetic_preview.py: it stops when the patch does not fit.
Export ==
    /\ Fits(source, patch)
    /\ network' = Replayed(source, patch)
    /\ UNCHANGED <<source, patch, sketch, done, seen>>

RefinementNext == Decide \/ Redraw \/ SaveSketch \/ Reload \/ SourceChanges \/ Export

RefinementSpec == RefinementInit /\ [][RefinementNext]_refinementVars
-----------------------------------------------------------------------------
(* Properties.                                                             *)

\* A review is shown as holding only for the connection it was made of: kind, line and
\* waiting time of the crossing, or its absence between ports where they were.
ReviewHolds ==
    \A i \in Asked(sketch) : Holds(sketch, i) =>
        LET e == EdgeOf(i)  now == sketch[e]
            then == seen[(CHOOSE r \in LastReview(sketch, i) : TRUE).at]
        IN /\ <<now.kind, now.wait, now.bent>> = <<then.edge.kind, then.edge.wait, then.edge.bent>>
           /\ e # "C" => sketch.out = then.ports

\* The scenarios of a plan are the effects of the decisions they announce: everybody
\* is reached when he would be once the answer has been applied.
ScenariosComeTrue ==
    \A i \in Evaluated(sketch) :
        LET best  == IF i = "crossing" THEN "open" ELSE "set_wait"
            worst == IF i = "crossing" THEN "closed" ELSE "set_wait"
        IN /\ Distances(OptimisticLinks(sketch, i))
                = Distances(Links(Applied(sketch, i, best, Min(Waits))))
           /\ Distances(PessimisticLinks(sketch, i))
                = Distances(Links(Applied(sketch, i, worst, Max(Waits))))

\* A decision is found again, and it touches no crossing of another origin and no
\* other review.
DecisionsAreLocal ==
    \A i \in {j \in Asked(sketch) : Resolvable(sketch, j)} :
    \A decision \in Alternatives(i), wait \in Waits :
        LET after == Applied(sketch, i, decision, wait)
        IN /\ i \in Asked(after) /\ Holds(after, i)
           /\ \A r \in LastReview(after, i) : r.decision = decision
           /\ \A e \in Crossings \ {EdgeOf(i)} : after[e] = sketch[e]
           /\ \A j \in Asked(sketch) \ {i} : j \in Asked(after) /\ (Holds(after, j) <=> Holds(sketch, j))

\* What is written is what was drawn, and a patch of another generated network never
\* reaches the file.
SavedIsDrawn ==
    /\ network' # network => Replayed(source, patch') = network' /\ (patch'.given => patch'.of = source)
    /\ patch' # patch => network' = sketch
=============================================================================
