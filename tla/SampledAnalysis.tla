--------------------------- MODULE SampledAnalysis ---------------------------
(***************************************************************************)
(* The sampled analysis of the real area (backend/app/main.py,             *)
(* _run_sampled_task; sampled_service.py, sampled_analysis.py): one at a   *)
(* time, each a chain of stages that asks Baidu for times, facilities and  *)
(* routes and works on the answers.  Its record is written once, at the    *)
(* end.                                                                    *)
(*                                                                         *)
(* What a stage worked on and what came out is kept until the next one     *)
(* starts; the report is the whole, its parts are left out.                *)
(***************************************************************************)
EXTENDS SampledShapes

CONSTANTS
    Sampled,      \* sampled analyses
    Idle,         \* no analysis
    Places,       \* facilities, by distance
    KindOf,       \* the category each is shown in
    PerCategory,  \* REPRESENTATIVE_ROUTES_PER_CATEGORY
    Directions,   \* DIRECTION_ANGLES
    Street,       \* places of a street, for the partition
    MaxAt,        \* bound: nodes of a grid exactly at the threshold
    Spots         \* bound: where facilities lie on or beside the street

ASSUME SampledAssumption ==
    /\ Idle \notin Sampled
    /\ Places \in Seq(STRING) /\ KindOf \in [ToSet(Places) -> ToSet(Services)]
    /\ PerCategory \in Nat \ {0}
    /\ Street \cup Spots \subseteq Int /\ MaxAt \in Nat

VARIABLES
    sampled,    \* each analysis: its record, its place in the task, its client
    permit,     \* who holds _sampled_task_semaphore
    work        \* the last stage of that one: its input and its result

sampledVars == <<sampled, permit, work>>

NoWork == [stage |-> "none"]

SampledInit ==
    /\ sampled = [s \in Sampled |-> [at |-> "queued", status |-> "queued", result |-> FALSE, client |-> "none"]]
    /\ permit = Idle /\ work = NoWork

Stages == <<"centre", "matrix", "pois", "zones", "boundary">>

At(s, place) == sampled[s].at = place
Goes(s, place) == sampled' = [sampled EXCEPT ![s].at = place]
Works(s, stage) == At(s, stage) /\ work = NoWork

\* mutant: the outcome is written inside the block of the semaphore, and the close too
LeavesHolding(s, status) ==
    /\ sampled' = [sampled EXCEPT ![s] = [at |-> "closing", status |-> status,
                                          result |-> status = "completed", client |-> @.client]]
    /\ UNCHANGED <<permit, work>>

\* The task is out of the block of the semaphore and has written its outcome, or none
\* where an error it does not expect is on its way: what is left is the finally clause.
Leaves(s, status) ==
    /\ sampled' = [sampled EXCEPT ![s] = [at |-> "closing", status |-> status,
                                          result |-> status = "completed", client |-> @.client]]
    /\ permit' = IF permit = s THEN Idle ELSE permit
    /\ work' = IF permit = s THEN NoWork ELSE work

SampledStarts(s) ==
    /\ At(s, "queued")
    /\ sampled' = [sampled EXCEPT ![s] = [at |-> "waiting", status |-> "running", result |-> FALSE, client |-> "open"]]
    /\ UNCHANGED <<permit, work>>

PermitFree == permit = Idle

EntersSampling(s) ==
    /\ At(s, "waiting") /\ PermitFree
    /\ permit' = s /\ Goes(s, "centre")
    /\ UNCHANGED work

\* It expires in the queue, or the service stops: the scheduler writes the failure.
NeverStarts(s) ==
    /\ At(s, "queued")
    /\ sampled' = [sampled EXCEPT ![s] = [at |-> "over", status |-> "failed",
                                          result |-> @.result, client |-> @.client]]
    /\ UNCHANGED <<permit, work>>

\* Any error ends the task where it awaits.  Those it does not expect, a cancellation
\* by the stop of the service among them, leave the record running for now.
SampledFails(s) ==
    /\ sampled[s].at \in {"waiting"} \cup ToSet(Stages)
    /\ Leaves(s, "failed") \/ Leaves(s, "running")

\* aclose() has returned.  The scheduler fails a record without an outcome.
ClientCloses(s) ==
    /\ At(s, "closing")
    /\ sampled' = [sampled EXCEPT ![s] = [at |-> "over", result |-> @.result, client |-> "closed",
                                          status |-> IF @.status = "running" THEN "failed" ELSE @.status]]
    /\ UNCHANGED <<permit, work>>

\* aclose() raises, or the stop of the service comes while it is awaited: the scheduler
\* writes the failure over whatever was recorded, and a report stays where it is.
CloseFails(s) ==
    /\ At(s, "closing")
    /\ sampled' = [sampled EXCEPT ![s] = [at |-> "over", status |-> "failed",
                                          result |-> @.result, client |-> "cut"]]
    /\ UNCHANGED <<permit, work>>

\* The centre is one of Baidu's, or becomes one; anything but one answer is an error.
CentreConverted(s) ==
    /\ Works(s, "centre")
    /\ work' = [stage |-> "centre"]
    /\ UNCHANGED <<sampled, permit>>

----------------------------------------------------------------------------
(* build_sampled_isochrone.                                                *)

\* The samples are of a bounded circle: their grid is too far away at its border.
Grids == {[n \in Nodes |-> IF n \in Border THEN "above" ELSE g[n]] :
              g \in {h \in [Nodes \ Border -> {"below", "at", "above"}] :
                        Cardinality({n \in Nodes \ Border : h[n] = "at"}) <= MaxAt}}

\* One matrix of durations, all or none, is interpolated and outlined.
IsochroneDrawn(s) ==
    /\ Works(s, "matrix")
    /\ \E grid \in Grids :
          work' = [stage |-> "isochrone", grid |-> grid, rings |-> Rings(Segments(grid))]
    /\ UNCHANGED <<sampled, permit>>

----------------------------------------------------------------------------
(* _collect_rule_pois and collect_representative_routes.                   *)

\* A category's nearest facilities inside the isochrone, with a reserve of two.
Candidates(inside, kind) ==
    LET near == Only(Places, {p \in inside : KindOf[p] = kind})
    IN SubSeq(near, 1, Min({Len(near), PerCategory + 2}))

\* What walking_route knows of the way to a facility: a whole line, within the time or
\* not, or an error where a part of the answer is missing or invalid.
Walks == {"timely", "slow", "error"}

\* One after the other until there are enough; only a route in time counts.
Probe(walk, acc, p) ==
    IF Cardinality(acc.shown) >= PerCategory THEN acc
    ELSE IF walk[p] = "timely" THEN [acc EXCEPT !.shown = @ \cup {p}] ELSE [acc EXCEPT !.failed = @ \cup {p}]

Representatives(walk, kind) ==
    LET near == Candidates(DOMAIN walk, kind)
        probed[i \in 0..Len(near)] ==
            IF i = 0 THEN [shown |-> {}, failed |-> {}] ELSE Probe(walk, probed[i - 1], near[i])
    IN probed[Len(near)]

PoisCollected(s) ==
    /\ Works(s, "pois")
    /\ \E inside \in SUBSET ToSet(Places) : \E walk \in [inside -> Walks] :
          work' = [stage |-> "routes", walk |-> walk,
                   found |-> [k \in ToSet(Services) |-> Representatives(walk, k)]]
    /\ UNCHANGED <<sampled, permit>>

----------------------------------------------------------------------------
(* The zones that lack services.                                           *)

\* Data that are ready are complete; unavailable data are of no category.
Verdicts == {v \in [status : {"ready", "partial", "unavailable"}, complete : SUBSET ToSet(Services)] :
                /\ v.status = "ready" => v.complete = ToSet(Services)
                /\ v.status = "unavailable" => v.complete = {}}

\* mutant: a category that was asked for counts as assessed
AssessedAll(v) == IF v.status = "unavailable" THEN {} ELSE ToSet(Services)

\* Only a completed query shows that something is missing.
Assessed(v) == v.complete

ZonesDrawn(s) ==
    /\ Works(s, "zones")
    /\ \E domain \in SUBSET Street, v \in Verdicts, at \in [ToSet(Services) -> SUBSET Spots] :
          LET zones == Zones(domain, at, Assessed(v))
          IN work' = [stage |-> "zones", domain |-> domain, verdict |-> v, at |-> at,
                      zones |-> IF v.status = "unavailable" THEN {} ELSE zones,
                      status |-> IF v.status = "unavailable" THEN "unknown"
                                 ELSE ZoneStatus(domain, Assessed(v), v.status = "ready")]
    /\ UNCHANGED <<sampled, permit>>

----------------------------------------------------------------------------
(* collect_sampling_routes.                                                *)

\* The samples of a direction, the outer one first; a third and a fourth further in
\* are not asked for.
Outer == 2
Inner == 1

\* What asking for one route comes to: it reaches the boundary of the isochrone, or
\* only shows parts inside it, or nothing, or breaks off, after parts that reach the
\* boundary or at once.
Outcomes == {"edge", "short", "nothing", "torn", "fails"}

Asked(o, d) == IF o[<<d, Outer>>] = "edge" THEN {<<d, Outer>>} ELSE {<<d, Outer>>, <<d, Inner>>}

\* The outermost of each direction, unless no route reaches the boundary at all.
OutermostKept(drawn, edges) ==
    IF edges = {} THEN drawn
    ELSE {e \in edges : \A f \in edges : f[1] = e[1] => f[2] <= e[2]}

BoundaryDrawn(s) ==
    /\ Works(s, "boundary")
    /\ \E o \in [Directions \X {Inner, Outer} -> Outcomes] :
          LET asked == UNION {Asked(o, d) : d \in Directions}
              drawn == {x \in asked : o[x] \in {"edge", "short", "torn"}}
              edges == {x \in asked : o[x] \in {"edge", "torn"}}
          IN work' = [stage |-> "boundary", outcome |-> o, shown |-> OutermostKept(drawn, edges)]
    /\ UNCHANGED <<sampled, permit>>

\* On to the next stage; after the last the report is assembled, and the record has it.
Onward(s) ==
    /\ permit = s /\ work # NoWork
    /\ \E i \in DOMAIN Stages :
          /\ At(s, Stages[i])
          /\ IF i = Len(Stages) THEN Leaves(s, "completed")
             ELSE Goes(s, Stages[i + 1]) /\ work' = NoWork /\ UNCHANGED permit

SampledStep(s) ==
    \/ NeverStarts(s) \/ SampledStarts(s) \/ EntersSampling(s)
    \/ SampledFails(s) \/ ClientCloses(s) \/ CloseFails(s)
    \/ CentreConverted(s) \/ IsochroneDrawn(s) \/ PoisCollected(s) \/ ZonesDrawn(s) \/ BoundaryDrawn(s) \/ Onward(s)

SampledNext == \E s \in Sampled : SampledStep(s)

SampledSpec == SampledInit /\ [][SampledNext]_sampledVars

----------------------------------------------------------------------------
(* Properties.                                                             *)

\* One analysis samples at a time and gives its place back however it ends, before its
\* client closes, so that a close that hangs holds up nobody.  Completed means that
\* there is a report, and only a close that failed leaves a report in a failed record.
\* No task ends without an outcome or with its client still open.
OneSamples ==
    \A s \in Sampled :
        LET record == sampled[s] IN
        /\ record.at \in ToSet(Stages) <=> permit = s
        /\ record.status = "completed" => record.result
        /\ record.result => \/ record.status = "completed" /\ record.client \in {"open", "closed"}
                            \/ record.status = "failed" /\ record.client = "cut"
        /\ record.at = "over" => /\ record.status \in {"completed", "failed"}
                                 /\ record.client # "open"

\* A category has fewer routes than it should only if its reserve is used up.
RepresentativesFound ==
    work.stage = "routes" =>
        \A k \in ToSet(Services) :
            LET found == work.found[k] IN
            /\ \A p \in found.shown : work.walk[p] = "timely" /\ KindOf[p] = k
            /\ Cardinality(found.shown) <= PerCategory
            /\ Cardinality(found.shown) < PerCategory =>
                  found.shown \cup found.failed = ToSet(Candidates(DOMAIN work.walk, k))

\* A zone lacks exactly what it says, of what was completely asked for; no place with
\* all services is in one, and only slivers are left out.
ZonesExact ==
    work.stage = "zones" =>
        LET lacks(x) == {c \in work.verdict.complete : \A p \in work.at[c] : x - p \notin (-Radius)..Radius}
            alike(x) == {y \in work.domain : lacks(y) = lacks(x)}
        IN /\ \A z \in work.zones : \A x \in z.area : x \in work.domain /\ z.lacks = lacks(x)
           /\ \A x \in work.domain :
                 lacks(x) # {} /\ Cardinality(Part(alike(x), x)) >= MinZone =>
                     \E z \in work.zones : x \in z.area
           /\ work.status = "confirmed" => work.verdict.complete = ToSet(Services)

\* Where routes reach the boundary, each direction shows one sample at most, and no
\* sample that was not asked for.
BoundaryShown ==
    work.stage = "boundary" =>
        /\ (\E x \in work.shown : work.outcome[x] = "edge") =>
              \A x, y \in work.shown : work.outcome[x] # "short" /\ (x[1] = y[1] => x = y)
        /\ \A d \in Directions : work.outcome[<<d, Outer>>] = "edge" => <<d, Outer>> \in work.shown

\* The three together: what the stages show is as it should be.
SampledSound == RepresentativesFound /\ ZonesExact /\ BoundaryShown
==============================================================================
