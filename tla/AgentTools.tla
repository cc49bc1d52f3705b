----------------------------- MODULE AgentTools -----------------------------
(***************************************************************************)
(* What the assistant may find out in one turn and what it is allowed to   *)
(* say (backend/app/agent_tools.py, the end of agent_runtime._tool_loop,   *)
(* and the routes of poi_routes.py and main.py behind the tools).  The     *)
(* model is outside: it calls any tool with any argument in any order.     *)
(* Every displayed conclusion comes from the results of the tools, and the *)
(* turns of a conversation hand on the facilities they mentioned.          *)
(*                                                                         *)
(* The analysis of a conversation does not change: when it goes, the turn  *)
(* ends at the next look at it.  Wording and geometry are left out; the    *)
(* distance that orders the candidates is given by their order.            *)
(***************************************************************************)
EXTENDS Naturals, Sequences, FiniteSets, SequencesExt, Recursions

CONSTANTS
    Pois,
    Nearby,         \* the medical facilities of Pois, by distance
    Times,          \* walking times of routes
    Threshold,      \* thresholdSeconds
    Nowhere,        \* no facility
    NoWay,          \* the time of a facility the walking network does not reach
    MaxFacilities,  \* references kept, 20
    MaxCandidates,  \* MAX_ROUTE_CANDIDATES, 8
    MaxCallsOfTurn, \* tool calls of one turn, 6
    MaxTurns        \* bound: turns of one conversation

Medical == ToSet(Nearby)

ASSUME ToolsAssumption ==
    /\ IsFiniteSet(Pois) /\ Nearby \in Seq(Pois) /\ Nowhere \notin Pois
    /\ Cardinality(Medical) = Len(Nearby)
    /\ Times \subseteq Nat /\ NoWay \notin Nat /\ Threshold \in Nat
    /\ {MaxFacilities, MaxCandidates, MaxCallsOfTurn, MaxTurns} \subseteq Nat \ {0}

VARIABLES
    mode,       \* context["mode"]
    known,      \* facilities of the report inside the displayed area
    walk,       \* the walking time of each
    hand,       \* Conversation.references: what earlier turns mentioned
    turns,      \* turns so far
    tools       \* AnalysisTools, and where the tool loop stands

subject == <<mode, known, walk>>
toolVars == <<subject, hand, turns, tools>>

NoReply == [given |-> FALSE, about |-> Nowhere, claim |-> "none"]

NewTools == [pc |-> "idle", calls |-> 0,
             routes |-> {}, failed |-> {},      \* _routes and _route_errors, by facility
             refs |-> <<>>,                     \* references, oldest first; _cards are those of this turn
             shown |-> Nowhere,                 \* map_action
             compared |-> <<>>,                 \* the last comparison, if any
             asked |-> Nowhere,                 \* the facility whose route is computed
             left |-> <<>>, tried |-> 0, available |-> {},
             wanted |-> Nowhere,                \* history: the last facility asked for
             reply |-> NoReply]

ToolsInit ==
    /\ mode = "synthetic" /\ known = {} /\ walk = <<>>
    /\ hand = <<>> /\ turns = 0
    /\ tools = NewTools

\* An analysis has ended.
AnalysisThere ==
    /\ known = {} /\ known' \in (SUBSET Pois) \ {{}}
    /\ mode' \in {"synthetic", "real"}
    /\ walk' \in [known' -> IF mode' = "real" THEN Times ELSE Times \cup {NoWay}]
    /\ UNCHANGED <<hand, turns, tools>>

----------------------------------------------------------------------------
(* _publish, _list, _summary and get_facility_route.                       *)

Candidates == Only(Nearby, known)

LastOf(s, n) == IF Len(s) > n THEN SubSeq(s, Len(s) - n + 1, Len(s)) ELSE s
Renewed(s, p) == LastOf(Append(Only(s, Pois \ {p}), p), MaxFacilities)

Publish(t, p) == [t EXCEPT !.refs = Renewed(@, p)]

\* The references after one mention of each of a list.
Mentioned(refs, list) ==
    LET after[i \in 0..Len(list)] == IF i = 0 THEN refs ELSE Renewed(after[i - 1], list[i])
    IN after[Len(list)]

\* Only references that are facilities of this analysis are taken over.
TurnBegins ==
    /\ known # {} /\ tools.pc = "idle" /\ turns < MaxTurns
    /\ turns' = turns + 1
    /\ tools' = [NewTools EXCEPT !.pc = "deciding",
                                 !.refs = Only(hand, known)]
    /\ UNCHANGED <<subject, hand>>

Called == tools.pc = "deciding" /\ tools.calls < MaxCallsOfTurn
Counted == [tools EXCEPT !.calls = @ + 1]

\* An unknown tool, invalid arguments, a facility that is not of this analysis, or
\* the summary: nothing changes.
CallsInVain ==
    /\ Called
    /\ tools' = Counted
    /\ UNCHANGED <<subject, hand, turns>>

FirstOf(s, n) == IF Len(s) > n THEN SubSeq(s, 1, n) ELSE s

\* The first so many facilities that match, by name.
Lists(matches) ==
    /\ Called
    /\ tools' = [Counted EXCEPT !.refs = Mentioned(@, FirstOf(matches, MaxFacilities))]
    /\ UNCHANGED <<subject, hand, turns>>

\* mutant: an earlier comparison stays beside a later route
ComparisonAnyway(p) == tools.compared

\* A comparison that recommends another facility is dropped.
ComparisonFor(p) == IF tools.compared # <<>> /\ tools.compared[1].selected = p THEN tools.compared ELSE <<>>

CallsRoute(p) ==
    /\ Called /\ p \in known
    /\ tools' = [Counted EXCEPT !.pc = IF p \in tools.routes \cup tools.failed THEN "looked" ELSE "looking",
                                !.shown = Nowhere, !.compared = ComparisonFor(p),
                                !.asked = p, !.wanted = p]
    /\ UNCHANGED <<subject, hand, turns>>

----------------------------------------------------------------------------
(* _route, route_lookup and PoiRouteStore.route.                           *)

\* PoiRouteStore.route: the engine looks for the way to the bound entrance, or to the
\* estimated ones.  There may be none: no edge to walk to, or no connected one.
StoreOutcomes(p) == IF walk[p] = NoWay THEN {"no way", "error"} ELSE {"ready", "error"}

\* route_sampled_poi: the route the report shows is taken again when it is whole,
\* another one is asked of the provider, which has one or fails.
SampledOutcomes == {"ready", "error"}

Outcomes(p) == IF mode = "real" THEN SampledOutcomes ELSE StoreOutcomes(p)

\* The lookup answers: with a route, with none, or with an error, among them a busy
\* engine and a timeout of its own.
Answers(status) ==
    /\ tools.pc \in {"looking", "comparing"} /\ tools.asked # Nowhere
    /\ status \in Outcomes(tools.asked)
    /\ LET p == tools.asked
           t == CASE status = "ready"   -> Publish([tools EXCEPT !.routes = @ \cup {p}], p)
                  [] status = "no way"  -> Publish([tools EXCEPT !.failed = @ \cup {p}], p)
                  [] status = "error"   -> [tools EXCEPT !.failed = @ \cup {p}]
       IN tools' = IF tools.pc = "looking" THEN [t EXCEPT !.pc = "looked"]
                   ELSE [t EXCEPT !.asked = Nowhere,
                                  !.available = IF status = "ready" THEN @ \cup {p} ELSE @]
    /\ UNCHANGED <<subject, hand, turns>>

\* Back in get_facility_route, also with what is known already.
Looked ==
    /\ tools.pc = "looked"
    /\ LET p == tools.asked
           t == IF p \in tools.routes THEN [Publish(tools, p) EXCEPT !.shown = p] ELSE tools
       IN tools' = [t EXCEPT !.pc = "deciding", !.asked = Nowhere]
    /\ UNCHANGED <<subject, hand, turns>>

----------------------------------------------------------------------------
(* _nearest_medical: up to so many candidates, within a time budget.       *)

CallsNearest ==
    /\ Called
    /\ tools' = [Counted EXCEPT !.pc = "comparing", !.shown = Nowhere, !.compared = <<>>,
                                !.left = Candidates,
                                !.tried = 0, !.available = {}, !.wanted = Nowhere]
    /\ UNCHANGED <<subject, hand, turns>>

Comparing == tools.pc = "comparing" /\ tools.asked = Nowhere

Tries ==
    /\ Comparing /\ tools.left # <<>> /\ tools.tried < MaxCandidates
    /\ LET p == Head(tools.left)
           t == [tools EXCEPT !.left = Tail(@), !.tried = @ + 1]
       IN tools' = IF p \in tools.routes
                   THEN [Publish(t, p) EXCEPT !.available = @ \cup {p}]
                   ELSE IF p \in tools.failed THEN t ELSE [t EXCEPT !.asked = p]
    /\ UNCHANGED <<subject, hand, turns>>

\* Ties go to the shorter route and the smaller id: to the same facility every time.
Fastest(set) == CHOOSE p \in set : \A q \in set : walk[p] <= walk[q]

Partial(t) == t.tried < Len(Candidates) \/ Cardinality(t.available) < t.tried

Concluded(t) ==
    LET selected == IF t.available = {} THEN Nowhere ELSE Fastest(t.available)
        u == [t EXCEPT !.pc = "deciding", !.shown = selected, !.asked = Nowhere,
                       !.left = <<>>, !.tried = 0, !.available = {},
                       !.compared = <<[selected |-> selected, partial |-> Partial(t), of |-> t.available]>>]
    IN IF selected = Nowhere THEN u ELSE Publish(u, selected)

Concludes ==
    /\ Comparing /\ (tools.left = <<>> \/ tools.tried = MaxCandidates)
    /\ tools' = Concluded(tools)
    /\ UNCHANGED <<subject, hand, turns>>

\* The thirty seconds are over, before a candidate or while its route is computed.
BudgetSpent ==
    /\ tools.pc = "comparing"
    /\ tools' = Concluded(IF tools.asked = Nowhere THEN tools
                          ELSE [tools EXCEPT !.failed = @ \cup {tools.asked}])
    /\ UNCHANGED <<subject, hand, turns>>

----------------------------------------------------------------------------
(* The end of a turn.                                                      *)

\* _route_reply speaks of the route on the map, and of the comparison that chose it;
\* _evidence_reply repeats the last result.
ReplyOf(t) ==
    [given |-> TRUE, about |-> t.shown,
     claim |-> IF t.shown = Nowhere \/ t.compared = <<>> \/ t.compared[1].selected # t.shown THEN "none"
               ELSE IF t.compared[1].partial THEN "fastest of those tried" ELSE "fastest of all"]

Replies ==
    /\ tools.pc = "deciding" /\ tools.calls > 0
    /\ tools' = [tools EXCEPT !.pc = "replied", !.reply = ReplyOf(tools)]
    /\ UNCHANGED <<subject, hand, turns>>

\* chat() keeps the references of an answered turn.
TurnKept ==
    /\ tools.pc = "replied"
    /\ hand' = tools.refs /\ tools' = NewTools
    /\ UNCHANGED <<subject, turns>>

\* The analysis has gone or changed, an answer belongs to another one, the model fails
\* or calls too much, or the turn is out of time: nothing of it is kept.
TurnFails ==
    /\ tools.pc \in {"deciding", "looking", "comparing"}
    /\ tools' = NewTools
    /\ UNCHANGED <<subject, hand, turns>>

ToolsNext ==
    \/ AnalysisThere \/ TurnBegins \/ CallsInVain \/ CallsNearest
    \/ \E p \in Pois : CallsRoute(p)
    \/ \E matches \in SUBSET known : Lists(SetToSeq(matches))
    \/ \E status \in {"ready", "no way", "error"} : Answers(status)
    \/ Looked \/ Tries \/ Concludes \/ BudgetSpent
    \/ Replies \/ TurnKept \/ TurnFails

ToolsSpec == ToolsInit /\ [][ToolsNext]_toolVars

----------------------------------------------------------------------------
(* Properties.                                                             *)

\* A reply shows the route that was asked for last, or the one a comparison chose
\* since; next to another facility's route stands no comparison.
ShownWasWanted ==
    tools.reply.given /\ tools.shown # Nowhere =>
        /\ tools.shown \in known \cap tools.routes
        /\ tools.wanted \in {tools.shown, Nowhere}
        /\ tools.compared # <<>> => tools.compared[1].selected = tools.shown
        /\ tools.compared = <<>> => tools.wanted = tools.shown

\* "The fastest of the known candidates" is said only when every one of them was
\* tried and has a route; of those tried it is never a slower one.
ClaimsHold ==
    LET best(set) == \A p \in set : p \in tools.routes /\ walk[tools.shown] <= walk[p]
    IN /\ tools.reply.claim = "fastest of all" => best(known \cap Medical)
       /\ tools.reply.claim = "fastest of those tried" => best(tools.compared[1].of)

\* What is handed on is of this analysis, each facility once, and not too much.
HandedOn ==
    /\ ToSet(hand) \subseteq known
    /\ Len(hand) <= MaxFacilities /\ Cardinality(ToSet(hand)) = Len(hand)

ReplyGrounded == ShownWasWanted /\ ClaimsHold /\ HandedOn
=============================================================================
