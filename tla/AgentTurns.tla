----------------------------- MODULE AgentTurns -----------------------------
(***************************************************************************)
(* The conversations of the life-circle assistant                          *)
(* (backend/app/agent_runtime.py and the endpoint in agent_api.py): how    *)
(* chat() admits a turn, what the tool loop may do between two awaits, and *)
(* how a disconnect, a timeout and close() end it.                         *)
(*                                                                         *)
(* A conversation is named by the request that opened it.  The content of  *)
(* questions, tool results and replies is left out.  An analysis here is   *)
(* one published revision of one analysis: that is what a context names.   *)
(***************************************************************************)
EXTENDS Integers, Sequences, FiniteSets, SequencesExt, Recursions

CONSTANTS
    Requests,        \* invocations of chat()
    Analyses,        \* the contexts requests may name
    None,
    MaxConcurrency,  \* config.max_concurrency
    MaxSessions,     \* at most so many conversations, 100
    MaxModelCalls,   \* config.max_model_calls
    MaxToolCalls     \* tool calls of one turn, 6

ASSUME AgentAssumption ==
    /\ IsFiniteSet(Requests)
    /\ None \notin Requests \cup Analyses
    /\ MaxConcurrency \in Nat \ {0}
    /\ MaxSessions \in Nat \ {0}
    /\ MaxModelCalls \in Nat \ {0}
    /\ MaxToolCalls \in Nat \ {0}

VARIABLES
    analysis,  \* what resolve_context finds under each context
    sessions,  \* AgentRuntime.sessions, least recently used first
    bound,     \* Conversation.context
    busy,      \* conversations with busy = True
    spoken,    \* conversations whose history is not empty
    idle,      \* conversations untouched for 600 seconds
    active,    \* AgentRuntime.active, by request
    turn,      \* where each request and its agent-turn task stand
    talk,      \* the conversation of each admitted request
    rounds,    \* model requests of a turn so far
    calls,     \* tool calls of a turn so far
    pending,   \* tool calls of the last model response still to execute
    evidence,  \* turns with last_result
    cut,       \* turn tasks with an undelivered cancellation
    closing    \* "no", "waiting" for the turns, or "done"

sessionVars == <<sessions, bound, busy, spoken, idle>>
loopVars == <<rounds, calls, pending, evidence>>
vars == <<analysis, sessionVars, active, turn, talk, loopVars, cut, closing>>

Live == {"asking", "routing"}         \* the turn task is in the tool loop
Returned == {"replied", "raised"}     \* it is done, chat() has not resumed
Over == {"refused", "answered", "failed"}

Kept == ToSet(sessions)
Without(c) == Only(sessions, Requests \ {c})

TypeOK ==
    /\ analysis \in [Analyses -> {"current", "gone"}]
    /\ sessions \in Seq(Requests)
    /\ bound \in [Requests -> Analyses \cup {None}]
    /\ busy \subseteq Requests /\ spoken \subseteq Requests /\ idle \subseteq Requests
    /\ active \subseteq Requests
    /\ turn \in [Requests -> {"new"} \cup Live \cup Returned \cup Over]
    /\ talk \in [Requests -> Requests \cup {None}]
    /\ rounds \in [Requests -> 0..MaxModelCalls]
    /\ calls \in [Requests -> 0..MaxToolCalls]
    /\ pending \in [Requests -> 0..MaxToolCalls]
    /\ evidence \subseteq Requests
    /\ cut \subseteq Requests
    /\ closing \in {"no", "waiting", "done"}

Init ==
    /\ analysis = [a \in Analyses |-> "current"]
    /\ sessions = <<>>
    /\ bound = [c \in Requests |-> None]
    /\ busy = {} /\ spoken = {} /\ idle = {}
    /\ active = {}
    /\ turn = [r \in Requests |-> "new"]
    /\ talk = [r \in Requests |-> None]
    /\ rounds = [r \in Requests |-> 0]
    /\ calls = [r \in Requests |-> 0]
    /\ pending = [r \in Requests |-> 0]
    /\ evidence = {}
    /\ cut = {}
    /\ closing = "no"

----------------------------------------------------------------------------
(* The records the contexts refer to.                                      *)

Resolves(a) == analysis[a] = "current"

\* The record or the route context of a completed analysis is dropped.  Neither
\* ever comes back; an analysis still running is not told from a dropped one.
AnalysisGoes(a) ==
    /\ analysis[a] = "current"
    /\ analysis' = [analysis EXCEPT ![a] = "gone"]
    /\ UNCHANGED <<sessionVars, active, turn, talk, loopVars, cut, closing>>

TimePasses(c) ==
    /\ c \in Kept \ idle
    /\ idle' = idle \cup {c}
    /\ UNCHANGED <<analysis, sessions, bound, busy, spoken, active, turn, talk,
                   loopVars, cut, closing>>

----------------------------------------------------------------------------
(* chat(), up to the await.                                                *)

\* mutant: prunes by age alone
PrunedByAge == Only(sessions, Requests \ idle)

\* The conversations left by _prune().
Pruned == Only(sessions, busy \cup (Requests \ idle))

\* Room for one more: the oldest conversation that is not busy has to go.
Evicted(kept) ==
    IF Len(kept) < MaxSessions THEN kept
    ELSE LET first == CHOOSE i \in DOMAIN kept :
                 /\ kept[i] \notin busy
                 /\ \A k \in 1..(i - 1) : kept[k] \in busy
         IN RemoveAt(kept, first)

CanEvict(kept) == Len(kept) < MaxSessions \/ \E c \in ToSet(kept) : c \notin busy

HasSlot == Cardinality(active) < MaxConcurrency

\* mutant: a second turn may join a conversation in its turn
CanContinueBusy(c, a) == c \in ToSet(Pruned) /\ bound[c] = a

\* A conversation may go on: known, about the same analysis, and not busy.
CanContinue(c, a) == c \in ToSet(Pruned) /\ bound[c] = a /\ c \notin busy

Refused(r, kept) ==
    /\ turn' = [turn EXCEPT ![r] = "refused"]
    /\ sessions' = kept
    /\ UNCHANGED <<analysis, bound, busy, spoken, idle, active, talk, loopVars, cut, closing>>

ChatRefused(r, c, a) ==
    /\ turn[r] = "new"
    /\ \/ /\ closing # "no" \/ ~Resolves(a)
          /\ Refused(r, sessions)
       \/ /\ closing = "no" /\ Resolves(a)
          /\ \/ c # None /\ ~CanContinue(c, a)
             \/ ~HasSlot
             \/ c = None /\ ~CanEvict(Pruned)
          /\ Refused(r, Pruned)

Admitted(r, c) ==
    /\ busy' = busy \cup {c}
    /\ active' = active \cup {r}
    /\ talk' = [talk EXCEPT ![r] = c]
    /\ turn' = [turn EXCEPT ![r] = "asking"]
    /\ UNCHANGED <<analysis, spoken, idle, loopVars, cut, closing>>

ChatOpens(r, a) ==
    /\ turn[r] = "new" /\ closing = "no" /\ Resolves(a)
    /\ HasSlot
    /\ CanEvict(Pruned)
    /\ sessions' = Append(Evicted(Pruned), r)
    /\ bound' = [bound EXCEPT ![r] = a]
    /\ Admitted(r, r)

ChatContinues(r, c, a) ==
    /\ turn[r] = "new" /\ closing = "no" /\ Resolves(a)
    /\ CanContinue(c, a)
    /\ HasSlot
    /\ sessions' = Pruned
    /\ UNCHANGED bound
    /\ Admitted(r, c)

----------------------------------------------------------------------------
(* The tool loop.  A cancellation is delivered at the await; nothing else  *)
(* happens to the task before.                                             *)

Context(r) == bound[talk[r]]

\* mutant: the loop trusts the check that chat() has made
StillCurrentAtFirst(r) == Context(r) # None

\* resolve_context after every await of the turn.
StillCurrent(r) == Resolves(Context(r))

At(r, place) == turn[r] = place /\ r \notin cut

Ends(r, how) ==
    /\ turn' = [turn EXCEPT ![r] = how]
    /\ cut' = cut \ {r}
    /\ UNCHANGED <<analysis, sessionVars, active, talk, closing>>

\* Tool calls that need no route are executed in the same stretch; the turn
\* then asks the model again or awaits a route with `left` calls to go.
Executes(r, left) ==
    /\ turn' = [turn EXCEPT ![r] = IF left = 0 THEN "asking" ELSE "routing"]
    /\ pending' = [pending EXCEPT ![r] = left]
    /\ cut' = cut \ {r}
    /\ UNCHANGED <<analysis, sessionVars, active, talk, closing>>

ModelFails(r) ==
    /\ At(r, "asking")
    /\ Ends(r, "raised")
    /\ UNCHANGED loopVars

WithinLimits(r, n) == rounds[r] + 1 < MaxModelCalls /\ calls[r] + n <= MaxToolCalls

ModelCallsTools(r, n) ==
    /\ At(r, "asking")
    /\ rounds' = [rounds EXCEPT ![r] = @ + 1]
    /\ \/ /\ StillCurrent(r) /\ WithinLimits(r, n)
          /\ calls' = [calls EXCEPT ![r] = @ + n]
          /\ \E left \in 0..n :
                /\ evidence' = IF left < n THEN evidence \cup {r} ELSE evidence
                /\ Executes(r, left)
       \/ /\ ~StillCurrent(r) \/ ~WithinLimits(r, n)
          /\ Ends(r, "raised")
          /\ UNCHANGED <<calls, pending, evidence>>

ModelReplies(r) ==
    /\ At(r, "asking")
    /\ rounds' = [rounds EXCEPT ![r] = @ + 1]
    /\ Ends(r, IF StillCurrent(r) /\ r \in evidence THEN "replied" ELSE "raised")
    /\ UNCHANGED <<calls, pending, evidence>>

\* A route lookup returns or fails, which is a tool result like any other, and the
\* remaining calls are executed; a lost context, a route that is not of this analysis
\* and a later call that is not valid end the turn.
RouteReturns(r) ==
    /\ At(r, "routing")
    /\ \/ /\ StillCurrent(r)
          /\ \E left \in 0..(pending[r] - 1) : Executes(r, left)
          /\ evidence' = evidence \cup {r}
          /\ UNCHANGED <<rounds, calls>>
       \/ Ends(r, "raised") /\ UNCHANGED loopVars

\* CancelledError ends the task.
CutEnds(r) ==
    /\ r \in cut
    /\ Ends(r, "raised")
    /\ UNCHANGED loopVars

\* The cleanup of a cancelled route lookup fails with an ordinary exception,
\* which _route turns into a tool result: the loop goes on.
CutAbsorbed(r) ==
    /\ r \in cut /\ turn[r] = "routing" /\ StillCurrent(r)
    /\ \E left \in 0..(pending[r] - 1) : Executes(r, left)
    /\ evidence' = evidence \cup {r}
    /\ UNCHANGED <<rounds, calls>>

\* asyncio.timeout(config.timeout_seconds) expires, once in a turn; here also
\* again after an absorbed cancellation.
TurnTimesOut(r) ==
    /\ turn[r] \in Live /\ r \notin cut
    /\ cut' = cut \cup {r}
    /\ UNCHANGED <<analysis, sessionVars, active, turn, talk, loopVars, closing>>

----------------------------------------------------------------------------
(* The end of chat().                                                      *)

\* The finally clause: a conversation that has said nothing yet is dropped, any
\* other becomes the most recently used, if it is still listed.
Refreshed(c, said) ==
    IF said /\ c \in Kept THEN Append(Without(c), c) ELSE Without(c)

\* mutant: the failure of a turn leaves its place taken
SlotAfter(r) == IF turn[r] = "replied" THEN active \ {r} ELSE active

SlotFreed(r) == active \ {r}

\* The local variables of chat() and of its turn end with them.
LocalsGo(r) ==
    /\ talk' = [talk EXCEPT ![r] = None]
    /\ rounds' = [rounds EXCEPT ![r] = 0]
    /\ calls' = [calls EXCEPT ![r] = 0]
    /\ pending' = [pending EXCEPT ![r] = 0]
    /\ evidence' = evidence \ {r}

ChatResumes(r) ==
    /\ turn[r] \in Returned
    /\ LET c == talk[r] IN
       /\ spoken' = IF turn[r] = "replied" THEN spoken \cup {c} ELSE spoken
       /\ sessions' = Refreshed(c, c \in spoken')
       /\ busy' = busy \ {c}
       /\ idle' = idle \ {c}
    /\ active' = SlotFreed(r)
    /\ turn' = [turn EXCEPT ![r] = IF @ = "replied" THEN "answered" ELSE "failed"]
    /\ LocalsGo(r)
    /\ UNCHANGED <<analysis, bound, cut, closing>>

\* The client has gone: agent_chat cancels chat(), and the cancellation reaches
\* the turn task unless that is done, when its result is lost.
Disconnect(r) ==
    /\ \/ /\ turn[r] \in Live /\ r \notin cut
          /\ cut' = cut \cup {r}
          /\ UNCHANGED turn
       \/ /\ turn[r] = "replied"
          /\ turn' = [turn EXCEPT ![r] = "raised"]
          /\ UNCHANGED cut
    /\ UNCHANGED <<analysis, sessionVars, active, talk, loopVars, closing>>

CloseBegins ==
    /\ closing = "no"
    /\ closing' = "waiting"
    /\ cut' = cut \cup {r \in active : turn[r] \in Live}
    /\ UNCHANGED <<analysis, sessionVars, active, turn, talk, loopVars>>

CloseEnds ==
    /\ closing = "waiting"
    /\ \A r \in Requests : turn[r] \notin Live
    /\ closing' = "done"
    /\ sessions' = <<>>
    /\ UNCHANGED <<analysis, bound, busy, spoken, idle, active, turn, talk, loopVars, cut>>

----------------------------------------------------------------------------
ChatStarts(r) ==
    \E a \in Analyses :
        \/ ChatOpens(r, a)
        \/ \E c \in Requests : ChatContinues(r, c, a)
        \/ \E c \in Requests \cup {None} : ChatRefused(r, c, a)

\* The turn task moves on from its await.
TurnGoesOn(r) ==
    \/ ModelFails(r) \/ ModelReplies(r)
    \/ \E n \in 1..(MaxToolCalls + 1) : ModelCallsTools(r, n)
    \/ RouteReturns(r) \/ CutEnds(r) \/ CutAbsorbed(r)

Next ==
    \/ \E a \in Analyses : AnalysisGoes(a)
    \/ \E r \in Requests :
          \/ ChatStarts(r) \/ TurnGoesOn(r) \/ TurnTimesOut(r)
          \/ ChatResumes(r) \/ Disconnect(r) \/ TimePasses(r)
    \/ CloseBegins \/ CloseEnds

Spec == Init /\ [][Next]_vars

\* Model calls and route lookups have timeouts of their own, and the event loop
\* resumes whoever is ready.  Nobody has to ask, to leave or to close.
Fairness ==
    /\ \A r \in Requests : WF_vars(TurnGoesOn(r)) /\ WF_vars(ChatResumes(r))
    /\ WF_vars(CloseEnds)

FairSpec == Spec /\ Fairness

----------------------------------------------------------------------------
(* Properties.                                                             *)

\* Slots, conversations and turns agree: no more turns than slots, a slot for
\* exactly the requests whose turn is not settled, and the busy conversations
\* are theirs, each with one turn.
TurnsExclusive ==
    /\ Cardinality(active) <= MaxConcurrency
    /\ active = {r \in Requests : turn[r] \in Live \cup Returned}
    /\ busy = {talk[r] : r \in active}
    /\ \A r, s \in active : talk[r] = talk[s] => r = s

\* A conversation in the middle of a turn stays in the registry until the turn
\* is over or the runtime closes; after the close nothing is listed again.
ListedWhileBusy ==
    IF closing = "done" THEN sessions = <<>> ELSE busy \subseteq Kept

\* The registry of conversations is sound.
ConversationsKept == TypeOK /\ ListedWhileBusy

\* An answer about an analysis is given only while that analysis is still the
\* current one, and only from what a tool of the same turn has found.
AnswersCurrent ==
    [][\A r \in Requests : turn'[r] = "replied" /\ turn[r] # "replied" =>
          /\ analysis[Context(r)] = "current"
          /\ r \in evidence
          /\ rounds'[r] > 1]_vars

\* Every admitted turn gives its slot back, whatever its model, its routes and
\* its client do, and even if cancellations are absorbed.
SlotReturned == \A r \in Requests : r \in active ~> r \notin active
=============================================================================
