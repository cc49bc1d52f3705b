-------------------------- MODULE Assistant_proofs ---------------------------
(***************************************************************************)
(* Theorems about the assistant, for every number of requests and every    *)
(* limit: the slots, the busy conversations and the turns agree, the       *)
(* registry keeps what a turn is in the middle of, and what a turn says    *)
(* rests on what its tools have found.                                     *)
(*                                                                         *)
(* TurnsExclusive is not inductive.  A request that opens a conversation   *)
(* names it after itself, and it must not find that name busy already: the *)
(* strengthening says that a conversation has a context only if the        *)
(* request that opened it has been admitted, and that every turn has a     *)
(* conversation with a context.  Neither is ReplyGrounded: what is said in *)
(* the end rests on what the comparison and the routes said before it.     *)
(***************************************************************************)
EXTENDS Assistant, Recursions_proofs

Turns == {"new"} \cup Live \cup Returned \cup Over

AgentType ==
    /\ turn \in [Requests -> Turns]
    /\ talk \in [Requests -> Requests \cup {None}]
    /\ bound \in [Requests -> Analyses \cup {None}]
    /\ active \subseteq Requests

SlotsInv ==
    /\ active = {r \in Requests : turn[r] \in Live \cup Returned}
    /\ Cardinality(active) <= MaxConcurrency

TalkInv ==
    /\ busy = {talk[r] : r \in active}
    /\ \A r, s \in active : talk[r] = talk[s] => r = s
    /\ \A r \in active : talk[r] \in Requests /\ bound[talk[r]] # None
    /\ \A c \in Requests : bound[c] # None => turn[c] # "new"

AgentInv == AgentType /\ SlotsInv /\ TalkInv

\* Only a task in the loop has a cancellation to deliver.
CutInv == \A r \in cut : r \in Requests /\ turn[r] \in Live

LEMMA ActiveFinite ==
    ASSUME active \subseteq Requests
    PROVE  IsFiniteSet(active) /\ Cardinality(active) \in Nat
BY AgentAssumption, FS_Subset, FS_CardinalityType DEF AgentAssumption

\* The steps that change no slot, no conversation and no context, and only let
\* live and returned turns become live or returned again.
TurnsMove ==
    /\ UNCHANGED <<active, busy, talk, bound>>
    /\ turn' \in [Requests -> Turns]
    /\ \A r \in Requests : turn'[r] \in Live \cup Returned <=> turn[r] \in Live \cup Returned
    /\ \A r \in Requests : turn'[r] = "new" => turn[r] = "new"

LEMMA MoveKeeps == ASSUME AgentInv, TurnsMove PROVE AgentInv'
BY DEF AgentInv, AgentType, SlotsInv, TalkInv, TurnsMove

LEMMA EndsMoves ==
    ASSUME AgentInv, NEW r \in Requests, turn[r] \in Live,
           NEW how \in Returned, Ends(r, how)
    PROVE  TurnsMove
BY DEF AgentInv, AgentType, TurnsMove, Ends, sessionVars, Live, Returned, Turns, Over

LEMMA ExecutesMoves ==
    ASSUME AgentInv, NEW r \in Requests, turn[r] \in Live, NEW left, Executes(r, left)
    PROVE  TurnsMove
BY DEF AgentInv, AgentType, TurnsMove, Executes, sessionVars, Live, Returned, Turns, Over

\* A step that refuses a request disturbs none of the sets.
LEMMA RefusedKeeps ==
    ASSUME AgentInv, NEW r \in Requests, turn[r] = "new", NEW kept, Refused(r, kept)
    PROVE  AgentInv'
<1>1. turn' = [turn EXCEPT ![r] = "refused"] /\ UNCHANGED <<active, busy, talk, bound>>
  BY DEF Refused
<1>2. /\ turn' \in [Requests -> Turns]
      /\ \A s \in Requests : turn'[s] \in Live \cup Returned <=> turn[s] \in Live \cup Returned
      /\ \A s \in Requests : turn'[s] = "new" => turn[s] = "new"
  BY <1>1 DEF AgentInv, AgentType, Live, Returned, Turns, Over
<1> QED  BY <1>1, <1>2, MoveKeeps DEF TurnsMove

\* A request is admitted to a conversation that no turn has.
LEMMA AdmittedKeeps ==
    ASSUME AgentInv, NEW r \in Requests, NEW c \in Requests,
           turn[r] = "new", HasSlot, c \notin busy, Admitted(r, c),
           bound' \in [Requests -> Analyses \cup {None}],
           bound'[c] # None, c = r \/ turn[c] # "new",
           \A d \in Requests : d # c => bound'[d] = bound[d]
    PROVE  AgentInv'
<1>1. /\ busy' = busy \cup {c}
      /\ active' = active \cup {r}
      /\ talk' = [talk EXCEPT ![r] = c]
      /\ turn' = [turn EXCEPT ![r] = "asking"]
  BY DEF Admitted
<1>2. r \notin active
  BY DEF AgentInv, SlotsInv, Live, Returned
<1>3. AgentType'
  BY <1>1 DEF AgentInv, AgentType, Turns, Live
<1>4. SlotsInv'
  <2>1. active' = {s \in Requests : turn'[s] \in Live' \cup Returned'}
    BY <1>1 DEF AgentInv, AgentType, SlotsInv, Live, Returned
  <2>2. IsFiniteSet(active) /\ Cardinality(active) \in Nat
    BY ActiveFinite DEF AgentInv, AgentType
  <2>3. Cardinality(active') = Cardinality(active) + 1
    BY <1>1, <1>2, <2>2, FS_AddElement
  <2>4. Cardinality(active') <= MaxConcurrency
    BY <2>2, <2>3, AgentAssumption DEF HasSlot, AgentAssumption
  <2> QED  BY <2>1, <2>4 DEF SlotsInv
<1>5. \A s \in active : talk'[s] = talk[s] /\ talk[s] # c
  BY <1>1, <1>2 DEF AgentInv, AgentType, TalkInv
<1>6. talk'[r] = c
  BY <1>1 DEF AgentInv, AgentType
<1>7. TalkInv'
  <2>1. busy' = {talk'[s] : s \in active'}
    BY <1>1, <1>5, <1>6 DEF AgentInv, TalkInv
  <2>2. \A s, t \in active' : talk'[s] = talk'[t] => s = t
    BY <1>1, <1>5, <1>6 DEF AgentInv, TalkInv
  <2>3. \A s \in active' : talk'[s] \in Requests /\ bound'[talk'[s]] # None
    BY <1>1, <1>5, <1>6 DEF AgentInv, TalkInv
  <2>4. \A d \in Requests : bound'[d] # None => turn'[d] # "new"
    BY <1>1 DEF AgentInv, AgentType, TalkInv
  <2> QED  BY <2>1, <2>2, <2>3, <2>4 DEF TalkInv
<1> QED  BY <1>3, <1>4, <1>7 DEF AgentInv

\* chat() resumes: the slot and the conversation are given back together.
LEMMA ResumeKeeps ==
    ASSUME AgentInv, NEW r \in Requests, ChatResumes(r)
    PROVE  AgentInv'
<1>1. /\ turn[r] \in Returned
      /\ busy' = busy \ {talk[r]}
      /\ active' = active \ {r}
      /\ talk' = [talk EXCEPT ![r] = None]
      /\ turn' = [turn EXCEPT ![r] = IF @ = "replied" THEN "answered" ELSE "failed"]
      /\ bound' = bound
  BY DEF ChatResumes, SlotFreed, LocalsGo
<1>2. r \in active
  BY <1>1 DEF AgentInv, SlotsInv
<1>3. AgentType'
  BY <1>1 DEF AgentInv, AgentType, Turns, Over
<1>4. SlotsInv'
  <2>1. active' = {s \in Requests : turn'[s] \in Live' \cup Returned'}
    BY <1>1 DEF AgentInv, AgentType, SlotsInv, Live, Returned
  <2>2. IsFiniteSet(active) /\ Cardinality(active) \in Nat
    BY ActiveFinite DEF AgentInv, AgentType
  <2>3. Cardinality(active') = Cardinality(active) - 1
    BY <1>1, <1>2, <2>2, FS_RemoveElement
  <2>4. Cardinality(active') <= MaxConcurrency
    BY <2>2, <2>3, AgentAssumption DEF AgentInv, SlotsInv, AgentAssumption
  <2> QED  BY <2>1, <2>4 DEF SlotsInv
<1>5. \A s \in active' : talk'[s] = talk[s] /\ talk[s] # talk[r]
  BY <1>1, <1>2 DEF AgentInv, AgentType, TalkInv
<1>6. TalkInv'
  <2>1. busy' = {talk'[s] : s \in active'}
    BY <1>1, <1>2, <1>5 DEF AgentInv, TalkInv
  <2>2. \A s, t \in active' : talk'[s] = talk'[t] => s = t
    BY <1>1, <1>5 DEF AgentInv, TalkInv
  <2>3. \A s \in active' : talk'[s] \in Requests /\ bound'[talk'[s]] # None
    BY <1>1, <1>5 DEF AgentInv, TalkInv
  <2>4. \A d \in Requests : bound'[d] # None => turn'[d] # "new"
    BY <1>1 DEF AgentInv, AgentType, TalkInv
  <2> QED  BY <2>1, <2>2, <2>3, <2>4 DEF TalkInv
<1> QED  BY <1>3, <1>4, <1>6 DEF AgentInv

LEMMA TurnGoesOnKeeps ==
    ASSUME AgentInv, NEW r \in Requests, CutInv,
           TurnGoesOn(r)
    PROVE  AgentInv'
<1>1. turn[r] \in Live
  BY DEF TurnGoesOn, ModelFails, ModelReplies, ModelCallsTools, RouteReturns,
         CutEnds, CutAbsorbed, At, Live, CutInv
<1>2. CASE ModelFails(r)
  BY <1>1, <1>2, EndsMoves, MoveKeeps DEF ModelFails, Returned
<1>3. CASE ModelReplies(r)
  BY <1>1, <1>3, EndsMoves, MoveKeeps DEF ModelReplies, Returned
<1>4. CASE \E n \in 1..(MaxToolCalls + 1) : ModelCallsTools(r, n)
  BY <1>1, <1>4, EndsMoves, ExecutesMoves, MoveKeeps DEF ModelCallsTools, Returned
<1>5. CASE RouteReturns(r)
  BY <1>1, <1>5, EndsMoves, ExecutesMoves, MoveKeeps DEF RouteReturns, Returned
<1>6. CASE CutEnds(r)
  BY <1>1, <1>6, EndsMoves, MoveKeeps DEF CutEnds, Returned
<1>7. CASE CutAbsorbed(r)
  BY <1>1, <1>7, ExecutesMoves, MoveKeeps DEF CutAbsorbed
<1> QED  BY <1>2, <1>3, <1>4, <1>5, <1>6, <1>7 DEF TurnGoesOn

LEMMA CutStep ==
    ASSUME AgentInv, CutInv, Next PROVE CutInv'
<1> USE DEF AgentInv, AgentType, CutInv, Live, Returned
<1>1. ASSUME NEW a \in Analyses, AnalysisGoes(a) PROVE CutInv'
  BY <1>1 DEF AnalysisGoes
<1>2. ASSUME NEW r \in Requests, ChatStarts(r) PROVE CutInv'
  BY <1>2 DEF ChatStarts, ChatOpens, ChatContinues, ChatRefused, Admitted, Refused
<1>3. ASSUME NEW r \in Requests, TurnGoesOn(r) PROVE CutInv'
  BY <1>3 DEF TurnGoesOn, ModelFails, ModelReplies, ModelCallsTools, RouteReturns,
              CutEnds, CutAbsorbed, Ends, Executes
<1>4. ASSUME NEW r \in Requests, TurnTimesOut(r) PROVE CutInv'
  BY <1>4 DEF TurnTimesOut
<1>5. ASSUME NEW r \in Requests, ChatResumes(r) PROVE CutInv'
  BY <1>5 DEF ChatResumes
<1>6. ASSUME NEW r \in Requests, Disconnect(r) PROVE CutInv'
  BY <1>6 DEF Disconnect
<1>7. ASSUME NEW r \in Requests, TimePasses(r) PROVE CutInv'
  BY <1>7 DEF TimePasses
<1>8. CASE CloseBegins
  BY <1>8 DEF CloseBegins
<1>9. CASE CloseEnds
  BY <1>9 DEF CloseEnds
<1> QED  BY <1>1, <1>2, <1>3, <1>4, <1>5, <1>6, <1>7, <1>8, <1>9 DEF Next

LEMMA AgentStep ==
    ASSUME AgentInv, CutInv, Next PROVE AgentInv'
<1>1. ASSUME NEW a \in Analyses, AnalysisGoes(a) PROVE AgentInv'
  BY <1>1, MoveKeeps DEF AnalysisGoes, sessionVars, TurnsMove, AgentInv, AgentType
<1>2. ASSUME NEW r \in Requests, NEW a \in Analyses, ChatOpens(r, a) PROVE AgentInv'
  <2>1. turn[r] = "new" /\ HasSlot /\ bound' = [bound EXCEPT ![r] = a] /\ Admitted(r, r)
    BY <1>2 DEF ChatOpens
  <2>2. bound' \in [Requests -> Analyses \cup {None}] /\ bound'[r] = a /\ a # None
        /\ \A d \in Requests : d # r => bound'[d] = bound[d]
    BY <2>1, AgentAssumption DEF AgentInv, AgentType, AgentAssumption
  <2>3. r \notin busy
    BY <2>1 DEF AgentInv, TalkInv
  <2> QED  BY <2>1, <2>2, <2>3, AdmittedKeeps
<1>3. ASSUME NEW r \in Requests, NEW c \in Requests, NEW a \in Analyses, ChatContinues(r, c, a)
      PROVE  AgentInv'
  <2>1. /\ turn[r] = "new" /\ HasSlot /\ bound' = bound /\ Admitted(r, c)
        /\ bound[c] = a /\ c \notin busy /\ a # None
    BY <1>3, AgentAssumption DEF ChatContinues, CanContinue, AgentAssumption
  <2>2. turn[c] # "new"
    BY <2>1 DEF AgentInv, TalkInv
  <2>3. bound' \in [Requests -> Analyses \cup {None}] /\ bound'[c] # None
        /\ \A d \in Requests : d # c => bound'[d] = bound[d]
    BY <2>1 DEF AgentInv, AgentType
  <2> QED  BY <2>1, <2>2, <2>3, AdmittedKeeps
<1>4. ASSUME NEW r \in Requests, NEW c, NEW a \in Analyses, ChatRefused(r, c, a)
      PROVE  AgentInv'
  BY <1>4, RefusedKeeps DEF ChatRefused
<1>5. ASSUME NEW r \in Requests, TurnGoesOn(r) PROVE AgentInv'
  BY <1>5, TurnGoesOnKeeps
<1>6. ASSUME NEW r \in Requests, TurnTimesOut(r) PROVE AgentInv'
  BY <1>6, MoveKeeps DEF TurnTimesOut, sessionVars, TurnsMove, AgentInv, AgentType
<1>7. ASSUME NEW r \in Requests, ChatResumes(r) PROVE AgentInv'
  BY <1>7, ResumeKeeps
<1>8. ASSUME NEW r \in Requests, Disconnect(r) PROVE AgentInv'
  <2>1. TurnsMove
    BY <1>8 DEF Disconnect, sessionVars, TurnsMove, AgentInv, AgentType,
                Turns, Live, Returned
  <2> QED  BY <2>1, MoveKeeps
<1>9. ASSUME NEW r \in Requests, TimePasses(r) PROVE AgentInv'
  BY <1>9, MoveKeeps DEF TimePasses, TurnsMove, AgentInv, AgentType
<1>10. CASE CloseBegins
  BY <1>10, MoveKeeps DEF CloseBegins, sessionVars, TurnsMove, AgentInv, AgentType
<1>11. CASE CloseEnds
  BY <1>11, MoveKeeps DEF CloseEnds, TurnsMove, AgentInv, AgentType
<1> QED
  BY <1>1, <1>2, <1>3, <1>4, <1>5, <1>6, <1>7, <1>8, <1>9, <1>10, <1>11
     DEF Next, ChatStarts

LEMMA AgentInit == Init => AgentInv /\ CutInv
<1> SUFFICES ASSUME Init PROVE AgentInv /\ CutInv
  OBVIOUS
<1>1. AgentType /\ TalkInv /\ CutInv
  BY DEF Init, AgentType, TalkInv, CutInv, Turns
<1>2. active = {r \in Requests : turn[r] \in Live \cup Returned}
  BY DEF Init, Live, Returned
<1>3. Cardinality(active) <= MaxConcurrency
  BY FS_EmptySet, AgentAssumption DEF Init, AgentAssumption
<1> QED  BY <1>1, <1>2, <1>3 DEF AgentInv, SlotsInv

LEMMA AgentInvariant == Spec => [](AgentInv /\ CutInv)
<1>1. AgentInv /\ CutInv /\ [Next]_vars => (AgentInv /\ CutInv)'
  <2> SUFFICES ASSUME AgentInv, CutInv, [Next]_vars PROVE (AgentInv /\ CutInv)'
    OBVIOUS
  <2>1. CASE Next
    BY <2>1, AgentStep, CutStep
  <2>2. CASE UNCHANGED vars
    <3>1. UNCHANGED <<active, busy, talk, bound, turn, cut>>
      BY <2>2 DEF vars, sessionVars
    <3>2. AgentInv'
      BY <3>1, MoveKeeps DEF TurnsMove, AgentInv, AgentType
    <3>3. CutInv'
      BY <3>1 DEF CutInv
    <3> QED  BY <3>2, <3>3
  <2> QED  BY <2>1, <2>2
<1> QED  BY <1>1, AgentInit, PTL DEF Spec

----------------------------------------------------------------------------

\* Slots, turns and busy conversations agree at all times (chat(), from its
\* admission without an await to its finally clause).
THEOREM TurnsAreExclusive == Spec => []TurnsExclusive
<1>1. AgentInv => TurnsExclusive
  BY DEF AgentInv, SlotsInv, TalkInv, TurnsExclusive
<1> QED  BY <1>1, AgentInvariant, PTL

\* What a turn has from its tools it has after a round.
RoundsInv ==
    /\ rounds \in [Requests -> Nat]
    /\ \A r \in Requests : turn[r] = "routing" \/ r \in evidence => rounds[r] > 0

LEMMA RoundsStep ==
    ASSUME AgentInv, RoundsInv, Next PROVE RoundsInv'
<1> USE DEF AgentInv, AgentType, RoundsInv
<1>1. ASSUME NEW r \in Requests, NEW c, Admitted(r, c) PROVE RoundsInv'
  BY <1>1 DEF Admitted, loopVars
<1>2. ASSUME NEW r \in Requests, NEW kept, Refused(r, kept) PROVE RoundsInv'
  BY <1>2 DEF Refused, loopVars
<1>3. ASSUME NEW r \in Requests, NEW how \in Returned, Ends(r, how), evidence' = evidence,
             rounds' = rounds \/ rounds' = [rounds EXCEPT ![r] = @ + 1]
      PROVE  RoundsInv'
  BY <1>3 DEF Ends, Returned
<1>4. ASSUME NEW r \in Requests, TurnGoesOn(r) PROVE RoundsInv'
  <2>1. CASE ModelFails(r)
    BY <2>1, <1>3 DEF ModelFails, loopVars, Returned
  <2>2. CASE ModelReplies(r)
    BY <2>2, <1>3 DEF ModelReplies, Returned
  <2>3. ASSUME NEW n \in 1..(MaxToolCalls + 1), ModelCallsTools(r, n) PROVE RoundsInv'
    <3>1. CASE \E left \in 0..n :
                  /\ evidence' = IF left < n THEN evidence \cup {r} ELSE evidence
                  /\ Executes(r, left)
      BY <2>3, <3>1 DEF ModelCallsTools, Executes
    <3>2. CASE Ends(r, "raised") /\ evidence' = evidence
      BY <2>3, <3>2, <1>3 DEF ModelCallsTools, Returned
    <3> QED  BY <2>3, <3>1, <3>2 DEF ModelCallsTools
  <2>4. CASE RouteReturns(r)
    <3>1. CASE \E left \in 0..(pending[r] - 1) : Executes(r, left)
      BY <2>4, <3>1 DEF RouteReturns, Executes, At, Ends, loopVars
    <3>2. CASE Ends(r, "raised") /\ UNCHANGED loopVars
      BY <3>2, <1>3 DEF loopVars, Returned
    <3> QED  BY <2>4, <3>1, <3>2 DEF RouteReturns
  <2>5. CASE CutEnds(r)
    BY <2>5, <1>3 DEF CutEnds, loopVars, Returned
  <2>6. CASE CutAbsorbed(r)
    BY <2>6 DEF CutAbsorbed, Executes
  <2> QED  BY <1>4, <2>1, <2>2, <2>3, <2>4, <2>5, <2>6 DEF TurnGoesOn
<1>5. ASSUME NEW r \in Requests, ChatResumes(r) PROVE RoundsInv'
  BY <1>5 DEF ChatResumes, LocalsGo
<1>6. ASSUME NEW r \in Requests, Disconnect(r) PROVE RoundsInv'
  BY <1>6 DEF Disconnect, loopVars
<1>7. ASSUME UNCHANGED <<turn, loopVars>> PROVE RoundsInv'
  BY <1>7 DEF loopVars
<1>8. ASSUME NEW r \in Requests, ChatStarts(r) PROVE RoundsInv'
  BY <1>8, <1>1, <1>2 DEF ChatStarts, ChatOpens, ChatContinues, ChatRefused
<1>9. CASE \/ \E a \in Analyses : AnalysisGoes(a)
           \/ \E r \in Requests : TurnTimesOut(r) \/ TimePasses(r)
           \/ CloseBegins \/ CloseEnds
  BY <1>9, <1>7 DEF AnalysisGoes, TurnTimesOut, TimePasses, CloseBegins, CloseEnds, loopVars
<1> QED  BY <1>4, <1>5, <1>6, <1>8, <1>9 DEF Next

LEMMA RoundsInvariant == Spec => []RoundsInv
<1>1. Init => RoundsInv
  BY DEF Init, RoundsInv
<1>2. AgentInv /\ RoundsInv /\ [Next]_vars => RoundsInv'
  <2> SUFFICES ASSUME AgentInv, RoundsInv, [Next]_vars PROVE RoundsInv'
    OBVIOUS
  <2>1. CASE UNCHANGED vars
    BY <2>1 DEF vars, loopVars, RoundsInv
  <2> QED  BY <2>1, RoundsStep
<1> QED  BY <1>1, <1>2, AgentInvariant, PTL DEF Spec

LEMMA ReplyStep ==
    ASSUME AgentInv, CutInv, RoundsInv, Next,
           NEW r \in Requests, turn'[r] = "replied", turn[r] # "replied"
    PROVE  analysis[Context(r)] = "current" /\ r \in evidence /\ rounds'[r] > 1
<1> USE DEF AgentInv, AgentType
<1>1. ModelReplies(r)
  <2>1. ASSUME NEW s \in Requests, TurnGoesOn(s) PROVE ModelReplies(r)
    BY <2>1 DEF TurnGoesOn, ModelFails, ModelReplies, ModelCallsTools, RouteReturns,
                CutEnds, CutAbsorbed, Ends, Executes
  <2>2. ASSUME NEW s \in Requests, ChatStarts(s) PROVE FALSE
    BY <2>2 DEF ChatStarts, ChatOpens, ChatContinues, ChatRefused, Admitted, Refused
  <2>3. ASSUME NEW s \in Requests, ChatResumes(s) \/ Disconnect(s) PROVE FALSE
    BY <2>3 DEF ChatResumes, Disconnect
  <2>4. turn' # turn
    OBVIOUS
  <2> QED  BY <2>1, <2>2, <2>3, <2>4 DEF Next, AnalysisGoes, TurnTimesOut, TimePasses,
                                         CloseBegins, CloseEnds
<1>2. StillCurrent(r) /\ r \in evidence /\ rounds' = [rounds EXCEPT ![r] = @ + 1]
  BY <1>1 DEF ModelReplies, Ends
<1> QED  BY <1>2 DEF StillCurrent, Resolves, RoundsInv

\* A reply comes from a turn that has used a tool and whose analysis is still
\* the current one (the checks of _tool_loop after every await).
THEOREM AnswersAreCurrent == Spec => AnswersCurrent
<1>1. AgentInv /\ CutInv /\ RoundsInv /\ [Next]_vars
      => [\A r \in Requests : turn'[r] = "replied" /\ turn[r] # "replied" =>
             /\ analysis[Context(r)] = "current"
             /\ r \in evidence
             /\ rounds'[r] > 1]_vars
  BY ReplyStep
<1> QED  BY <1>1, AgentInvariant, RoundsInvariant, PTL DEF Spec, AnswersCurrent
----------------------------------------------------------------------------
(* The registry.                                                           *)

\* A turn that may still ask the model is below the limit of rounds, so that no
\* count of it leaves its range.
LimitsInv ==
    /\ rounds \in [Requests -> 0..MaxModelCalls]
    /\ calls \in [Requests -> 0..MaxToolCalls]
    /\ pending \in [Requests -> 0..MaxToolCalls]
    /\ evidence \subseteq Requests
    /\ \A r \in Requests : turn[r] \in {"new"} \cup Live => rounds[r] < MaxModelCalls

LEMMA LimitsStep ==
    ASSUME AgentInv, CutInv, LimitsInv, Next PROVE LimitsInv'
<1> USE AgentAssumption DEF AgentInv, AgentType, LimitsInv, AgentAssumption
<1>1. ASSUME NEW r \in Requests, NEW c, turn[r] = "new", Admitted(r, c) PROVE LimitsInv'
  BY <1>1 DEF Admitted, loopVars, Live
<1>2. ASSUME NEW r \in Requests, NEW kept, Refused(r, kept) PROVE LimitsInv'
  BY <1>2 DEF Refused, loopVars, Live
<1>3. ASSUME NEW r \in Requests, turn[r] \in Live, NEW how \in Returned, Ends(r, how),
             UNCHANGED <<calls, pending, evidence>>,
             rounds' = rounds \/ rounds' = [rounds EXCEPT ![r] = @ + 1]
      PROVE  LimitsInv'
  BY <1>3 DEF Ends, Returned, Live
<1>4. ASSUME NEW r \in Requests, turn[r] \in Live, NEW left \in 0..MaxToolCalls, Executes(r, left),
             evidence' \subseteq Requests, calls' \in [Requests -> 0..MaxToolCalls],
             rounds' = rounds \/ (rounds' = [rounds EXCEPT ![r] = @ + 1] /\ rounds[r] + 1 < MaxModelCalls)
      PROVE  LimitsInv'
  BY <1>4 DEF Executes, Live
<1>5. ASSUME NEW r \in Requests, TurnGoesOn(r) PROVE LimitsInv'
  <2>0. turn[r] \in Live
    BY <1>5 DEF TurnGoesOn, ModelFails, ModelReplies, ModelCallsTools, RouteReturns,
                CutEnds, CutAbsorbed, At, Live, CutInv
  <2>1. CASE ModelFails(r)
    BY <2>0, <2>1, <1>3 DEF ModelFails, loopVars, Returned
  <2>2. CASE ModelReplies(r)
    BY <2>0, <2>2, <1>3 DEF ModelReplies, Returned
  <2>3. ASSUME NEW n \in 1..(MaxToolCalls + 1), ModelCallsTools(r, n) PROVE LimitsInv'
    <3>1. CASE /\ WithinLimits(r, n) /\ calls' = [calls EXCEPT ![r] = @ + n]
               /\ \E left \in 0..n :
                     /\ evidence' = IF left < n THEN evidence \cup {r} ELSE evidence
                     /\ Executes(r, left)
      <4>1. rounds[r] + 1 < MaxModelCalls /\ calls[r] + n <= MaxToolCalls
        BY <3>1 DEF WithinLimits
      <4>2. n \in 0..MaxToolCalls /\ calls' \in [Requests -> 0..MaxToolCalls]
        BY <3>1, <4>1
      <4>3. PICK left \in 0..n : /\ evidence' = IF left < n THEN evidence \cup {r} ELSE evidence
                                 /\ Executes(r, left)
        BY <3>1
      <4>4. left \in 0..MaxToolCalls
        BY <4>2, <4>3
      <4>5. evidence' \subseteq Requests
        BY <4>3
      <4> QED BY <2>0, <2>3, <4>1, <4>2, <4>3, <4>4, <4>5, <1>4 DEF ModelCallsTools
    <3>2. CASE Ends(r, "raised") /\ UNCHANGED <<calls, pending, evidence>>
      BY <2>0, <2>3, <3>2, <1>3 DEF ModelCallsTools, Returned
    <3> QED  BY <2>3, <3>1, <3>2 DEF ModelCallsTools
  <2>4. CASE RouteReturns(r) \/ CutAbsorbed(r)
    <3>1. CASE /\ \E left \in 0..(pending[r] - 1) : Executes(r, left)
               /\ evidence' = evidence \cup {r} /\ UNCHANGED <<rounds, calls>>
      <4>1. PICK left \in 0..(pending[r] - 1) : Executes(r, left)
        BY <3>1
      <4>2. left \in 0..MaxToolCalls
        BY <4>1
      <4> QED BY <2>0, <3>1, <4>1, <4>2, <1>4
    <3>2. CASE Ends(r, "raised") /\ UNCHANGED loopVars
      BY <2>0, <3>2, <1>3 DEF loopVars, Returned
    <3> QED  BY <2>4, <3>1, <3>2 DEF RouteReturns, CutAbsorbed
  <2>5. CASE CutEnds(r)
    BY <2>0, <2>5, <1>3 DEF CutEnds, loopVars, Returned
  <2> QED  BY <1>5, <2>1, <2>2, <2>3, <2>4, <2>5 DEF TurnGoesOn
<1>6. ASSUME NEW r \in Requests, ChatResumes(r) PROVE LimitsInv'
  BY <1>6 DEF ChatResumes, LocalsGo, Live
<1>7. ASSUME NEW r \in Requests, Disconnect(r) PROVE LimitsInv'
  BY <1>7 DEF Disconnect, loopVars, Live
<1>8. ASSUME UNCHANGED <<turn, loopVars>> PROVE LimitsInv'
  BY <1>8 DEF loopVars
<1>9. ASSUME NEW r \in Requests, ChatStarts(r) PROVE LimitsInv'
  BY <1>9, <1>1, <1>2 DEF ChatStarts, ChatOpens, ChatContinues, ChatRefused
<1>10. CASE \/ \E a \in Analyses : AnalysisGoes(a)
            \/ \E r \in Requests : TurnTimesOut(r) \/ TimePasses(r)
            \/ CloseBegins \/ CloseEnds
  BY <1>10, <1>8 DEF AnalysisGoes, TurnTimesOut, TimePasses, CloseBegins, CloseEnds, loopVars
<1> QED  BY <1>5, <1>6, <1>7, <1>9, <1>10 DEF Next

RegistryInv ==
    /\ analysis \in [Analyses -> {"current", "gone"}]
    /\ closing \in {"no", "waiting", "done"}
    /\ sessions \in Seq(Requests)
    /\ spoken \subseteq Requests /\ idle \subseteq Requests
    /\ ListedWhileBusy

\* Pruning spares the conversations that are in a turn.
LEMMA PrunedKeeps ==
    ASSUME RegistryInv, closing = "no", busy \subseteq Requests
    PROVE  /\ Pruned \in Seq(Requests) /\ busy \subseteq ToSet(Pruned)
           /\ ToSet(Pruned) \subseteq Kept
<1> DEFINE S == busy \cup (Requests \ idle)
<1>1. sessions \in Seq(Requests) /\ busy \subseteq ToSet(sessions)
  BY DEF RegistryInv, ListedWhileBusy, Kept
<1> HIDE DEF S
<1>2. Only(sessions, S) \in Seq(Requests \cap S) /\ ToSet(Only(sessions, S)) = ToSet(sessions) \cap S
  BY <1>1, OnlyType, OnlyToSet
<1>3. Only(sessions, S) \in Seq(Requests)
  BY <1>2, SeqMonotonic
<1> QED BY <1>1, <1>2, <1>3 DEF S, Pruned, Kept

\* So does the eviction of the oldest conversation without a turn.
LEMMA EvictedKeeps ==
    ASSUME NEW kept \in Seq(Requests), CanEvict(kept), busy \subseteq ToSet(kept)
    PROVE  /\ Evicted(kept) \in Seq(Requests)
           /\ busy \subseteq ToSet(Evicted(kept))
<1> DEFINE Free(i) == i \in DOMAIN kept /\ kept[i] \notin busy
           Oldest(i) == /\ kept[i] \notin busy /\ \A k \in 1..(i - 1) : kept[k] \in busy
           first == CHOOSE i \in DOMAIN kept : Oldest(i)
<1>1. CASE Len(kept) < MaxSessions
  BY <1>1 DEF Evicted
<1>2. CASE ~(Len(kept) < MaxSessions)
  <2>1. DOMAIN kept = 1..Len(kept) /\ Len(kept) \in Nat
    OBVIOUS
  <2>2. \E i \in DOMAIN kept : kept[i] \notin busy
    BY <1>2 DEF CanEvict, ToSet
  <2>3. \E i \in DOMAIN kept : Oldest(i)
    <3> DEFINE T == {i \in 1..Len(kept) : kept[i] \notin busy}
    <3>1. T \in SUBSET Nat /\ T # {}
      BY <2>1, <2>2
    <3> HIDE DEF T
    <3>2. PICK i \in T : \A k \in T : i <= k
      BY <3>1, NatOrder
    <3> QED BY <2>1, <3>2 DEF T
  <2> HIDE DEF Oldest
  <2>4. first \in DOMAIN kept /\ Oldest(first)
    BY <2>3
  <2>5. Evicted(kept) = RemoveAt(kept, first)
    BY <1>2 DEF Evicted, Oldest
  <2> HIDE DEF first
  <2>6. /\ RemoveAt(kept, first) \in Seq(Requests)
        /\ ToSet(kept) \ {kept[first]} \subseteq ToSet(RemoveAt(kept, first))
    BY <2>1, <2>4, RemoveAtSequence
  <2> QED BY <2>4, <2>5, <2>6 DEF Oldest
<1> QED BY <1>1, <1>2

LEMMA RefreshedKeeps ==
    ASSUME RegistryInv, NEW c \in Requests, NEW said \in BOOLEAN
    PROVE  /\ Refreshed(c, said) \in Seq(Requests)
           /\ Kept \ {c} \subseteq ToSet(Refreshed(c, said))
           /\ sessions = <<>> => Refreshed(c, said) = <<>>
<1> DEFINE S == Requests \ {c}
<1>1. sessions \in Seq(Requests) /\ Kept \subseteq Requests
  BY DEF RegistryInv, Kept, ToSet
<1> HIDE DEF S
<1>2. /\ Only(sessions, S) \in Seq(Requests \cap S)
      /\ ToSet(Only(sessions, S)) = Kept \cap S
      /\ Len(Only(sessions, S)) <= Len(sessions)
  BY <1>1, OnlyType, OnlyToSet, OnlyShorter DEF Kept
<1>3. Without(c) \in Seq(Requests) /\ ToSet(Without(c)) = Kept \cap S
  BY <1>2, SeqMonotonic DEF Without, S
<1>4. Append(Without(c), c) \in Seq(Requests) /\ ToSet(Append(Without(c), c)) = (Kept \cap S) \cup {c}
  BY <1>3, AppendToSet
<1>5. ASSUME sessions = <<>> PROVE Refreshed(c, said) = <<>>
  <2>1. Len(sessions) = 0 /\ Kept = {}
    BY <1>5 DEF Kept, ToSet
  <2>2. Len(Without(c)) <= 0
    BY <1>2, <2>1 DEF Without, S
  <2>3. Without(c) = <<>>
    BY <1>3, <2>2, EmptySeq
  <2> QED BY <2>1, <2>3 DEF Refreshed
<1>6. /\ Refreshed(c, said) \in Seq(Requests)
      /\ Kept \cap S \subseteq ToSet(Refreshed(c, said))
  BY <1>3, <1>4, Zenon DEF Refreshed
<1> QED BY <1>1, <1>5, <1>6 DEF S

LEMMA RegistryStep ==
    ASSUME AgentInv, RegistryInv, Next PROVE RegistryInv'
<1> DEFINE Rest == /\ analysis \in [Analyses -> {"current", "gone"}]
                   /\ closing \in {"no", "waiting", "done"}
                   /\ spoken \subseteq Requests /\ idle \subseteq Requests
<1>0. busy \subseteq Requests
  BY DEF AgentInv, TalkInv
<1>1. ASSUME NEW r \in Requests, NEW a \in Analyses, ChatOpens(r, a) PROVE RegistryInv'
  <2>1. /\ closing = "no" /\ CanEvict(Pruned) /\ Admitted(r, r)
        /\ sessions' = Append(Evicted(Pruned), r)
    BY <1>1 DEF ChatOpens
  <2>2. Evicted(Pruned) \in Seq(Requests) /\ busy \subseteq ToSet(Evicted(Pruned))
    BY <1>0, <2>1, PrunedKeeps, EvictedKeeps
  <2>3. sessions' \in Seq(Requests) /\ busy \cup {r} \subseteq ToSet(sessions')
    BY <2>1, <2>2, AppendToSet
  <2> QED BY <2>1, <2>3 DEF Admitted, RegistryInv, ListedWhileBusy, Kept
<1>2. ASSUME NEW r \in Requests, NEW c \in Requests, NEW a \in Analyses, ChatContinues(r, c, a)
      PROVE  RegistryInv'
  <2>1. /\ closing = "no" /\ c \in ToSet(Pruned) /\ Admitted(r, c)
        /\ sessions' = Pruned
    BY <1>2 DEF ChatContinues, CanContinue
  <2>2. Pruned \in Seq(Requests) /\ busy \subseteq ToSet(Pruned)
    BY <1>0, <2>1, PrunedKeeps
  <2> QED BY <2>1, <2>2 DEF Admitted, RegistryInv, ListedWhileBusy, Kept
<1>3. ASSUME NEW r \in Requests, NEW c, NEW a \in Analyses, ChatRefused(r, c, a)
      PROVE  RegistryInv'
  <2>1. CASE Refused(r, sessions)
    BY <2>1 DEF Refused, RegistryInv, ListedWhileBusy, Kept
  <2>2. CASE closing = "no" /\ Refused(r, Pruned)
    <3>1. Pruned \in Seq(Requests) /\ busy \subseteq ToSet(Pruned)
      BY <1>0, <2>2, PrunedKeeps
    <3> QED BY <2>2, <3>1 DEF Refused, RegistryInv, ListedWhileBusy, Kept
  <2> QED BY <1>3, <2>1, <2>2 DEF ChatRefused
<1>4. ASSUME NEW r \in Requests, ChatResumes(r) PROVE RegistryInv'
  <2>1. talk[r] \in Requests
    BY <1>4 DEF ChatResumes, AgentInv, SlotsInv, TalkInv
  <2> DEFINE c == talk[r]
             said == c \in spoken'
  <2>2. /\ spoken' = IF turn[r] = "replied" THEN spoken \cup {c} ELSE spoken
        /\ sessions' = Refreshed(c, said)
        /\ busy' = busy \ {c} /\ idle' = idle \ {c}
        /\ UNCHANGED <<analysis, closing>>
    BY <1>4 DEF ChatResumes
  <2>3. said \in BOOLEAN /\ c \in Requests
    BY <2>1
  <2> HIDE DEF said, c
  <2>4. /\ Refreshed(c, said) \in Seq(Requests)
        /\ Kept \ {c} \subseteq ToSet(Refreshed(c, said))
        /\ sessions = <<>> => Refreshed(c, said) = <<>>
    BY <2>3, RefreshedKeeps
  <2>5. ListedWhileBusy'
    BY <2>2, <2>4 DEF RegistryInv, ListedWhileBusy, Kept
  <2>6. spoken' \subseteq Requests /\ idle' \subseteq Requests
    BY <2>2, <2>3 DEF RegistryInv
  <2> QED BY <2>2, <2>4, <2>5, <2>6 DEF RegistryInv
<1>5. ASSUME UNCHANGED <<analysis, sessionVars, closing>> PROVE RegistryInv'
  BY <1>5 DEF sessionVars, RegistryInv, ListedWhileBusy, Kept
<1>6. ASSUME NEW r \in Requests, TurnGoesOn(r) PROVE RegistryInv'
  BY <1>6, <1>5 DEF TurnGoesOn, ModelFails, ModelReplies, ModelCallsTools, RouteReturns,
                    CutEnds, CutAbsorbed, Ends, Executes
<1>7. ASSUME NEW r \in Requests, TurnTimesOut(r) \/ Disconnect(r) PROVE RegistryInv'
  BY <1>7, <1>5 DEF TurnTimesOut, Disconnect
<1>8. ASSUME NEW a \in Analyses, AnalysisGoes(a) PROVE RegistryInv'
  BY <1>8 DEF AnalysisGoes, sessionVars, RegistryInv, ListedWhileBusy, Kept
<1>9. ASSUME NEW r \in Requests, TimePasses(r) PROVE RegistryInv'
  BY <1>9 DEF TimePasses, RegistryInv, ListedWhileBusy, Kept
<1>10. CASE CloseBegins
  BY <1>10 DEF CloseBegins, sessionVars, RegistryInv, ListedWhileBusy, Kept
<1>11. CASE CloseEnds
  BY <1>11 DEF CloseEnds, RegistryInv, ListedWhileBusy, Kept
<1> QED
  BY <1>1, <1>2, <1>3, <1>4, <1>6, <1>7, <1>8, <1>9, <1>10, <1>11 DEF Next, ChatStarts

LEMMA RegistryInvariant == Spec => [](LimitsInv /\ RegistryInv)
<1>1. Init => LimitsInv /\ RegistryInv
  BY AgentAssumption DEF Init, LimitsInv, RegistryInv, ListedWhileBusy, AgentAssumption, Live, Kept
<1>2. AgentInv /\ CutInv /\ LimitsInv /\ RegistryInv /\ [Next]_vars => (LimitsInv /\ RegistryInv)'
  <2> SUFFICES ASSUME AgentInv, CutInv, LimitsInv, RegistryInv, [Next]_vars
               PROVE  (LimitsInv /\ RegistryInv)'
    OBVIOUS
  <2>1. CASE Next
    BY <2>1, LimitsStep, RegistryStep
  <2>2. CASE UNCHANGED vars
    BY <2>2 DEF vars, sessionVars, loopVars, LimitsInv, RegistryInv, ListedWhileBusy, Kept
  <2> QED  BY <2>1, <2>2
<1> QED  BY <1>1, <1>2, AgentInvariant, PTL DEF Spec

\* The registry is well-formed and lists every conversation in the middle of a
\* turn, until the runtime closes; then it lists none (_prune, the eviction in
\* chat(), its finally clause, close()).
THEOREM ConversationsAreKept == Spec => []ConversationsKept
<1>1. AgentInv /\ CutInv /\ LimitsInv /\ RegistryInv => ConversationsKept
  BY DEF AgentInv, AgentType, SlotsInv, TalkInv, CutInv, LimitsInv, RegistryInv, ConversationsKept,
         TypeOK, Turns
<1> QED  BY <1>1, AgentInvariant, RegistryInvariant, PTL
----------------------------------------------------------------------------
(* The tools.  What holds of the tools of a turn after each of its steps:  *)
(* the references are of this analysis, each once; a facility of which a   *)
(* route is known has a walking time; the routes under way, the comparison *)
(* under way, and the last comparison are about the right facilities.      *)

Comparisons == [selected : known \cup {Nowhere}, partial : BOOLEAN, of : SUBSET known]

ToolsTyped(t) ==
    t \in [pc : {"idle", "deciding", "looking", "looked", "comparing", "replied"},
           calls : Nat, routes : SUBSET known, failed : SUBSET known,
           refs : Seq(known), shown : known \cup {Nowhere}, compared : Seq(Comparisons),
           asked : known \cup {Nowhere}, left : Seq(known), tried : Nat,
           available : SUBSET known, wanted : known \cup {Nowhere},
           reply : [given : BOOLEAN, about : known \cup {Nowhere},
                    claim : {"none", "fastest of all", "fastest of those tried"}]]

Mentionable(refs) == refs \in Seq(known) /\ Distinct(refs) /\ Len(refs) <= MaxFacilities

Placed(t) ==
    /\ t.pc \in {"idle", "deciding", "replied"} => t.asked = Nowhere
    /\ t.pc \in {"looking", "looked"} =>
          /\ t.asked # Nowhere /\ t.wanted = t.asked /\ t.shown = Nowhere
          /\ t.compared # <<>> => t.compared[1].selected = t.asked
    /\ t.pc = "comparing" =>
          /\ t.wanted = Nowhere /\ t.shown = Nowhere /\ t.compared = <<>>
          /\ ToSet(t.left) \cup t.available \cup {t.asked} \subseteq Medical \cup {Nowhere}
          /\ t.available \subseteq t.routes

Shows(t) ==
    t.shown # Nowhere =>
        /\ t.shown \in t.routes
        /\ t.wanted \in {t.shown, Nowhere}
        /\ t.compared # <<>> => t.compared[1].selected = t.shown
        /\ t.compared = <<>> => t.wanted = t.shown

\* A comparison tells the truth.
Compares(t) ==
    t.compared # <<>> =>
        LET c == t.compared[1] IN
        /\ c.of \subseteq t.routes
        /\ c.selected # Nowhere => \A p \in c.of : walk[c.selected] <= walk[p]
        /\ ~c.partial => known \cap Medical \subseteq c.of

RepliesSo(t) ==
    /\ t.pc = "replied" => t.reply = ReplyOf(t)
    /\ t.pc # "replied" => t.reply = NoReply

ToolsSound(t) ==
    /\ ToolsTyped(t) /\ Mentionable(t.refs)
    /\ \A p \in t.routes : walk[p] \in Times
    /\ Placed(t) /\ Shows(t) /\ Compares(t) /\ RepliesSo(t)

SubjectInv ==
    /\ mode \in {"synthetic", "real"}
    /\ known \subseteq Pois
    /\ known = {} => tools = NewTools /\ hand = <<>>
    /\ known # {} => walk \in [known -> IF mode = "real" THEN Times ELSE Times \cup {NoWay}]

ToolsInv == SubjectInv /\ Mentionable(hand) /\ ToolsSound(tools)
LEMMA EmptyMentionable == Mentionable(<<>>) /\ Mentionable(<<>>)'
<1>1. <<>> \in Seq(known) /\ <<>> \in Seq(known') /\ Len(<<>>) = 0
  OBVIOUS
<1>2. 0 <= MaxFacilities
  BY ToolsAssumption DEF ToolsAssumption
<1> QED BY <1>1, <1>2 DEF Mentionable, Distinct

LEMMA NewToolsSound == ToolsSound(NewTools) /\ ToolsSound(NewTools)'
<1>1. NewTools.refs = <<>> /\ NewTools.pc = "idle" /\ NewTools.routes = {} /\ NewTools.reply = NoReply
      /\ NewTools.shown = Nowhere /\ NewTools.compared = <<>> /\ NewTools.asked = Nowhere
  BY DEF NewTools
<1>2. Mentionable(NewTools.refs) /\ Mentionable(NewTools.refs)'
  BY <1>1, EmptyMentionable DEF NewTools
<1>3. ToolsTyped(NewTools) /\ ToolsTyped(NewTools)'
  BY DEF ToolsTyped, NewTools, NoReply, Comparisons
<1>4. /\ Placed(NewTools) /\ Shows(NewTools) /\ Compares(NewTools) /\ RepliesSo(NewTools)
      /\ (Placed(NewTools) /\ Shows(NewTools) /\ Compares(NewTools) /\ RepliesSo(NewTools))'
  BY <1>1 DEF Placed, Shows, Compares, RepliesSo
<1> QED BY <1>1, <1>2, <1>3, <1>4 DEF ToolsSound

\* A step of the tools keeps the invariant if it leaves them sound.
LEMMA ToolsStepKeeps ==
    ASSUME ToolsInv, UNCHANGED <<subject, hand>>, known # {}, NEW t, tools' = t, ToolsSound(t)
    PROVE  ToolsInv'
<1>1. ToolsSound(tools)'
  <2>1. known' = known /\ walk' = walk
    BY DEF subject
  <2>2. ToolsTyped(tools)'
    BY <2>1 DEF ToolsSound, ToolsTyped, Comparisons
  <2>3. Mentionable(tools.refs)'
    BY <2>1 DEF ToolsSound, Mentionable
  <2>4. (\A p \in tools.routes : walk[p] \in Times)'
    BY <2>1 DEF ToolsSound
  <2>5. Placed(tools)' /\ Shows(tools)' /\ Compares(tools)'
    BY <2>1 DEF ToolsSound, Placed, Shows, Compares
  <2>6. RepliesSo(tools)'
    BY <2>1 DEF ToolsSound, RepliesSo
  <2> QED BY <2>2, <2>3, <2>4, <2>5, <2>6 DEF ToolsSound
<1>2. SubjectInv'
  BY DEF subject, ToolsInv, SubjectInv
<1>3. Mentionable(hand)'
  BY DEF subject, ToolsInv, Mentionable
<1> QED BY <1>1, <1>2, <1>3 DEF ToolsInv

LEMMA Underway == ASSUME ToolsInv, tools.pc # "idle" PROVE known # {}
BY DEF ToolsInv, SubjectInv, NewTools

----------------------------------------------------------------------------
(* The references.                                                         *)

LEMMA LastOfKeeps ==
    ASSUME NEW U, NEW s \in Seq(U), NEW n \in Nat \ {0}, Distinct(s)
    PROVE  LastOf(s, n) \in Seq(U) /\ Distinct(LastOf(s, n)) /\ Len(LastOf(s, n)) <= n
<1>1. CASE Len(s) > n
  <2>1. Len(s) - n + 1 \in 1..(Len(s) + 1) /\ Len(s) \in 0..Len(s)
    BY <1>1
  <2>2. LastOf(s, n) = SubSeq(s, Len(s) - n + 1, Len(s))
    BY <1>1 DEF LastOf
  <2>3. LastOf(s, n) \in Seq(U)
    BY <2>1, <2>2, SubSeqToSet
  <2>4. Distinct(LastOf(s, n))
    BY <2>1, <2>2, SubSeqDistinct
  <2>5. Len(LastOf(s, n)) = n
    BY <1>1, <2>2
  <2> QED BY <2>3, <2>4, <2>5
<1>2. CASE ~(Len(s) > n)
  BY <1>2 DEF LastOf
<1> QED BY <1>1, <1>2

LEMMA RenewedMentionable ==
    ASSUME known \subseteq Pois, NEW refs, Mentionable(refs), NEW p \in known
    PROVE  Mentionable(Renewed(refs, p))
<1> DEFINE S == Pois \ {p}
           rest == Only(refs, S)
<1>1. refs \in Seq(known) /\ Distinct(refs) /\ p \notin S
  BY DEF Mentionable
<1> HIDE DEF S
<1>2. rest \in Seq(known \cap S) /\ Elements(rest) = Elements(refs) \cap S /\ Distinct(rest)
  BY <1>1, OnlyType, OnlyElements, OnlyDistinct
<1>3. rest \in Seq(known) /\ p \notin Elements(rest)
  BY <1>1, <1>2, SeqMonotonic
<1> HIDE DEF rest
<1>4. Append(rest, p) \in Seq(known) /\ Distinct(Append(rest, p))
  BY <1>2, <1>3, AppendDistinct, AppendProperties
<1>5. MaxFacilities \in Nat \ {0}
  BY ToolsAssumption DEF ToolsAssumption
<1> QED BY <1>4, <1>5, LastOfKeeps DEF Mentionable, Renewed, rest, S

LEMMA MentionedMentionable ==
    ASSUME known \subseteq Pois, NEW refs, Mentionable(refs), NEW list \in Seq(known)
    PROVE  Mentionable(Mentioned(refs, list))
<1> DEFINE n == Len(list)
           X == {x \in Seq(known) : Mentionable(x)}
           step == [i \in 1..n |-> [x \in X |-> Renewed(x, list[i])]]
           body(f) == [i \in 0..n |-> IF i = 0 THEN refs ELSE Renewed(f[i - 1], list[i])]
           after == CHOOSE f : f = body(f)
<1>0. n \in Nat /\ \A i \in 1..n : list[i] \in known
  OBVIOUS
<1>a. \A x \in X : \A p \in known : Renewed(x, p) \in X
  BY RenewedMentionable DEF Mentionable
<1>b. refs \in X
  BY DEF Mentionable
<1>c. Mentioned(refs, list) = after[n]
  BY DEF Mentioned
<1> HIDE DEF n, X
<1>1. step \in [1..n -> [X -> X]]
  BY <1>0, <1>a
<1> HIDE DEF step
<1>2. PICK f \in [0..n -> X] : f[0] = refs /\ \A i \in 1..n : f[i] = step[i][f[i - 1]]
  <2> DEFINE x0 == refs
  <2>1. x0 \in X /\ n \in Nat /\ step \in [1..n -> [X -> X]]
    BY <1>0, <1>b, <1>1
  <2> HIDE DEF x0
  <2>2. \E f \in [0..n -> X] : f[0] = x0 /\ \A i \in 1..n : f[i] = step[i][f[i - 1]]
    BY <2>1, Recursion
  <2> QED BY <2>2 DEF x0
<1>3. ASSUME NEW i \in 1..n PROVE f[i] = Renewed(f[i - 1], list[i])
  <2>1. f[i - 1] \in X
    BY <1>0
  <2> QED BY <1>2, <2>1 DEF step
<1>4. f = body(f)
  BY <1>0, <1>2, <1>3
<1>5. after = body(after)
  <2> HIDE DEF body
  <2> QED BY <1>4
<1> HIDE DEF after
<1>6. after[0] = refs /\ \A i \in 1..n : after[i] = Renewed(after[i - 1], list[i])
  BY <1>0, <1>5
<1> DEFINE T == {i \in 0..n : after[i] \in X}
<1>7. 0 \in T
  BY <1>0, <1>b, <1>6
<1>8. ASSUME NEW i \in 1..n, i - 1 \in T PROVE i \in T
  <2>1. after[i - 1] \in X /\ list[i] \in known
    BY <1>0, <1>8
  <2>2. after[i] = Renewed(after[i - 1], list[i])
    BY <1>6
  <2>3. after[i] \in X
    BY <1>a, <2>1, <2>2
  <2> QED BY <1>0, <2>3
<1> HIDE DEF T
<1>9. 0..n \subseteq T
  BY <1>0, <1>7, <1>8, InductTo
<1>10. n \in T
  BY <1>0, <1>9
<1> QED BY <1>c, <1>10 DEF T, X

LEMMA FirstOfKeeps ==
    ASSUME NEW U, NEW s \in Seq(U), NEW n \in Nat
    PROVE  FirstOf(s, n) \in Seq(U)
<1>1. CASE Len(s) > n
  <2>1. 1 \in 1..(Len(s) + 1) /\ n \in 0..Len(s)
    BY <1>1
  <2> QED BY <1>1, <2>1, SubSeqToSet DEF FirstOf
<1>2. CASE ~(Len(s) > n)
  BY <1>2 DEF FirstOf
<1> QED BY <1>1, <1>2

\* Nothing else depends on the references.
LEMMA RefsChange ==
    ASSUME NEW t, ToolsSound(t), NEW refs, Mentionable(refs)
    PROVE  ToolsSound([t EXCEPT !.refs = refs])
<1> DEFINE u == [t EXCEPT !.refs = refs]
<1>1. /\ u.pc = t.pc /\ u.calls = t.calls /\ u.routes = t.routes /\ u.failed = t.failed
      /\ u.refs = refs /\ u.shown = t.shown /\ u.compared = t.compared /\ u.asked = t.asked
      /\ u.left = t.left /\ u.tried = t.tried /\ u.available = t.available /\ u.wanted = t.wanted
      /\ u.reply = t.reply
  BY DEF ToolsSound, ToolsTyped
<1>2. ToolsTyped(u)
  BY DEF ToolsSound, ToolsTyped, Mentionable
<1> HIDE DEF u
<1>3. Placed(u) /\ Shows(u) /\ Compares(u)
  BY <1>1 DEF ToolsSound, Placed, Shows, Compares
<1>4. RepliesSo(u)
  BY <1>1 DEF ToolsSound, RepliesSo, ReplyOf
<1> QED BY <1>1, <1>2, <1>3, <1>4 DEF ToolsSound, u

LEMMA PublishSound ==
    ASSUME known \subseteq Pois, NEW t, ToolsSound(t), NEW p \in known
    PROVE  ToolsSound(Publish(t, p))
BY RenewedMentionable, RefsChange DEF Publish, ToolsSound
----------------------------------------------------------------------------
(* The steps of the tools.                                                 *)

LEMMA CandidatesFit ==
    ASSUME known \subseteq Pois
    PROVE  /\ Candidates \in Seq(known) /\ ToSet(Candidates) = known \cap Medical
           /\ IsFiniteSet(known \cap Medical) /\ Cardinality(known \cap Medical) = Len(Candidates)
<1>1. /\ Nearby \in Seq(Pois) /\ Cardinality(ToSet(Nearby)) = Len(Nearby)
  BY ToolsAssumption DEF ToolsAssumption, Medical
<1>2. Distinct(Nearby)
  BY <1>1, CardDistinct
<1>3. /\ Candidates \in Seq(Pois \cap known) /\ ToSet(Candidates) = ToSet(Nearby) \cap known
      /\ Distinct(Candidates)
  BY <1>1, <1>2, OnlyType, OnlyToSet, OnlyDistinct DEF Candidates
<1>4. Candidates \in Seq(known)
  BY <1>3, SeqMonotonic
<1>5. ToSet(Candidates) = Elements(Candidates)
  BY <1>4, ToSetElements
<1>6. IsFiniteSet(Elements(Candidates)) /\ Cardinality(Elements(Candidates)) = Len(Candidates)
  BY <1>3, <1>4, DistinctCard
<1>7. ToSet(Candidates) = known \cap Medical
  BY <1>3 DEF Medical
<1> QED BY <1>4, <1>5, <1>6, <1>7

LEMMA CountedSound == ASSUME ToolsSound(tools) PROVE ToolsSound(Counted)
<1> DEFINE u == Counted
<1>1. /\ u.pc = tools.pc /\ u.routes = tools.routes /\ u.failed = tools.failed
      /\ u.refs = tools.refs /\ u.shown = tools.shown /\ u.compared = tools.compared
      /\ u.asked = tools.asked /\ u.left = tools.left /\ u.tried = tools.tried
      /\ u.available = tools.available /\ u.wanted = tools.wanted /\ u.reply = tools.reply
  BY DEF ToolsSound, ToolsTyped, Counted
<1>2. ToolsTyped(u)
  <2>1. tools.calls \in Nat
    BY DEF ToolsSound, ToolsTyped
  <2> DEFINE n == tools.calls + 1
  <2>2. n \in Nat /\ u = [tools EXCEPT !.calls = n]
    BY <2>1 DEF Counted
  <2> HIDE DEF n, u
  <2> QED BY <2>2 DEF ToolsSound, ToolsTyped
<1> HIDE DEF u
<1>3. Placed(u) /\ Shows(u) /\ Compares(u)
  BY <1>1 DEF ToolsSound, Placed, Shows, Compares
<1>4. RepliesSo(u)
  BY <1>1 DEF ToolsSound, RepliesSo, ReplyOf
<1> QED BY <1>1, <1>2, <1>3, <1>4 DEF ToolsSound, u

LEMMA FailedSound ==
    ASSUME NEW t, ToolsSound(t), NEW failed \in SUBSET known
    PROVE  ToolsSound([t EXCEPT !.failed = failed])
<1> DEFINE u == [t EXCEPT !.failed = failed]
<1>1. /\ u.pc = t.pc /\ u.calls = t.calls /\ u.routes = t.routes /\ u.failed = failed
      /\ u.refs = t.refs /\ u.shown = t.shown /\ u.compared = t.compared /\ u.asked = t.asked
      /\ u.left = t.left /\ u.tried = t.tried /\ u.available = t.available /\ u.wanted = t.wanted
      /\ u.reply = t.reply
  BY DEF ToolsSound, ToolsTyped
<1>2. ToolsTyped(u)
  BY DEF ToolsSound, ToolsTyped
<1> HIDE DEF u
<1>3. Placed(u) /\ Shows(u) /\ Compares(u)
  BY <1>1 DEF ToolsSound, Placed, Shows, Compares
<1>4. RepliesSo(u)
  BY <1>1 DEF ToolsSound, RepliesSo, ReplyOf
<1> QED BY <1>1, <1>2, <1>3, <1>4 DEF ToolsSound, u

LEMMA RouteFound ==
    ASSUME known \subseteq Pois, NEW t, ToolsSound(t), NEW p \in known, walk[p] \in Times
    PROVE  ToolsSound([t EXCEPT !.routes = @ \cup {p}])
<1> DEFINE u == [t EXCEPT !.routes = @ \cup {p}]
<1>1. /\ u.pc = t.pc /\ u.calls = t.calls /\ u.routes = t.routes \cup {p} /\ u.failed = t.failed
      /\ u.refs = t.refs /\ u.shown = t.shown /\ u.compared = t.compared /\ u.asked = t.asked
      /\ u.left = t.left /\ u.tried = t.tried /\ u.available = t.available /\ u.wanted = t.wanted
      /\ u.reply = t.reply
  BY DEF ToolsSound, ToolsTyped
<1>2. ToolsTyped(u)
  BY DEF ToolsSound, ToolsTyped
<1> HIDE DEF u
<1>3. Placed(u) /\ Shows(u) /\ Compares(u)
  BY <1>1 DEF ToolsSound, Placed, Shows, Compares
<1>4. RepliesSo(u)
  BY <1>1 DEF ToolsSound, RepliesSo, ReplyOf
<1> QED BY <1>1, <1>2, <1>3, <1>4 DEF ToolsSound, u

\* A route is found only to a facility that has a walking time.
LEMMA ReadyHasTime ==
    ASSUME SubjectInv, NEW p \in known, "ready" \in Outcomes(p)
    PROVE  walk[p] \in Times
<1>1. walk \in [known -> IF mode = "real" THEN Times ELSE Times \cup {NoWay}]
  BY DEF SubjectInv
<1>2. CASE mode = "real"
  BY <1>1, <1>2
<1>3. CASE mode # "real"
  <2>1. walk[p] # NoWay
    BY <1>3 DEF Outcomes, StoreOutcomes
  <2> QED BY <1>1, <1>3, <2>1
<1> QED BY <1>2, <1>3

LEMMA FastestIsFastest ==
    ASSUME NEW set, set # {}, \A p \in set : walk[p] \in Times
    PROVE  Fastest(set) \in set /\ \A q \in set : walk[Fastest(set)] <= walk[q]
<1> DEFINE T == {walk[p] : p \in set}
<1>1. T \in SUBSET Nat /\ T # {}
  BY ToolsAssumption DEF ToolsAssumption
<1> HIDE DEF T
<1>2. PICK x \in T : \A y \in T : x <= y
  BY <1>1, NatOrder
<1>3. \E p \in set : \A q \in set : walk[p] <= walk[q]
  BY <1>2 DEF T
<1> QED BY <1>3 DEF Fastest

\* A comparison that is not partial has a route to every candidate: as many
\* candidates as there are cannot leave one out.
LEMMA WholeComparison ==
    ASSUME known \subseteq Pois, NEW t, t.tried \in Nat, t.available \subseteq known \cap Medical,
           ~Partial(t)
    PROVE  known \cap Medical \subseteq t.available
<1>1. /\ IsFiniteSet(known \cap Medical)
      /\ Cardinality(known \cap Medical) = Len(Candidates) /\ Len(Candidates) \in Nat
  BY CandidatesFit
<1>2. /\ IsFiniteSet(t.available) /\ Cardinality(t.available) \in Nat
      /\ Cardinality(t.available) <= Cardinality(known \cap Medical)
      /\ Cardinality(known \cap Medical) = Cardinality(t.available) => known \cap Medical = t.available
  <2>1. t.available \in SUBSET (known \cap Medical)
    OBVIOUS
  <2>2. IsFiniteSet(t.available)
    BY <1>1, <2>1, FS_Subset
  <2> QED BY <1>1, <2>1, <2>2, FS_Subset, FS_CardinalityType
<1>3. t.tried >= Len(Candidates) /\ Cardinality(t.available) >= t.tried
  BY <1>1, <1>2 DEF Partial
<1> QED BY <1>1, <1>2, <1>3

LEMMA ConcludedSound ==
    ASSUME known \subseteq Pois, NEW t, ToolsSound(t), t.pc = "comparing"
    PROVE  ToolsSound(Concluded(t))
<1> DEFINE selected == IF t.available = {} THEN Nowhere ELSE Fastest(t.available)
           c == [selected |-> selected, partial |-> Partial(t), of |-> t.available]
           u == [t EXCEPT !.pc = "deciding", !.shown = selected, !.asked = Nowhere,
                          !.left = <<>>, !.tried = 0, !.available = {}, !.compared = <<c>>]
<1>0. Nowhere \notin known
  BY ToolsAssumption DEF ToolsAssumption
<1>1. /\ t.available \subseteq t.routes /\ t.available \subseteq known \cap Medical
      /\ \A p \in t.available : walk[p] \in Times
      /\ t.wanted = Nowhere /\ t.tried \in Nat
  BY <1>0 DEF ToolsSound, ToolsTyped, Placed
<1>2. /\ selected \in known \cup {Nowhere}
      /\ selected # Nowhere => selected \in t.available /\ \A p \in t.available : walk[selected] <= walk[p]
  <2>1. CASE t.available = {}
    BY <2>1
  <2>2. CASE t.available # {}
    <3>1. /\ Fastest(t.available) \in t.available
          /\ \A p \in t.available : walk[Fastest(t.available)] <= walk[p]
      BY <1>1, <2>2, FastestIsFastest
    <3> QED BY <1>1, <2>2, <3>1
  <2> QED BY <2>1, <2>2
<1>3. Concluded(t) = IF selected = Nowhere THEN u ELSE Publish(u, selected)
  BY DEF Concluded
<1>4. ~Partial(t) => known \cap Medical \subseteq t.available
  BY <1>1, WholeComparison
<1>5. Partial(t) \in BOOLEAN
  BY DEF Partial
<1> HIDE DEF selected
<1>6. c \in Comparisons
  BY <1>1, <1>2, <1>5 DEF Comparisons
<1>7. c.selected = selected /\ c.of = t.available /\ c.partial = Partial(t)
  OBVIOUS
<1> HIDE DEF c
<1>8. <<c>> \in Seq(Comparisons) /\ <<c>>[1] = c /\ <<c>> # <<>>
  BY <1>6
<1>9. /\ u.pc = "deciding" /\ u.calls = t.calls /\ u.routes = t.routes /\ u.failed = t.failed
      /\ u.refs = t.refs /\ u.shown = selected /\ u.compared = <<c>> /\ u.asked = Nowhere
      /\ u.left = <<>> /\ u.tried = 0 /\ u.available = {} /\ u.wanted = t.wanted
      /\ u.reply = t.reply
  BY DEF ToolsSound, ToolsTyped
<1>10. ToolsTyped(u)
  <2>1. <<>> \in Seq(known)
    OBVIOUS
  <2> QED BY <1>2, <1>8, <2>1 DEF ToolsSound, ToolsTyped
<1> HIDE DEF u
<1>11. Placed(u) /\ Shows(u) /\ Compares(u)
  BY <1>1, <1>2, <1>4, <1>7, <1>8, <1>9 DEF Placed, Shows, Compares
<1>12. RepliesSo(u)
  BY <1>9 DEF ToolsSound, RepliesSo
<1>13. ToolsSound(u)
  BY <1>9, <1>10, <1>11, <1>12 DEF ToolsSound
<1> QED BY <1>2, <1>3, <1>13, PublishSound
LEMMA NewToolsSet == ASSUME tools' = NewTools PROVE ToolsSound(tools)'
<1>1. ToolsTyped(tools)'
  BY NewToolsSound DEF ToolsSound, ToolsTyped, Comparisons
<1>2. Mentionable(tools.refs)'
  BY NewToolsSound DEF ToolsSound, Mentionable
<1>3. (\A p \in tools.routes : walk[p] \in Times)'
  BY NewToolsSound DEF ToolsSound
<1>4. Placed(tools)' /\ Shows(tools)' /\ Compares(tools)'
  BY NewToolsSound DEF ToolsSound, Placed, Shows, Compares
<1>5. RepliesSo(tools)'
  BY NewToolsSound DEF ToolsSound, RepliesSo
<1> QED BY <1>1, <1>2, <1>3, <1>4, <1>5 DEF ToolsSound

LEMMA AnalysisThereKeeps == ASSUME ToolsInv, AnalysisThere PROVE ToolsInv'
<1>1. tools' = NewTools /\ hand' = <<>>
  BY DEF AnalysisThere, ToolsInv, SubjectInv
<1>2. SubjectInv'
  BY DEF AnalysisThere, SubjectInv
<1>3. ToolsSound(tools)'
  BY <1>1, NewToolsSet
<1>4. Mentionable(hand)'
  BY <1>1, EmptyMentionable DEF Mentionable
<1> QED BY <1>2, <1>3, <1>4 DEF ToolsInv

LEMMA TurnBeginsKeeps == ASSUME ToolsInv, TurnBegins PROVE ToolsInv'
<1> DEFINE refs == Only(hand, known)
           t == [NewTools EXCEPT !.pc = "deciding"]
           u == [t EXCEPT !.refs = refs]
<1>1. tools' = u /\ UNCHANGED <<subject, hand>> /\ known # {}
  BY DEF TurnBegins, NewTools
<1>2. ToolsSound(t)
  <2>1. t.pc = "deciding" /\ t.refs = NewTools.refs /\ t.routes = {} /\ t.reply = NoReply
        /\ t.shown = Nowhere /\ t.compared = <<>> /\ t.asked = Nowhere
    BY DEF NewTools
  <2>2. ToolsTyped(t)
    BY NewToolsSound DEF ToolsSound, ToolsTyped
  <2>3. Mentionable(t.refs)
    BY <2>1, NewToolsSound DEF ToolsSound
  <2> HIDE DEF t
  <2>4. Placed(t) /\ Shows(t) /\ Compares(t) /\ RepliesSo(t)
    BY <2>1 DEF Placed, Shows, Compares, RepliesSo
  <2> QED BY <2>1, <2>2, <2>3, <2>4 DEF ToolsSound
<1>3. Mentionable(refs)
  <2>1. hand \in Seq(known) /\ Distinct(hand) /\ Len(hand) <= MaxFacilities
    BY DEF ToolsInv, Mentionable
  <2>2. refs \in Seq(known \cap known) /\ Distinct(refs) /\ Len(refs) <= Len(hand)
    BY <2>1, OnlyType, OnlyDistinct, OnlyShorter
  <2>3. refs \in Seq(known)
    BY <2>2, SeqMonotonic
  <2>4. MaxFacilities \in Nat /\ Len(hand) \in Nat /\ Len(refs) \in Nat
    BY <2>1, <2>3, ToolsAssumption DEF ToolsAssumption
  <2> HIDE DEF refs
  <2> QED BY <2>1, <2>2, <2>3, <2>4 DEF Mentionable
<1> HIDE DEF t, refs
<1>4. ToolsSound(u)
  BY <1>2, <1>3, RefsChange
<1> HIDE DEF u
<1> QED BY <1>1, <1>4, ToolsStepKeeps

LEMMA ListsKeeps ==
    ASSUME ToolsInv, NEW matches \in SUBSET known, Lists(SetToSeq(matches))
    PROVE  ToolsInv'
<1> DEFINE list == FirstOf(SetToSeq(matches), MaxFacilities)
           refs == Mentioned(Counted.refs, list)
           u == [Counted EXCEPT !.refs = refs]
<1>1. tools' = u /\ UNCHANGED <<subject, hand>> /\ known # {}
  BY Underway DEF Lists, Called
<1>2. known \subseteq Pois /\ ToolsSound(tools)
  BY DEF ToolsInv, SubjectInv
<1>3. ToolsSound(Counted) /\ Mentionable(Counted.refs)
  BY <1>2, CountedSound DEF ToolsSound
<1>4. list \in Seq(known)
  <2>1. matches \in SUBSET Pois /\ IsFiniteSet(Pois) /\ MaxFacilities \in Nat
    BY <1>2, ToolsAssumption DEF ToolsAssumption
  <2>2. IsFiniteSet(matches)
    BY <2>1, FS_Subset
  <2>3. SetToSeq(matches) \in Seq(matches)
    BY <2>2, SetToSeqOrders
  <2>4. SetToSeq(matches) \in Seq(known)
    BY <2>3, SeqMonotonic
  <2> QED BY <2>1, <2>4, FirstOfKeeps
<1> HIDE DEF list
<1>5. Mentionable(refs)
  BY <1>2, <1>3, <1>4, MentionedMentionable
<1> HIDE DEF refs
<1>6. ToolsSound(u)
  BY <1>3, <1>5, RefsChange
<1> HIDE DEF u
<1> QED BY <1>1, <1>6, ToolsStepKeeps

LEMMA CallsRouteKeeps == ASSUME ToolsInv, NEW p \in Pois, CallsRoute(p) PROVE ToolsInv'
<1> DEFINE place == IF p \in tools.routes \cup tools.failed THEN "looked" ELSE "looking"
           u == [Counted EXCEPT !.pc = place, !.shown = Nowhere, !.compared = ComparisonFor(p),
                                !.asked = p, !.wanted = p]
<1>1. /\ tools' = u /\ UNCHANGED <<subject, hand>> /\ known # {} /\ p \in known
      /\ tools.pc = "deciding" /\ place \in {"looked", "looking"}
  BY Underway DEF CallsRoute, Called
<1>2. ToolsSound(tools) /\ ToolsSound(Counted) /\ p # Nowhere
  BY CountedSound, ToolsAssumption DEF ToolsInv, ToolsAssumption
<1>3. /\ ComparisonFor(p) \in {<<>>, tools.compared}
      /\ ComparisonFor(p) # <<>> => ComparisonFor(p) = tools.compared /\ tools.compared[1].selected = p
  BY DEF ComparisonFor
<1>4. Counted.compared = tools.compared /\ Counted.routes = tools.routes /\ Counted.reply = tools.reply
  BY <1>2 DEF Counted, ToolsSound, ToolsTyped
<1> DEFINE compared == ComparisonFor(p)
<1>5. compared \in Seq(Comparisons)
  <2>1. <<>> \in Seq(Comparisons)
    OBVIOUS
  <2>2. ToolsTyped(tools)
    BY <1>2 DEF ToolsSound
  <2>3. tools.compared \in Seq(Comparisons)
    BY <2>2 DEF ToolsTyped
  <2> QED BY <1>3, <2>1, <2>3, Zenon
<1> HIDE DEF place, compared
<1>6. /\ u.pc = place /\ u.routes = tools.routes /\ u.refs = Counted.refs
      /\ u.shown = Nowhere /\ u.compared = compared /\ u.asked = p /\ u.wanted = p
      /\ u.reply = tools.reply
  BY <1>2, <1>4 DEF ToolsSound, ToolsTyped, compared
<1>7. ToolsTyped(u)
  <2>1. u = [Counted EXCEPT !.pc = place, !.shown = Nowhere, !.compared = compared,
                            !.asked = p, !.wanted = p]
    BY DEF compared
  <2> HIDE DEF u
  <2> QED BY <1>1, <1>2, <1>5, <2>1 DEF ToolsSound, ToolsTyped
<1> HIDE DEF u
<1>8. Placed(u) /\ Shows(u)
  BY <1>1, <1>2, <1>3, <1>6 DEF Placed, Shows, compared
<1>9. Compares(u)
  BY <1>2, <1>3, <1>6 DEF Compares, ToolsSound, compared
<1>10. RepliesSo(u)
  BY <1>1, <1>2, <1>6 DEF RepliesSo, ToolsSound
<1>11. Mentionable(u.refs) /\ \A q \in u.routes : walk[q] \in Times
  BY <1>2, <1>6 DEF ToolsSound
<1>12. ToolsSound(u)
  BY <1>7, <1>8, <1>9, <1>10, <1>11 DEF ToolsSound
<1> QED BY <1>1, <1>12, ToolsStepKeeps

LEMMA CallsNearestKeeps == ASSUME ToolsInv, CallsNearest PROVE ToolsInv'
<1> DEFINE u == [Counted EXCEPT !.pc = "comparing", !.shown = Nowhere, !.compared = <<>>,
                                !.left = Candidates,
                                !.tried = 0, !.available = {}, !.wanted = Nowhere]
<1>1. /\ tools' = u /\ UNCHANGED <<subject, hand>> /\ known # {}
      /\ tools.pc = "deciding"
  BY Underway DEF CallsNearest, Called
<1>2. known \subseteq Pois /\ ToolsSound(tools) /\ ToolsSound(Counted) /\ tools.asked = Nowhere
  BY <1>1, CountedSound DEF ToolsInv, SubjectInv, ToolsSound, Placed
<1>3. Candidates \in Seq(known) /\ ToSet(Candidates) = known \cap Medical /\ <<>> \in Seq(Comparisons)
  BY <1>2, CandidatesFit
<1>4. Counted.routes = tools.routes /\ Counted.reply = tools.reply /\ Counted.asked = tools.asked
  BY <1>2 DEF Counted, ToolsSound, ToolsTyped
<1>5. /\ u.pc = "comparing" /\ u.routes = tools.routes /\ u.refs = Counted.refs
      /\ u.shown = Nowhere /\ u.compared = <<>> /\ u.asked = tools.asked /\ u.wanted = Nowhere
      /\ u.left = Candidates /\ u.available = {} /\ u.reply = tools.reply
  BY <1>2, <1>4 DEF ToolsSound, ToolsTyped
<1>6. ToolsTyped(u)
  <2> DEFINE none == <<>>
             list == Candidates
  <2>1. none \in Seq(Comparisons) /\ list \in Seq(known)
    BY <1>3
  <2>2. u = [Counted EXCEPT !.pc = "comparing", !.shown = Nowhere, !.compared = none, !.left = list,
                            !.tried = 0, !.available = {}, !.wanted = Nowhere]
    OBVIOUS
  <2>3. ToolsTyped(Counted)
    BY <1>2 DEF ToolsSound
  <2> HIDE DEF none, list, u
  <2> QED BY <2>1, <2>2, <2>3 DEF ToolsTyped
<1> HIDE DEF u
<1>7. Placed(u) /\ Shows(u) /\ Compares(u)
  BY <1>2, <1>3, <1>5 DEF Placed, Shows, Compares
<1>8. RepliesSo(u)
  BY <1>1, <1>2, <1>5 DEF RepliesSo, ToolsSound
<1>9. Mentionable(u.refs) /\ \A q \in u.routes : walk[q] \in Times
  BY <1>2, <1>5 DEF ToolsSound
<1>10. ToolsSound(u)
  BY <1>6, <1>7, <1>8, <1>9 DEF ToolsSound
<1> QED BY <1>1, <1>10, ToolsStepKeeps
LEMMA AnswersKeeps ==
    ASSUME ToolsInv, NEW status \in {"ready", "no way", "error"}, Answers(status)
    PROVE  ToolsInv'
<1> DEFINE p == tools.asked
           found == [tools EXCEPT !.routes = @ \cup {p}]
           lost == [tools EXCEPT !.failed = @ \cup {p}]
           t == CASE status = "ready"   -> Publish(found, p)
                  [] status = "no way"  -> Publish(lost, p)
                  [] status = "error"   -> lost
           back == [t EXCEPT !.pc = "looked"]
           next == [t EXCEPT !.asked = Nowhere,
                             !.available = IF status = "ready" THEN @ \cup {p} ELSE @]
<1>0. ToolsSound(tools) /\ known \subseteq Pois /\ SubjectInv
  BY DEF ToolsInv, SubjectInv
<1>1. /\ tools' = (IF tools.pc = "looking" THEN back ELSE next)
      /\ UNCHANGED <<subject, hand>>
      /\ tools.pc \in {"looking", "comparing"} /\ p \in known /\ status \in Outcomes(p)
      /\ p # Nowhere
  <2>1. ToolsTyped(tools)
    BY <1>0 DEF ToolsSound
  <2> QED BY <2>1 DEF Answers, ToolsTyped
<1>2. known # {}
  BY <1>1
<1>3. ToolsTyped(tools) /\ tools.failed \cup {p} \in SUBSET known
  BY <1>0, <1>1 DEF ToolsSound, ToolsTyped
<1>4. ToolsSound(lost)
  BY <1>0, <1>3, FailedSound
<1>5. status = "ready" => ToolsSound(found)
  BY <1>0, <1>1, ReadyHasTime, RouteFound
<1>6. ToolsSound(t)
  BY <1>0, <1>1, <1>4, <1>5, PublishSound
<1>7. /\ t.pc = tools.pc /\ t.asked = p /\ t.wanted = tools.wanted /\ t.shown = tools.shown
      /\ t.compared = tools.compared /\ t.left = tools.left /\ t.available = tools.available
      /\ t.reply = tools.reply
      /\ status = "ready" => p \in t.routes
  BY <1>3 DEF Publish, ToolsTyped
<1> HIDE DEF t, found, lost, p
<1>8. CASE tools.pc = "looking"
  <2>1. /\ back.pc = "looked" /\ back.routes = t.routes /\ back.refs = t.refs /\ back.shown = t.shown
        /\ back.compared = t.compared /\ back.asked = t.asked /\ back.wanted = t.wanted
        /\ back.reply = t.reply
    BY <1>6 DEF ToolsSound, ToolsTyped
  <2>2. ToolsTyped(back)
    BY <1>6 DEF ToolsSound, ToolsTyped
  <2> HIDE DEF back
  <2>3. Placed(back) /\ Shows(back) /\ Compares(back)
    BY <1>6, <1>7, <1>8, <2>1 DEF ToolsSound, Placed, Shows, Compares
  <2>4. RepliesSo(back)
    BY <1>6, <1>7, <1>8, <2>1 DEF ToolsSound, RepliesSo
  <2>5. ToolsSound(back)
    BY <1>6, <2>1, <2>2, <2>3, <2>4 DEF ToolsSound
  <2> QED BY <1>1, <1>2, <1>8, <2>5, ToolsStepKeeps
<1>9. CASE tools.pc = "comparing"
  <2> DEFINE available == IF status = "ready" THEN t.available \cup {p} ELSE t.available
  <2>1. /\ available \in SUBSET known /\ available \subseteq t.available \cup {p}
        /\ available \subseteq t.routes
    BY <1>1, <1>6, <1>7, <1>9 DEF ToolsSound, ToolsTyped, Placed
  <2>2. next = [t EXCEPT !.asked = Nowhere, !.available = available]
    BY <1>6 DEF ToolsSound, ToolsTyped
  <2> HIDE DEF next, available
  <2>3. /\ next.pc = t.pc /\ next.routes = t.routes /\ next.refs = t.refs /\ next.shown = t.shown
        /\ next.compared = t.compared /\ next.asked = Nowhere /\ next.wanted = t.wanted
        /\ next.left = t.left /\ next.available = available /\ next.reply = t.reply
    BY <1>6, <2>2 DEF ToolsSound, ToolsTyped
  <2>4. ToolsTyped(next)
    BY <1>6, <2>1, <2>2 DEF ToolsSound, ToolsTyped
  <2>5. Placed(next) /\ Shows(next) /\ Compares(next)
    BY <1>6, <1>7, <1>9, <2>1, <2>3 DEF ToolsSound, Placed, Shows, Compares
  <2>6. RepliesSo(next)
    BY <1>6, <1>7, <1>9, <2>3 DEF ToolsSound, RepliesSo
  <2>7. ToolsSound(next)
    BY <1>6, <2>3, <2>4, <2>5, <2>6 DEF ToolsSound
  <2> QED BY <1>1, <1>2, <1>9, <2>7, ToolsStepKeeps
<1> QED BY <1>1, <1>8, <1>9

LEMMA LookedKeeps == ASSUME ToolsInv, Looked PROVE ToolsInv'
<1> DEFINE p == tools.asked
           shown == IF p \in tools.routes THEN p ELSE Nowhere
           t == IF p \in tools.routes THEN Publish(tools, p) ELSE tools
           u == [t EXCEPT !.shown = shown, !.pc = "deciding", !.asked = Nowhere]
<1>0. ToolsSound(tools) /\ known \subseteq Pois /\ tools.pc = "looked"
  BY DEF Looked, ToolsInv, SubjectInv
<1>1. ToolsTyped(tools) /\ tools.shown = Nowhere /\ p # Nowhere /\ p \in known
  BY <1>0 DEF ToolsSound, ToolsTyped, Placed
<1>2. ToolsSound(t)
  BY <1>0, <1>1, PublishSound
<1>3. /\ t.pc = tools.pc /\ t.routes = tools.routes /\ t.shown = Nowhere
      /\ t.compared = tools.compared /\ t.asked = p /\ t.wanted = tools.wanted
      /\ t.reply = tools.reply
  BY <1>1 DEF Publish, ToolsTyped
<1>4. tools' = u /\ UNCHANGED <<subject, hand>>
  <2>1. UNCHANGED <<subject, hand>>
    BY DEF Looked
  <2>2. tools' = [(IF p \in tools.routes THEN [Publish(tools, p) EXCEPT !.shown = p] ELSE tools)
                  EXCEPT !.pc = "deciding", !.asked = Nowhere]
    BY DEF Looked
  <2>3. CASE p \in tools.routes
    BY <2>1, <2>2, <2>3, Zenon
  <2>4. CASE p \notin tools.routes
    <3>1. tools = [tools EXCEPT !.shown = Nowhere]
      BY <1>1 DEF ToolsTyped
    <3>2. tools' = [tools EXCEPT !.pc = "deciding", !.asked = Nowhere]
      BY <2>2, <2>4, Zenon
    <3>3. u = [tools EXCEPT !.shown = Nowhere, !.pc = "deciding", !.asked = Nowhere]
      BY <2>4, Zenon
    <3>4. tools' = u
      BY <3>1, <3>2, <3>3, Zenon
    <3> QED BY <2>1, <3>4
  <2> QED BY <2>3, <2>4
<1>5. shown \in known \cup {Nowhere} /\ shown \in t.routes \cup {Nowhere} /\ shown \in {p, Nowhere}
  BY <1>1, <1>3
<1>6. ToolsTyped(t) /\ Mentionable(t.refs)
  BY <1>2 DEF ToolsSound
<1> HIDE DEF t, shown, p
<1>7. /\ u.pc = "deciding" /\ u.routes = t.routes /\ u.refs = t.refs /\ u.shown = shown
      /\ u.compared = t.compared /\ u.asked = Nowhere /\ u.wanted = t.wanted /\ u.reply = t.reply
  BY <1>6 DEF ToolsTyped
<1>8. ToolsTyped(u)
  BY <1>5, <1>6 DEF ToolsTyped
<1> HIDE DEF u
<1>9. Placed(u) /\ Shows(u) /\ Compares(u)
  BY <1>0, <1>2, <1>3, <1>5, <1>7 DEF ToolsSound, Placed, Shows, Compares
<1>10. RepliesSo(u)
  BY <1>0, <1>2, <1>3, <1>7 DEF ToolsSound, RepliesSo
<1>11. ToolsSound(u)
  BY <1>2, <1>6, <1>7, <1>8, <1>9, <1>10 DEF ToolsSound
<1> QED BY <1>0, <1>4, <1>11, Underway, ToolsStepKeeps

\* The next candidate: its route is known, known to be none, or looked for.
LEMMA TriesKeeps == ASSUME ToolsInv, Tries PROVE ToolsInv'
<1> DEFINE p == Head(tools.left)
           t == [tools EXCEPT !.left = Tail(@), !.tried = @ + 1]
           taken == [Publish(t, p) EXCEPT !.available = @ \cup {p}]
           looked == [t EXCEPT !.asked = p]
<1>0. /\ ToolsSound(tools) /\ ToolsTyped(tools) /\ known \subseteq Pois
      /\ tools.pc = "comparing" /\ tools.asked = Nowhere /\ tools.left # <<>>
      /\ UNCHANGED <<subject, hand>>
      /\ tools' = (IF p \in tools.routes THEN taken ELSE IF p \in tools.failed THEN t ELSE looked)
  BY DEF Tries, Comparing, ToolsInv, SubjectInv, ToolsSound
<1>1. /\ p \in known /\ p \in ToSet(tools.left)
      /\ Tail(tools.left) \in Seq(known) /\ ToSet(Tail(tools.left)) \subseteq ToSet(tools.left)
  <2>1. tools.left \in Seq(known)
    BY <1>0 DEF ToolsTyped
  <2>2. /\ p \in known /\ Tail(tools.left) \in Seq(known) /\ Len(tools.left) \in Nat \ {0}
        /\ Len(Tail(tools.left)) = Len(tools.left) - 1 /\ p = tools.left[1]
        /\ \A i \in 1..Len(Tail(tools.left)) : Tail(tools.left)[i] = tools.left[i + 1]
    BY <1>0, <2>1
  <2>3. ToSet(tools.left) = Elements(tools.left) /\ ToSet(Tail(tools.left)) = Elements(Tail(tools.left))
    BY <2>1, <2>2, ToSetElements
  <2> QED BY <2>2, <2>3 DEF Elements
<1>2. /\ t.pc = tools.pc /\ t.routes = tools.routes /\ t.failed = tools.failed /\ t.refs = tools.refs
      /\ t.shown = tools.shown /\ t.compared = tools.compared /\ t.asked = tools.asked
      /\ t.wanted = tools.wanted /\ t.left = Tail(tools.left) /\ t.available = tools.available
      /\ t.reply = tools.reply
  BY <1>0 DEF ToolsTyped
<1>3. ToolsTyped(t)
  <2> DEFINE rest == Tail(tools.left)
             n == tools.tried + 1
  <2>1. rest \in Seq(known) /\ n \in Nat
    <3>1. ToolsTyped(tools)
      BY <1>0
    <3>2. tools.tried \in Nat
      BY <3>1 DEF ToolsTyped
    <3> QED BY <1>1, <3>2
  <2>2. t = [tools EXCEPT !.left = rest, !.tried = n]
    BY <1>0 DEF ToolsTyped
  <2> HIDE DEF rest, n, t
  <2> QED BY <1>0, <2>1, <2>2 DEF ToolsTyped
<1> HIDE DEF t, p
<1>4. ToolsSound(t)
  <2>1. Placed(t) /\ Shows(t) /\ Compares(t)
    BY <1>0, <1>1, <1>2 DEF ToolsSound, Placed, Shows, Compares
  <2>2. RepliesSo(t)
    BY <1>0, <1>2 DEF ToolsSound, RepliesSo
  <2> QED BY <1>0, <1>2, <1>3, <2>1, <2>2 DEF ToolsSound
<1>5. p \in Medical /\ p # Nowhere /\ t.asked = Nowhere
  <2>1. ToSet(tools.left) \subseteq Medical \cup {Nowhere} /\ Nowhere \notin known
    BY <1>0, ToolsAssumption DEF ToolsSound, Placed, ToolsAssumption
  <2> QED BY <1>0, <1>1, <1>2, <2>1
<1>6. ASSUME p \in tools.routes PROVE ToolsSound(taken)
  <2> DEFINE v == Publish(t, p)
             available == v.available \cup {p}
  <2>1. ToolsSound(v) /\ ToolsTyped(v)
    BY <1>0, <1>1, <1>4, PublishSound DEF ToolsSound
  <2>2. /\ v.pc = "comparing" /\ v.routes = t.routes /\ v.shown = t.shown /\ v.compared = t.compared
        /\ v.asked = t.asked /\ v.wanted = t.wanted /\ v.left = t.left /\ v.available = t.available
        /\ v.reply = t.reply
    BY <1>0, <1>2, <1>3 DEF Publish, ToolsTyped
  <2>3. available \in SUBSET known /\ available \subseteq v.routes /\ taken = [v EXCEPT !.available = available]
    BY <1>1, <1>2, <1>6, <2>1, <2>2 DEF ToolsSound, Placed, ToolsTyped
  <2>4. available \subseteq Medical \cup {Nowhere}
    BY <1>5, <2>1, <2>2 DEF ToolsSound, Placed
  <2> HIDE DEF v, taken, available
  <2>5. /\ taken.pc = v.pc /\ taken.routes = v.routes /\ taken.refs = v.refs /\ taken.shown = v.shown
        /\ taken.compared = v.compared /\ taken.asked = v.asked /\ taken.wanted = v.wanted
        /\ taken.left = v.left /\ taken.available = available /\ taken.reply = v.reply
    BY <2>1, <2>3 DEF ToolsTyped
  <2>6. ToolsTyped(taken)
    BY <2>1, <2>3 DEF ToolsTyped
  <2>7. Placed(taken) /\ Shows(taken) /\ Compares(taken)
    BY <2>1, <2>2, <2>3, <2>4, <2>5 DEF ToolsSound, Placed, Shows, Compares
  <2>8. RepliesSo(taken)
    BY <2>1, <2>2, <2>5 DEF ToolsSound, RepliesSo
  <2> QED BY <2>1, <2>5, <2>6, <2>7, <2>8 DEF ToolsSound
<1>7. ToolsSound(looked)
  <2>1. /\ looked.pc = t.pc /\ looked.routes = t.routes /\ looked.refs = t.refs /\ looked.shown = t.shown
        /\ looked.compared = t.compared /\ looked.asked = p /\ looked.wanted = t.wanted
        /\ looked.left = t.left /\ looked.available = t.available /\ looked.reply = t.reply
    BY <1>3 DEF ToolsTyped
  <2>2. ToolsTyped(looked)
    BY <1>1, <1>3 DEF ToolsTyped
  <2> HIDE DEF looked
  <2>3. Placed(looked) /\ Shows(looked) /\ Compares(looked)
    BY <1>0, <1>2, <1>4, <1>5, <2>1 DEF ToolsSound, Placed, Shows, Compares
  <2>4. RepliesSo(looked)
    BY <1>0, <1>2, <1>4, <2>1 DEF ToolsSound, RepliesSo
  <2> QED BY <1>4, <2>1, <2>2, <2>3, <2>4 DEF ToolsSound
<1> HIDE DEF taken, looked
<1>8. ToolsSound(IF p \in tools.routes THEN taken ELSE IF p \in tools.failed THEN t ELSE looked)
  BY <1>4, <1>6, <1>7, Zenon
<1> QED BY <1>0, <1>8, Underway, ToolsStepKeeps

LEMMA ConclusionKeeps == ASSUME ToolsInv, Concludes \/ BudgetSpent PROVE ToolsInv'
<1>1. ToolsSound(tools) /\ ToolsTyped(tools) /\ known \subseteq Pois
  BY DEF ToolsInv, SubjectInv, ToolsSound
<1> DEFINE lost == [tools EXCEPT !.failed = @ \cup {tools.asked}]
           before == IF tools.asked = Nowhere THEN tools ELSE lost
<1>2. /\ UNCHANGED <<subject, hand>> /\ tools.pc = "comparing"
      /\ tools' = Concluded(tools) \/ tools' = Concluded(before)
  BY DEF Concludes, BudgetSpent, Comparing
<1>3. ToolsSound(before) /\ before.pc = "comparing"
  <2>1. CASE tools.asked = Nowhere
    BY <1>1, <1>2, <2>1
  <2>2. CASE tools.asked # Nowhere
    <3>1. tools.failed \cup {tools.asked} \in SUBSET known
      BY <1>1, <2>2 DEF ToolsTyped
    <3>2. ToolsSound(lost)
      BY <1>1, <3>1, FailedSound
    <3>3. lost.pc = "comparing"
      BY <1>1, <1>2 DEF ToolsTyped
    <3> QED BY <2>2, <3>2, <3>3
  <2> QED BY <2>1, <2>2
<1>4. ToolsSound(Concluded(tools)) /\ ToolsSound(Concluded(before))
  <2> HIDE DEF before
  <2> QED BY <1>1, <1>2, <1>3, ConcludedSound
<1> QED BY <1>2, <1>4, Underway, ToolsStepKeeps
LEMMA RepliesKeeps == ASSUME ToolsInv, Replies PROVE ToolsInv'
<1> DEFINE reply == ReplyOf(tools)
           u == [tools EXCEPT !.pc = "replied", !.reply = reply]
<1>1. /\ ToolsSound(tools) /\ ToolsTyped(tools) /\ tools.pc = "deciding"
      /\ tools' = u /\ UNCHANGED <<subject, hand>>
  BY DEF Replies, ToolsInv, ToolsSound
<1>2. reply \in [given : BOOLEAN, about : known \cup {Nowhere},
                 claim : {"none", "fastest of all", "fastest of those tried"}]
  BY <1>1 DEF ReplyOf, ToolsTyped
<1>3. ToolsTyped(u)
  <2> HIDE DEF reply
  <2> QED BY <1>1, <1>2 DEF ToolsTyped
<1> HIDE DEF reply
<1>4. /\ u.pc = "replied" /\ u.routes = tools.routes /\ u.refs = tools.refs /\ u.shown = tools.shown
      /\ u.compared = tools.compared /\ u.asked = tools.asked /\ u.wanted = tools.wanted
      /\ u.reply = reply
  BY <1>1 DEF ToolsTyped
<1> HIDE DEF u
<1>5. Placed(u) /\ Shows(u) /\ Compares(u)
  BY <1>1, <1>4 DEF ToolsSound, Placed, Shows, Compares
<1>6. RepliesSo(u)
  BY <1>1, <1>4 DEF RepliesSo, ReplyOf, reply
<1>7. ToolsSound(u)
  BY <1>1, <1>3, <1>4, <1>5, <1>6 DEF ToolsSound
<1> QED BY <1>1, <1>7, Underway, ToolsStepKeeps

LEMMA TurnKeptKeeps == ASSUME ToolsInv, TurnKept PROVE ToolsInv'
<1>1. /\ tools' = NewTools /\ hand' = tools.refs /\ UNCHANGED subject /\ known # {}
      /\ Mentionable(tools.refs)
  BY Underway DEF TurnKept, ToolsInv, ToolsSound
<1>2. ToolsInv /\ hand' = tools.refs => SubjectInv' /\ Mentionable(hand)'
  BY <1>1 DEF subject, ToolsInv, SubjectInv, Mentionable
<1>3. ToolsSound(tools)'
  BY <1>1, NewToolsSound, NewToolsSet
<1> QED BY <1>1, <1>2, <1>3 DEF ToolsInv

LEMMA TurnFailsKeeps == ASSUME ToolsInv, TurnFails PROVE ToolsInv'
<1>1. tools' = NewTools /\ UNCHANGED <<subject, hand>> /\ tools.pc # "idle"
  BY DEF TurnFails
<1> QED BY <1>1, Underway, NewToolsSound, ToolsStepKeeps

LEMMA ToolsStep == ASSUME ToolsInv, ToolsNext PROVE ToolsInv'
<1>1. CASE AnalysisThere \/ TurnBegins \/ CallsNearest
  BY <1>1, AnalysisThereKeeps, TurnBeginsKeeps, CallsNearestKeeps
<1>2. CASE CallsInVain
  <2>1. /\ tools' = Counted /\ UNCHANGED <<subject, hand>> /\ tools.pc # "idle"
        /\ ToolsSound(tools)
    BY <1>2 DEF CallsInVain, Called, ToolsInv
  <2> QED BY <2>1, Underway, CountedSound, ToolsStepKeeps
<1>3. ASSUME NEW p \in Pois, CallsRoute(p) PROVE ToolsInv'
  BY <1>3, CallsRouteKeeps
<1>4. ASSUME NEW matches \in SUBSET known, Lists(SetToSeq(matches)) PROVE ToolsInv'
  BY <1>4, ListsKeeps
<1>5. ASSUME NEW status \in {"ready", "no way", "error"}, Answers(status) PROVE ToolsInv'
  BY <1>5, AnswersKeeps
<1>6. CASE Looked \/ Tries \/ Concludes \/ BudgetSpent
  BY <1>6, LookedKeeps, TriesKeeps, ConclusionKeeps
<1>7. CASE Replies \/ TurnKept \/ TurnFails
  BY <1>7, RepliesKeeps, TurnKeptKeeps, TurnFailsKeeps
<1> QED BY <1>1, <1>2, <1>3, <1>4, <1>5, <1>6, <1>7 DEF ToolsNext

LEMMA ToolsInvariant == ToolsSpec => []ToolsInv
<1>1. ToolsInit => ToolsInv
  <2> SUFFICES ASSUME ToolsInit PROVE ToolsInv
    OBVIOUS
  <2>1. mode = "synthetic" /\ known = {} /\ hand = <<>> /\ tools = NewTools
    BY DEF ToolsInit
  <2>2. SubjectInv
    BY <2>1 DEF SubjectInv
  <2> QED BY <2>1, <2>2, EmptyMentionable, NewToolsSound DEF ToolsInv
<1>2. ToolsInv /\ [ToolsNext]_toolVars => ToolsInv'
  <2> SUFFICES ASSUME ToolsInv, [ToolsNext]_toolVars PROVE ToolsInv'
    OBVIOUS
  <2>1. CASE UNCHANGED toolVars
    <3>1. UNCHANGED <<subject, hand, tools>>
      BY <2>1 DEF toolVars
    <3>2. CASE known # {}
      BY <3>1, <3>2, ToolsStepKeeps DEF ToolsInv
    <3>3. CASE known = {}
      <4>1. tools' = NewTools /\ hand' = <<>>
        BY <3>1, <3>3 DEF ToolsInv, SubjectInv
      <4>2. SubjectInv'
        BY <3>1, <3>3, <4>1 DEF subject, ToolsInv, SubjectInv
      <4> QED BY <4>1, <4>2, NewToolsSet, NewToolsSound, EmptyMentionable DEF ToolsInv, Mentionable
    <3> QED BY <3>2, <3>3
  <2> QED BY <2>1, ToolsStep
<1> QED BY <1>1, <1>2, PTL DEF ToolsSpec

----------------------------------------------------------------------------

\* What a conversation says and hands on rests on what its tools have found
\* (AgentTools, the end of _tool_loop): the route shown is the one asked for or
\* chosen, "the fastest" was compared with all it claims to beat, and the
\* references are of this analysis, each once.
THEOREM RepliesAreGrounded == ToolsSpec => []ReplyGrounded
<1>1. ToolsInv => ReplyGrounded
  <2> SUFFICES ASSUME ToolsInv PROVE ReplyGrounded
    OBVIOUS
  <2>1. ToolsSound(tools) /\ ToolsTyped(tools) /\ Mentionable(hand)
    BY DEF ToolsInv, ToolsSound
  <2>2. ShownWasWanted
    BY <2>1 DEF ShownWasWanted, ToolsSound, ToolsTyped, Shows
  <2>3. ClaimsHold
    <3>1. ASSUME tools.reply.claim # "none"
          PROVE  /\ tools.reply = ReplyOf(tools)
                 /\ tools.shown # Nowhere /\ tools.compared # <<>>
                 /\ tools.compared[1].selected = tools.shown
                 /\ tools.reply.claim = IF tools.compared[1].partial THEN "fastest of those tried"
                                        ELSE "fastest of all"
      <4>1. RepliesSo(tools)
        BY <2>1 DEF ToolsSound
      <4>2. tools.reply = ReplyOf(tools)
        BY <3>1, <4>1 DEF RepliesSo, NoReply
      <4> DEFINE bare == \/ tools.shown = Nowhere \/ tools.compared = <<>>
                         \/ tools.compared[1].selected # tools.shown
      <4>3. tools.reply.claim = IF bare THEN "none"
                                ELSE IF tools.compared[1].partial THEN "fastest of those tried"
                                     ELSE "fastest of all"
        <5>1. ReplyOf(tools).claim = IF bare THEN "none"
                                     ELSE IF tools.compared[1].partial THEN "fastest of those tried"
                                          ELSE "fastest of all"
          BY DEF ReplyOf
        <5> QED BY <4>2, <5>1, Zenon
      <4>4. ~bare
        <5> HIDE DEF bare
        <5> QED BY <3>1, <4>3
      <4> QED BY <4>2, <4>3, <4>4, Zenon
    <3>2. ASSUME tools.reply.claim # "none"
          PROVE  \A p \in tools.compared[1].of : p \in tools.routes /\ walk[tools.shown] <= walk[p]
      BY <2>1, <3>1, <3>2 DEF ToolsSound, Compares
    <3>3. ASSUME tools.reply.claim = "fastest of all"
          PROVE  known \cap Medical \subseteq tools.compared[1].of
      BY <2>1, <3>1, <3>3 DEF ToolsSound, Compares
    <3> QED BY <3>2, <3>3 DEF ClaimsHold
  <2>4. HandedOn
    <3>1. hand \in Seq(known) /\ Distinct(hand) /\ Len(hand) <= MaxFacilities
      BY <2>1 DEF Mentionable
    <3>2. ToSet(hand) = Elements(hand) /\ Cardinality(Elements(hand)) = Len(hand)
      BY <3>1, ToSetElements, DistinctCard
    <3>3. Elements(hand) \subseteq known
      BY <3>1 DEF Elements
    <3> QED BY <3>1, <3>2, <3>3 DEF HandedOn
  <2> QED BY <2>2, <2>3, <2>4 DEF ReplyGrounded
<1> QED BY <1>1, ToolsInvariant, PTL

\* The composition of the run behaves at each level as that level's
\* specification says, so that the theorems above hold of it.
THEOREM AssistantAtBothLevels == AssistantSpec => Spec /\ ToolsSpec
<1>1. AssistantInit => Init /\ ToolsInit
  BY DEF AssistantInit
<1>2. [AssistantNext]_assistantVars => [Next]_vars /\ [ToolsNext]_toolVars
  BY DEF AssistantNext, assistantVars
<1> QED BY <1>1, <1>2, PTL DEF AssistantSpec, Spec, ToolsSpec

\* What the run checks of the two, for every value of the constants.
THEOREM AssistantIsSound ==
    AssistantSpec => [](TurnsExclusive /\ ConversationsKept /\ ReplyGrounded) /\ AnswersCurrent
BY AssistantAtBothLevels, TurnsAreExclusive, ConversationsAreKept, RepliesAreGrounded,
   AnswersAreCurrent, PTL
=============================================================================
