--------------------------- MODULE AnalysisService ---------------------------
(***************************************************************************)
(* What the bounded analysis service promises its HTTP callers, with no    *)
(* queue, consumer task, sweeper or history: at most Places requests       *)
(* prepare or wait, at most Slots analyses run, every request runs at most *)
(* once, and a record is visible to GET from acceptance until after its    *)
(* analysis has ended.                                                     *)
(***************************************************************************)
EXTENDS Integers, FiniteSets

CONSTANTS Requests, Places, Slots

VARIABLES
    open,      \* new requests are admitted
    waiting,   \* requests that hold a place
    active,    \* analyses that hold a slot
    ended,     \* analyses with a final outcome
    left,      \* requests turned away or given up
    visible    \* requests whose record a GET finds

svcVars == <<open, waiting, active, ended, left, visible>>

Init ==
    /\ open = FALSE
    /\ waiting = {} /\ active = {} /\ ended = {} /\ left = {} /\ visible = {}

Fresh(r) == r \notin waiting \cup active \cup ended \cup left

OpenAdmission == ~open /\ open' = TRUE /\ UNCHANGED <<waiting, active, ended, left, visible>>

StopAdmission == open /\ open' = FALSE /\ UNCHANGED <<waiting, active, ended, left, visible>>

Admit(r) ==
    /\ Fresh(r) /\ open
    /\ Cardinality(waiting) < Places
    /\ waiting' = waiting \cup {r}
    /\ UNCHANGED <<open, active, ended, left, visible>>

TurnAway(r) ==
    /\ Fresh(r)
    /\ ~open \/ Cardinality(waiting) >= Places
    /\ left' = left \cup {r}
    /\ UNCHANGED <<open, waiting, active, ended, visible>>

\* A request that has not been accepted yet gives its place back.
Withdraw(r) ==
    /\ r \in waiting \ visible
    /\ waiting' = waiting \ {r}
    /\ left' = left \cup {r}
    /\ UNCHANGED <<open, active, ended, visible>>

Accept(r) ==
    /\ open
    /\ r \in waiting \ visible
    /\ visible' = visible \cup {r}
    /\ UNCHANGED <<open, waiting, active, ended, left>>

Begin(r) ==
    /\ r \in waiting \cap visible
    /\ Cardinality(active) < Slots
    /\ waiting' = waiting \ {r}
    /\ active' = active \cup {r}
    /\ UNCHANGED <<open, ended, left, visible>>

\* Records of ended analyses may disappear; live ones never do.
Forgetting == visible' \subseteq visible /\ visible \ visible' \subseteq ended'

\* An analysis ends, or an accepted request lapses without having run.
End(r) ==
    /\ r \in active \cup (waiting \cap visible)
    /\ active' = active \ {r}
    /\ waiting' = waiting \ {r}
    /\ ended' = ended \cup {r}
    /\ Forgetting
    /\ UNCHANGED <<open, left>>

Forget ==
    /\ visible' # visible
    /\ Forgetting
    /\ UNCHANGED <<open, waiting, active, ended, left>>

RequestStep(r) ==
    Admit(r) \/ TurnAway(r) \/ Withdraw(r) \/ Accept(r) \/ Begin(r) \/ End(r)

Next ==
    \/ OpenAdmission \/ StopAdmission \/ Forget
    \/ \E r \in Requests : RequestStep(r)

Spec == Init /\ [][Next]_svcVars
=============================================================================
