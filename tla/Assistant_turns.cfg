\* Three requests on two slots and two conversations: one conversation is
\* continued, or has to make room, while another is in its turn.  A turn has one
\* round in which a tool may be called, and one in which none may.  Tools: two
\* calls in each of two turns, more facilities than cards, more candidates than tries.
CONSTANTS
    Requests = {r1, r2, r3}
    Analyses = {a1}
    None = None
    MaxConcurrency = 2
    MaxSessions = 2
    MaxModelCalls = 2
    MaxToolCalls = 1
    clinic = clinic
    hospital = hospital
    practice = practice
    Pois = {clinic, hospital, practice}
    Nearby <- MCNearby
    Times = {1, 2}
    Threshold = 1
    Nowhere = Nowhere
    NoWay = NoWay
    MaxFacilities = 2
    MaxCandidates = 2
    MaxCallsOfTurn = 2
    MaxTurns = 2
SPECIFICATION AssistantSpec
CHECK_DEADLOCK FALSE
INVARIANTS
    TurnsExclusive
    ConversationsKept
    ReplyGrounded
PROPERTIES
    AnswersCurrent
    SlotReturned
