-------------------------- MODULE PoiServices_proofs --------------------------
(***************************************************************************)
(* Theorems about PoiServices.  Of its fetches: one at a time per answer,  *)
(* and a provider that is not overrun.  Of its searches: what is called    *)
(* ready is all there is, whatever number of pages a listing has and its   *)
(* pages hold, and nothing is left out without a reason.                   *)
(***************************************************************************)
EXTENDS PoiServices, Recursions_proofs

Leases == [owner : Callers, left : Int]

Stages == Seeking \cup Fetching \cup {"new", "releasing", "done"}

Calls ==
    [pc : Stages, key : Keys \cup {None}, refresh : BOOLEAN,
     waited : Nat, held : Nat, attempt : Nat]

FetchTypes ==
    /\ age \in [Keys -> {None} \cup Nat]
    /\ lease \in [Keys -> {None} \cup Leases]
    /\ cooling \in Nat /\ slot \in Nat /\ quiet \in Nat
    /\ writer \in Callers \cup {None}
    /\ client \in [Processes -> [halted : BOOLEAN, used : Nat]]
    /\ caller \in [Callers -> Calls]

\* A call in progress has a key, and holds a lease only from taking to giving it
\* back.
Orderly(call) ==
    /\ call.pc \in Seeking \cup Fetching \cup {"releasing"} => call.key \in Keys
    /\ call.pc \notin Fetching \cup {"leased"} => call.held = 0

CallsOrderly == \A c \in Callers : Orderly(caller[c])

\* Until it runs out, the lease of a call that has one is on its key, under its
\* name, and as old as the call remembers.
Leased(c) ==
    caller[c].pc \in Fetching \cup {"leased"} /\ caller[c].held <= Lease =>
        lease[Key(c)] # None /\ lease[Key(c)].owner = c
                             /\ lease[Key(c)].left = Lease - caller[c].held

LeasesHeld == \A c \in Callers : Leased(c)

\* The slot is free no sooner than the gap is over, and is booked by the one
\* writer, who found it free.
SlotsSpaced ==
    /\ slot + quiet >= Gap
    /\ \A c \in Callers : caller[c].pc = "booking" => writer = c /\ slot = 0

FetchInv == FetchTypes /\ CallsOrderly /\ LeasesHeld /\ SlotsSpaced

----------------------------------------------------------------------------
(* What the helpers do to a call.                                          *)

\* A step of c changes nobody else's call.
Others(c) == \A d \in Callers \ {c} : caller'[d] = caller[d]

\* Moving on changes only where a call stands.
LEMMA Moved ==
    ASSUME FetchTypes, NEW c \in Callers, NEW pc \in Stages, Moves(c, pc)
    PROVE  /\ caller' \in [Callers -> Calls] /\ Others(c)
           /\ caller'[c].pc = pc /\ caller'[c].key = caller[c].key
           /\ caller'[c].refresh = caller[c].refresh
           /\ caller'[c].held = caller[c].held /\ caller'[c].waited = caller[c].waited
<1>1. caller \in [Callers -> Calls] /\ caller' = [caller EXCEPT ![c].pc = pc]
  BY DEF FetchTypes, Moves
<1> QED  BY <1>1 DEF Calls, Others

\* Ending clears all but the key and the answer, and leaves the release to do.
LEMMA Ended ==
    ASSUME FetchTypes, CallsOrderly, NEW c \in Callers, Ends(c),
           caller[c].pc \in Seeking \cup Fetching
    PROVE  /\ caller' \in [Callers -> Calls] /\ Others(c)
           /\ caller'[c].pc \in {"releasing", "done"} /\ caller'[c].key = caller[c].key
           /\ caller'[c].key \in Keys
           /\ ~caller'[c].refresh /\ caller'[c].held = 0
<1> DEFINE r == [NewCaller EXCEPT
                   !.pc = IF caller[c].pc \in {"waiting", "polling"} THEN "done" ELSE "releasing",
                   !.key = caller[c].key]
<1>1. caller \in [Callers -> Calls] /\ caller' = [caller EXCEPT ![c] = r]
  BY DEF FetchTypes, Ends
<1>2. caller[c].key \in Keys
  BY DEF CallsOrderly, Orderly
<1>3. r \in Calls
  BY <1>2 DEF Calls, Stages, NewCaller
<1>4. /\ r.pc \in {"releasing", "done"} /\ r.key = caller[c].key
      /\ ~r.refresh /\ r.held = 0
  BY DEF NewCaller
<1> HIDE DEF r
<1> QED  BY <1>1, <1>2, <1>3, <1>4 DEF Others

\* What a step does to the invariant when it changes c's call and no lease: the
\* call has to stay in order, and to take no lease.
LEMMA KeepsOrder ==
    ASSUME FetchInv, NEW c \in Callers, Others(c), Orderly(caller'[c]),
           lease' = lease,
           caller'[c].pc \in Fetching \cup {"leased"} =>
               /\ caller[c].pc \in Fetching \cup {"leased"}
               /\ caller'[c].key = caller[c].key /\ caller'[c].held = caller[c].held
    PROVE  CallsOrderly' /\ LeasesHeld'
<1>1. CallsOrderly'
  BY DEF FetchInv, CallsOrderly, Others, Orderly
<1>2. ASSUME NEW d \in Callers PROVE Leased(d)'
  <2>1. Leased(d)
    BY DEF FetchInv, LeasesHeld
  <2>2. CASE d = c
    BY <2>1, <2>2 DEF Leased, Key
  <2>3. CASE d # c
    <3>1. caller'[d] = caller[d]
      BY <2>3 DEF Others
    <3> QED  BY <2>1, <3>1 DEF Leased, Key
  <2> QED  BY <2>2, <2>3
<1> QED  BY <1>1, <1>2 DEF LeasesHeld

\* A call that moves on, or ends, stays in order.
LEMMA MovedOrderly ==
    ASSUME FetchInv, NEW c \in Callers, NEW pc \in Seeking \cup Fetching, Moves(c, pc),
           caller[c].pc \in Seeking \cup Fetching,
           caller[c].pc \in Fetching \cup {"leased"} <=> pc \in Fetching \cup {"leased"},
           lease' = lease
    PROVE  caller' \in [Callers -> Calls] /\ CallsOrderly' /\ LeasesHeld'
<1>1. pc \in Stages /\ FetchTypes
  BY DEF Stages, FetchInv
<1>2. Orderly(caller[c])
  BY DEF FetchInv, CallsOrderly
<1>3. Orderly(caller'[c])
  BY <1>1, <1>2, Moved DEF Orderly
<1> QED  BY <1>1, <1>3, Moved, KeepsOrder

LEMMA EndedOrderly ==
    ASSUME FetchInv, NEW c \in Callers, Ends(c),
           caller[c].pc \in Seeking \cup Fetching, lease' = lease
    PROVE  caller' \in [Callers -> Calls] /\ CallsOrderly' /\ LeasesHeld'
<1>1. FetchTypes /\ CallsOrderly
  BY DEF FetchInv
<1>2. caller'[c].pc \in {"releasing", "done"}
  BY <1>1, Ended
<1>3. Orderly(caller'[c])
  BY <1>1, Ended DEF Orderly, Seeking, Fetching
<1> QED  BY <1>1, <1>2, <1>3, Ended, KeepsOrder DEF Fetching

\* Slots are left alone by a step of c that does not end in a booking.
LEMMA KeepsSlots ==
    ASSUME FetchInv, NEW c \in Callers, Others(c), caller'[c].pc # "booking",
           slot' = slot, quiet' = quiet, writer' = writer
    PROVE  SlotsSpaced'
BY DEF FetchInv, SlotsSpaced, Others

----------------------------------------------------------------------------
(* Every step keeps the invariant.                                         *)

LEMMA FetchInitially == FetchInit => FetchInv
<1> SUFFICES ASSUME FetchInit PROVE FetchInv
  OBVIOUS
<1> USE FetchAssumption
<1>1. NewCaller \in Calls
  BY DEF NewCaller, Calls, Stages
<1>2. FetchTypes
  BY <1>1 DEF FetchInit, FetchTypes
<1>3. \A c \in Callers : caller[c] = NewCaller
  BY DEF FetchInit
<1>4. CallsOrderly
  BY <1>3 DEF CallsOrderly, Orderly, NewCaller, Seeking, Fetching
<1>5. LeasesHeld
  BY <1>3 DEF LeasesHeld, Leased, NewCaller, Fetching
<1>6. SlotsSpaced
  BY <1>3 DEF FetchInit, SlotsSpaced, NewCaller
<1> QED  BY <1>2, <1>4, <1>5, <1>6 DEF FetchInv

LEMMA AskKeeps == ASSUME FetchInv, NEW c \in Callers, Ask(c) PROVE FetchInv'
<1>1. FetchTypes /\ UNCHANGED <<age, lease, cooling, slot, writer, quiet, client>>
  BY DEF FetchInv, Ask, tables
<1>2. PICK k \in Keys, refresh \in BOOLEAN :
        caller' = [caller EXCEPT ![c] =
           IF Fresh(k) /\ ~refresh
           THEN [NewCaller EXCEPT !.pc = "done"]
           ELSE [NewCaller EXCEPT !.pc = "waiting", !.key = k, !.refresh = refresh]]
  BY DEF Ask
<1> DEFINE hit == [NewCaller EXCEPT !.pc = "done"]
           wait == [NewCaller EXCEPT !.pc = "waiting", !.key = k, !.refresh = refresh]
<1>3. hit \in Calls /\ wait \in Calls
  BY DEF NewCaller, Calls, Stages, Seeking
<1>4. Orderly(hit) /\ Orderly(wait)
  BY DEF NewCaller, Orderly, Seeking, Fetching
<1>5. hit.pc = "done" /\ wait.pc = "waiting"
  BY DEF NewCaller
<1> HIDE DEF hit, wait
<1>6. caller' \in [Callers -> Calls] /\ Others(c) /\ caller'[c] \in {hit, wait}
  BY <1>1, <1>2, <1>3 DEF FetchTypes, Others, hit, wait
<1>7. caller'[c].pc \notin Fetching \cup {"leased"} /\ caller'[c].pc # "booking" /\ Orderly(caller'[c])
  BY <1>4, <1>5, <1>6 DEF Fetching
<1>8. CallsOrderly' /\ LeasesHeld'
  BY <1>1, <1>6, <1>7, KeepsOrder
<1>9. SlotsSpaced'
  BY <1>1, <1>6, <1>7, KeepsSlots
<1> QED  BY <1>1, <1>6, <1>8, <1>9 DEF FetchInv, FetchTypes

\* Whoever is under a lease that has not run out has it on the key, so that the
\* taker overtakes nobody.
LEMMA TakeLeaseKeeps == ASSUME FetchInv, NEW c \in Callers, TakeLease(c) PROVE FetchInv'
<1>1. FetchTypes /\ CallsOrderly /\ LeasesHeld
  BY DEF FetchInv
<1>2. caller[c].pc = "waiting" /\ UNCHANGED <<age, cooling, slot, writer, client, quiet>>
  BY DEF TakeLease
<1>3. caller[c].key \in Keys /\ caller[c].held = 0
  BY <1>1, <1>2 DEF CallsOrderly, Orderly, Seeking, Fetching
<1>4. CASE LeaseFree(Key(c))
  <2>1. Moves(c, "leased") /\ lease' = [lease EXCEPT ![Key(c)] = [owner |-> c, left |-> Lease]]
    BY <1>4 DEF TakeLease
  <2>2. /\ caller' \in [Callers -> Calls] /\ Others(c)
        /\ caller'[c].pc = "leased" /\ caller'[c].key = caller[c].key
        /\ caller'[c].refresh = caller[c].refresh
        /\ caller'[c].held = 0
    BY <1>1, <1>3, <2>1, Moved DEF Stages, Seeking
  <2>3. [owner |-> c, left |-> Lease] \in Leases /\ None \notin Leases
    BY FetchAssumption DEF Leases
  <2>4. FetchTypes'
    BY <1>1, <1>2, <2>1, <2>2, <2>3 DEF FetchTypes
  <2>5. Orderly(caller'[c])
    BY <1>1, <1>2, <2>2 DEF CallsOrderly, Orderly, Seeking, Fetching
  <2>6. CallsOrderly'
    BY <1>1, <2>2, <2>5 DEF CallsOrderly, Others, Orderly
  <2>7. Leased(c)'
    BY <1>1, <1>3, <2>1, <2>2, <2>3, FetchAssumption DEF Leased, Key, FetchTypes
  <2>8. ASSUME NEW d \in Callers, d # c PROVE Leased(d)'
    <3>1. caller'[d] = caller[d] /\ Leased(d)
      BY <1>1, <2>2, <2>8 DEF Others, LeasesHeld
    <3>2. CASE Key(d) = Key(c)
      <4>1. lease[Key(d)] = None \/ lease[Key(d)].left < 0
        BY <1>4, <3>2 DEF LeaseFree
      <4>2. caller[d].held \in Nat /\ Lease \in Nat
        BY <1>1, FetchAssumption DEF FetchTypes, Calls
      <4>3. ~(caller[d].pc \in Fetching \cup {"leased"} /\ caller[d].held <= Lease)
        BY <3>1, <4>1, <4>2 DEF Leased
      <4> QED  BY <3>1, <4>3 DEF Leased
    <3>3. CASE Key(d) # Key(c)
      <4>1. caller[d].pc \in Fetching \cup {"leased"} => Key(d) \in Keys
        BY <1>1 DEF CallsOrderly, Orderly, Seeking, Fetching, Key
      <4>2. caller[d].pc \in Fetching \cup {"leased"} => lease'[Key(d)] = lease[Key(d)]
        BY <1>1, <2>1, <3>3, <4>1 DEF FetchTypes
      <4>3. Key(d)' = Key(d)
        BY <3>1 DEF Key
      <4> QED  BY <3>1, <4>2, <4>3 DEF Leased
    <3> QED  BY <3>2, <3>3
  <2>9. SlotsSpaced'
    BY <1>2, <2>2, KeepsSlots
  <2> QED  BY <2>4, <2>6, <2>7, <2>8, <2>9 DEF FetchInv, LeasesHeld
<1>5. CASE ~LeaseFree(Key(c))
  <2>1. Moves(c, "polling") /\ lease' = lease
    BY <1>5 DEF TakeLease
  <2>2. caller' \in [Callers -> Calls] /\ CallsOrderly' /\ LeasesHeld'
    BY <1>2, <2>1, MovedOrderly DEF Seeking, Fetching
  <2>3. Others(c) /\ caller'[c].pc = "polling"
    BY <1>1, <2>1, Moved DEF Stages, Seeking
  <2>4. SlotsSpaced'
    BY <1>2, <2>3, KeepsSlots
  <2> QED  BY <1>1, <1>2, <2>1, <2>2, <2>4 DEF FetchInv, FetchTypes
<1> QED  BY <1>4, <1>5

\* A call that ends and leaves the tables alone, but for the provider's rest.
LEMMA EndingKeeps ==
    ASSUME FetchInv, NEW c \in Callers, Ends(c),
           caller[c].pc \in Seeking \cup Fetching,
           UNCHANGED <<lease, slot, writer, quiet>>,
           age' \in [Keys -> {None} \cup Nat], cooling' \in Nat,
           client' \in [Processes -> [halted : BOOLEAN, used : Nat]]
    PROVE  FetchInv'
<1>1. FetchTypes /\ CallsOrderly
  BY DEF FetchInv
<1>2. caller' \in [Callers -> Calls] /\ CallsOrderly' /\ LeasesHeld'
  BY EndedOrderly
<1>3. Others(c) /\ caller'[c].pc # "booking"
  BY <1>1, Ended
<1>4. SlotsSpaced'
  BY <1>3, KeepsSlots
<1> QED  BY <1>1, <1>2, <1>4 DEF FetchInv, FetchTypes

\* The same for one that moves on, to anything but the booking of a slot.
LEMMA MovingKeeps ==
    ASSUME FetchInv, NEW c \in Callers, NEW pc \in Seeking \cup Fetching, Moves(c, pc),
           caller[c].pc \in Seeking \cup Fetching, pc # "booking",
           caller[c].pc \in Fetching \cup {"leased"} <=> pc \in Fetching \cup {"leased"},
           UNCHANGED <<age, lease, slot, writer, quiet, cooling, client>>
    PROVE  FetchInv'
<1>1. FetchTypes /\ pc \in Stages
  BY DEF FetchInv, Stages
<1>2. caller' \in [Callers -> Calls] /\ CallsOrderly' /\ LeasesHeld'
  BY MovedOrderly
<1>3. Others(c) /\ caller'[c].pc = pc
  BY <1>1, Moved
<1>4. SlotsSpaced'
  BY <1>3, KeepsSlots
<1> QED  BY <1>1, <1>2, <1>4 DEF FetchInv, FetchTypes

LEMMA PollKeeps == ASSUME FetchInv, NEW c \in Callers, Poll(c) PROVE FetchInv'
<1>1. caller[c].pc = "polling" /\ UNCHANGED <<age, lease, cooling, slot, writer, quiet, client>>
  BY DEF Poll, tables
<1>2. FetchTypes
  BY DEF FetchInv
<1>3. CASE Ends(c)
  BY <1>1, <1>2, <1>3, EndingKeeps DEF Seeking, FetchTypes
<1>4. CASE Moves(c, "waiting")
  BY <1>1, <1>4, MovingKeeps DEF Seeking, Fetching
<1> QED  BY <1>3, <1>4 DEF Poll

\* The same when the provider may have begun to rest.
LEMMA FailingKeeps ==
    ASSUME FetchInv, NEW c \in Callers, Ends(c), caller[c].pc \in Seeking \cup Fetching,
           UNCHANGED <<age, lease, slot, writer, quiet>>, cooling' \in {cooling, Cooldown},
           client' \in [Processes -> [halted : BOOLEAN, used : Nat]]
    PROVE  FetchInv'
<1>1. FetchTypes /\ Cooldown \in Nat
  BY FetchAssumption DEF FetchInv
<1> QED  BY <1>1, EndingKeeps DEF FetchTypes

LEMMA DecideKeeps == ASSUME FetchInv, NEW c \in Callers, Decide(c) PROVE FetchInv'
<1>1. caller[c].pc = "leased" /\ UNCHANGED <<age, lease, slot, writer, client, quiet>>
  BY DEF Decide
<1>2. FetchTypes
  BY DEF FetchInv
<1>3. CASE Ends(c) /\ cooling' \in {cooling, Cooldown}
  BY <1>1, <1>2, <1>3, FailingKeeps DEF Seeking, FetchTypes
<1>4. CASE Moves(c, "pacing") /\ UNCHANGED cooling
  BY <1>1, <1>4, MovingKeeps DEF Seeking, Fetching
<1> QED  BY <1>3, <1>4 DEF Decide, Fails

\* A call removes no lease but its own: a caller whose lease still runs keeps it.
LEMMA ReleaseKeeps == ASSUME FetchInv, NEW c \in Callers, Release(c) PROVE FetchInv'
<1> DEFINE r == [NewCaller EXCEPT !.pc = "done"]
<1>1. FetchTypes /\ CallsOrderly /\ LeasesHeld
  BY DEF FetchInv
<1>2. /\ caller[c].pc = "releasing" /\ caller' = [caller EXCEPT ![c] = r]
      /\ lease' \in {lease, IF OwnLease(c) THEN [lease EXCEPT ![Key(c)] = None] ELSE lease}
      /\ UNCHANGED <<age, cooling, slot, writer, client, quiet>>
  BY DEF Release
<1>3. r \in Calls /\ Orderly(r) /\ r.pc = "done"
  BY DEF NewCaller, Calls, Stages, Orderly, Seeking, Fetching
<1> HIDE DEF r
<1>4. caller' \in [Callers -> Calls] /\ Others(c) /\ caller'[c] = r
  BY <1>1, <1>2, <1>3 DEF FetchTypes, Others
<1>5. FetchTypes'
  BY <1>1, <1>2, <1>4 DEF FetchTypes
<1>6. CallsOrderly'
  BY <1>1, <1>3, <1>4 DEF CallsOrderly, Others, Orderly
<1>7. ASSUME NEW d \in Callers PROVE Leased(d)'
  <2>1. CASE d = c
    BY <1>3, <1>4, <2>1 DEF Leased, Fetching
  <2>2. CASE d # c
    <3>1. caller'[d] = caller[d] /\ Leased(d) /\ Key(d)' = Key(d)
      BY <1>1, <1>4, <2>2 DEF Others, LeasesHeld, Key
    <3>2. SUFFICES ASSUME caller[d].pc \in Fetching \cup {"leased"}, caller[d].held <= Lease
                   PROVE  lease'[Key(d)] = lease[Key(d)]
      BY <3>1 DEF Leased
    <3>3. Key(d) \in Keys /\ lease[Key(d)].owner = d
      BY <1>1, <3>1, <3>2 DEF CallsOrderly, Orderly, Seeking, Fetching, Key, Leased
    <3>4. OwnLease(c) => Key(d) # Key(c)
      BY <2>2, <3>3 DEF OwnLease
    <3> QED  BY <1>1, <1>2, <3>3, <3>4 DEF FetchTypes
  <2> QED  BY <2>1, <2>2
<1>8. SlotsSpaced'
  BY <1>2, <1>3, <1>4, KeepsSlots
<1> QED  BY <1>5, <1>6, <1>7, <1>8 DEF FetchInv, LeasesHeld

\* The writer takes the database when nobody has it, so nobody else is booking.
LEMMA BeginSlotKeeps == ASSUME FetchInv, NEW c \in Callers, BeginSlot(c) PROVE FetchInv'
<1>1. FetchTypes /\ SlotsSpaced
  BY DEF FetchInv
<1>2. /\ caller[c].pc = "pacing" /\ writer = None /\ slot = 0 /\ writer' = c
      /\ Moves(c, "booking") /\ UNCHANGED <<age, lease, cooling, slot, client, quiet>>
  BY DEF BeginSlot, ReadsAlone
<1>3. caller' \in [Callers -> Calls] /\ CallsOrderly' /\ LeasesHeld'
  BY <1>2, MovedOrderly DEF Seeking, Fetching
<1>4. Others(c)
  BY <1>1, <1>2, Moved DEF Stages, Fetching
<1>5. \A d \in Callers \ {c} : caller'[d].pc # "booking"
  BY <1>1, <1>2, <1>4, FetchAssumption DEF SlotsSpaced, Others
<1>6. SlotsSpaced'
  BY <1>1, <1>2, <1>5 DEF SlotsSpaced
<1> QED  BY <1>1, <1>2, <1>3, <1>6 DEF FetchInv, FetchTypes

\* A slot is booked by its writer only; the next one is a gap away.
LEMMA BookSlotKeeps == ASSUME FetchInv, NEW c \in Callers, BookSlot(c) PROVE FetchInv'
<1>1. FetchTypes /\ CallsOrderly /\ SlotsSpaced
  BY DEF FetchInv
<1>2. /\ caller[c].pc = "booking" /\ writer' = None /\ slot' = Gap /\ quiet' = 0
      /\ UNCHANGED <<age, lease>>
  BY DEF BookSlot
<1>3. ASSUME NEW d \in Callers, d # c PROVE caller[d].pc # "booking"
  BY <1>1, <1>2, <1>3 DEF SlotsSpaced
<1>4. Gap \in Nat /\ Cooldown \in Nat
  BY FetchAssumption
<1>5. SUFFICES /\ caller' \in [Callers -> Calls] /\ CallsOrderly' /\ LeasesHeld'
               /\ Others(c) /\ caller'[c].pc # "booking"
               /\ cooling' \in Nat /\ client' \in [Processes -> [halted : BOOLEAN, used : Nat]]
  <2>1. SlotsSpaced'
    BY <1>2, <1>3, <1>4, <1>5 DEF SlotsSpaced, Others
  <2>2. FetchTypes'
    BY <1>1, <1>2, <1>4, <1>5 DEF FetchTypes
  <2> QED  BY <1>5, <2>1, <2>2 DEF FetchInv
<1>6. CASE BlockedMeanwhile(c)
  <2>1. Ends(c) /\ UNCHANGED client /\ cooling' \in {cooling, Cooldown}
    BY <1>6 DEF BookSlot
  <2>2. caller' \in [Callers -> Calls] /\ CallsOrderly' /\ LeasesHeld'
    BY <1>2, <2>1, EndedOrderly DEF Fetching
  <2>3. Others(c) /\ caller'[c].pc # "booking"
    BY <1>1, <1>2, <2>1, Ended DEF Fetching
  <2> QED  BY <1>1, <1>4, <2>1, <2>2, <2>3 DEF FetchTypes
<1>7. CASE ~BlockedMeanwhile(c)
  <2>1. Moves(c, "requesting") /\ UNCHANGED cooling /\ client' = [client EXCEPT ![Home[c]].used = @ + 1]
    BY <1>7 DEF BookSlot
  <2>2. caller' \in [Callers -> Calls] /\ CallsOrderly' /\ LeasesHeld'
    BY <1>2, <2>1, MovedOrderly DEF Fetching
  <2>3. Others(c) /\ caller'[c].pc # "booking"
    BY <1>1, <2>1, Moved DEF Stages, Fetching
  <2>4. client' \in [Processes -> [halted : BOOLEAN, used : Nat]]
    <3>1. client \in [Processes -> [halted : BOOLEAN, used : Nat]] /\ Home[c] \in Processes
      BY <1>1, FetchAssumption DEF FetchTypes
    <3>2. [client[Home[c]] EXCEPT !.used = @ + 1] \in [halted : BOOLEAN, used : Nat]
      BY <3>1
    <3> QED  BY <2>1, <3>1, <3>2
  <2> QED  BY <1>1, <2>1, <2>2, <2>3, <2>4 DEF FetchTypes
<1> QED  BY <1>6, <1>7

LEMMA ResponseKeeps == ASSUME FetchInv, NEW c \in Callers, Response(c) PROVE FetchInv'
<1>1. FetchTypes /\ CallsOrderly /\ caller[c].pc = "requesting" /\ UNCHANGED <<lease, slot, writer, quiet>>
  BY DEF FetchInv, Response
<1>2. Key(c) \in Keys
  BY <1>1 DEF CallsOrderly, Orderly, Fetching, Key
<1>3. CASE age' = [age EXCEPT ![Key(c)] = 0] /\ Ends(c) /\ UNCHANGED <<cooling, client>>
  <2>1. age' \in [Keys -> {None} \cup Nat]
    BY <1>1, <1>2, <1>3 DEF FetchTypes
  <2> QED  BY <1>1, <1>3, <2>1, EndingKeeps DEF Fetching, FetchTypes
<1>4. CASE client' = [client EXCEPT ![Home[c]].halted = TRUE] /\ Fails(c, TRUE) /\ UNCHANGED age
  <2>1. client \in [Processes -> [halted : BOOLEAN, used : Nat]] /\ Home[c] \in Processes
    BY <1>1, FetchAssumption DEF FetchTypes
  <2>2. [client[Home[c]] EXCEPT !.halted = TRUE] \in [halted : BOOLEAN, used : Nat]
    BY <2>1
  <2>3. client' \in [Processes -> [halted : BOOLEAN, used : Nat]]
    BY <1>4, <2>1, <2>2
  <2> QED  BY <1>1, <1>4, <2>3, FailingKeeps DEF Fails, Fetching
<1>5. CASE /\ caller' = [caller EXCEPT ![c].pc = "retrying", ![c].attempt = @ + 1]
           /\ UNCHANGED <<age, cooling, client>>
  <2> DEFINE r == [caller[c] EXCEPT !.pc = "retrying", !.attempt = @ + 1]
  <2>1. caller \in [Callers -> Calls] /\ caller' = [caller EXCEPT ![c] = r]
    BY <1>1, <1>5 DEF FetchTypes
  <2>2. r \in Calls /\ r.pc = "retrying" /\ r.key = caller[c].key /\ r.held = caller[c].held
                    /\ r.refresh = caller[c].refresh
    <3>1. caller[c] \in Calls /\ "retrying" \in Stages
      BY <2>1 DEF Stages, Fetching
    <3>2. caller[c].attempt + 1 \in Nat
      BY <3>1 DEF Calls
    <3>3. r = [caller[c] EXCEPT !.pc = "retrying", !.attempt = caller[c].attempt + 1]
      OBVIOUS
    <3> HIDE DEF r
    <3>4. r = [pc |-> "retrying", key |-> caller[c].key, refresh |-> caller[c].refresh,
               waited |-> caller[c].waited, held |-> caller[c].held,
               attempt |-> caller[c].attempt + 1]
      BY <3>1, <3>3 DEF Calls
    <3> QED  BY <3>1, <3>2, <3>4 DEF Calls
  <2> HIDE DEF r
  <2>3. caller' \in [Callers -> Calls] /\ Others(c) /\ caller'[c] = r
    BY <2>1, <2>2 DEF Others
  <2>4. Orderly(caller'[c])
    BY <1>1, <2>2, <2>3 DEF CallsOrderly, Orderly, Fetching, Seeking
  <2>5. CallsOrderly' /\ LeasesHeld'
    BY <1>1, <2>2, <2>3, <2>4, KeepsOrder DEF Fetching
  <2>6. SlotsSpaced'
    BY <1>1, <2>2, <2>3, KeepsSlots
  <2> QED  BY <1>1, <1>5, <2>3, <2>5, <2>6 DEF FetchInv, FetchTypes
<1>6. CASE Fails(c, FALSE) /\ UNCHANGED <<age, client>>
  BY <1>1, <1>6, FailingKeeps DEF Fails, Fetching, FetchTypes
<1> QED  BY <1>3, <1>4, <1>5, <1>6 DEF Response

LEMMA RetryKeeps == ASSUME FetchInv, NEW c \in Callers, Retry(c) PROVE FetchInv'
<1>1. FetchTypes /\ caller[c].pc = "retrying" /\ UNCHANGED <<age, lease, slot, writer, client, quiet>>
  BY DEF FetchInv, Retry
<1>2. CASE Fails(c, Mine(c).halted)
  BY <1>1, <1>2, FailingKeeps DEF Fails, Fetching, FetchTypes
<1>3. CASE Moves(c, "pacing") /\ UNCHANGED cooling
  BY <1>1, <1>3, MovingKeeps DEF Fetching
<1> QED  BY <1>2, <1>3 DEF Retry

LEMMA CancelKeeps == ASSUME FetchInv, NEW c \in Callers, Cancel(c) PROVE FetchInv'
<1>1. FetchTypes
  BY DEF FetchInv
<1>2. caller[c].pc \in Seeking \cup Fetching /\ Ends(c) /\ UNCHANGED <<tables, client>>
  BY DEF Cancel, Awaiting, Seeking, Fetching
<1> QED  BY <1>1, <1>2, EndingKeeps DEF tables, FetchTypes

LEMMA SlotFailsKeeps == ASSUME FetchInv, NEW c \in Callers, SlotFails(c) PROVE FetchInv'
<1>1. caller[c].pc = "pacing" /\ Ends(c) /\ UNCHANGED <<tables, client>>
  BY DEF SlotFails
<1> QED  BY <1>1, FailingKeeps DEF Fetching, tables, FetchInv, FetchTypes

\* The leases of the dead outlive them; a booking dies with its writer.
LEMMA CrashKeeps == ASSUME FetchInv, NEW p \in Processes, Crash(p) PROVE FetchInv'
<1> DEFINE r == [NewCaller EXCEPT !.pc = "done"]
           dead == [halted |-> FALSE, used |-> 0]
<1>1. FetchTypes /\ CallsOrderly /\ LeasesHeld /\ SlotsSpaced
  BY DEF FetchInv
<1>2. /\ caller' = [c \in Callers |-> IF Home[c] = p /\ c \in Live THEN r ELSE caller[c]]
      /\ client' = [client EXCEPT ![p] = dead]
      /\ writer' = IF writer # None /\ Home[writer] = p THEN None ELSE writer
      /\ UNCHANGED <<age, lease, cooling, slot, quiet>>
  BY DEF Crash
<1>3. r \in Calls /\ Orderly(r) /\ r.pc = "done"
  BY DEF NewCaller, Calls, Stages, Orderly, Seeking, Fetching
<1> HIDE DEF r
<1>4. caller' \in [Callers -> Calls] /\ \A c \in Callers : caller'[c] \in {r, caller[c]}
  BY <1>1, <1>2, <1>3 DEF FetchTypes
<1>5. FetchTypes'
  BY <1>1, <1>2, <1>4 DEF FetchTypes
<1>6. CallsOrderly'
  BY <1>1, <1>3, <1>4 DEF CallsOrderly, Orderly
<1>7. LeasesHeld'
  BY <1>1, <1>2, <1>3, <1>4 DEF LeasesHeld, Leased, Key, Fetching
<1>8. ASSUME NEW c \in Callers, caller'[c].pc = "booking" PROVE writer' = c /\ slot' = 0
  <2>1. caller'[c] = caller[c]
    BY <1>3, <1>4, <1>8
  <2>2. caller[c].pc = "booking" /\ writer = c /\ slot = 0
    BY <1>1, <1>8, <2>1 DEF SlotsSpaced
  <2>3. c \in Live
    BY <2>2 DEF Live
  <2>4. Home[c] # p
    BY <1>2, <1>3, <1>8, <2>3
  <2> QED  BY <1>2, <2>2, <2>4
<1>9. SlotsSpaced'
  BY <1>1, <1>2, <1>8 DEF SlotsSpaced
<1> QED  BY <1>5, <1>6, <1>7, <1>9 DEF FetchInv

\* A unit of time takes as much from a lease as it adds to what its owner has held.
LEMMA TickKeeps == ASSUME FetchInv, Tick PROVE FetchInv'
<1> USE FetchAssumption
<1> DEFINE older(c) == [caller[c] EXCEPT
                 !.waited = IF caller[c].pc \in Seeking THEN Past(@, Horizon) ELSE 0,
                 !.held = IF caller[c].pc \in Fetching \cup {"leased"} THEN Past(@, Lease + 1) ELSE 0]
<1>1. FetchTypes /\ CallsOrderly /\ LeasesHeld /\ SlotsSpaced
  BY DEF FetchInv
<1>2. /\ writer = None
      /\ age' = [k \in Keys |-> IF age[k] = None THEN None ELSE Past(age[k], Ttl + 1)]
      /\ lease' = [k \in Keys |-> IF lease[k] = None \/ lease[k].left < 0 THEN lease[k]
                                  ELSE [lease[k] EXCEPT !.left = @ - 1]]
      /\ cooling' = Left(cooling) /\ slot' = Left(slot) /\ quiet' = Past(quiet, Gap)
      /\ UNCHANGED <<writer, client>>
  BY DEF Tick, Free
<1>3. caller' = [c \in Callers |-> IF c \notin Live \/ caller[c].pc = "releasing" THEN caller[c]
                                   ELSE older(c)]
  BY DEF Tick
<1>4. ASSUME NEW c \in Callers
      PROVE  /\ older(c) \in Calls
             /\ older(c).pc = caller[c].pc /\ older(c).key = caller[c].key
             /\ older(c).refresh = caller[c].refresh
             /\ older(c).held = IF caller[c].pc \in Fetching \cup {"leased"}
                                THEN Past(caller[c].held, Lease + 1) ELSE 0
  <2>1. caller[c] \in Calls
    BY <1>1 DEF FetchTypes
  <2>2. \A units, limit \in Nat : Past(units, limit) \in Nat
    BY DEF Past
  <2>3. Horizon \in Nat /\ Lease + 1 \in Nat
    BY DEF Horizon
  <2> QED  BY <2>1, <2>2, <2>3 DEF Calls
<1> HIDE DEF older
<1>5. ASSUME NEW c \in Callers
      PROVE  /\ caller'[c] \in Calls
             /\ caller'[c].pc = caller[c].pc /\ caller'[c].key = caller[c].key
             /\ caller'[c].refresh = caller[c].refresh
             /\ caller'[c].held = IF caller[c].pc \in Fetching \cup {"leased"}
                                  THEN Past(caller[c].held, Lease + 1) ELSE 0
  <2>1. c \notin Live \/ caller[c].pc = "releasing" => caller[c].held = 0
                                     /\ caller[c].pc \notin Fetching \cup {"leased"}
    BY <1>1 DEF CallsOrderly, Orderly, Live, Fetching
  <2> QED  BY <1>1, <1>3, <1>4, <2>1 DEF FetchTypes
<1>6. caller' \in [Callers -> Calls]
  BY <1>3, <1>5
<1>7. ASSUME NEW k \in Keys, lease[k] # None
      PROVE  /\ lease'[k] \in Leases /\ lease'[k] # None /\ lease'[k].owner = lease[k].owner
             /\ lease[k].left >= 0 => lease'[k].left = lease[k].left - 1
  <2>1. lease[k] \in Leases
    BY <1>1, <1>7 DEF FetchTypes
  <2>2. lease[k].left \in Int /\ None \notin Leases
    BY <2>1 DEF Leases
  <2>3. CASE lease[k].left < 0
    BY <1>2, <1>7, <2>1, <2>2, <2>3
  <2>4. CASE ~(lease[k].left < 0)
    <3>1. lease'[k] = [lease[k] EXCEPT !.left = @ - 1]
      BY <1>2, <1>7, <2>4
    <3> QED  BY <2>1, <2>2, <3>1 DEF Leases
  <2> QED  BY <2>3, <2>4
<1>8. FetchTypes'
  <2>1. age' \in [Keys -> {None} \cup Nat]
    BY <1>1, <1>2 DEF FetchTypes, Past
  <2>2. lease' \in [Keys -> {None} \cup Leases]
    BY <1>1, <1>2, <1>7 DEF FetchTypes
  <2>3. cooling' \in Nat /\ slot' \in Nat /\ quiet' \in Nat
    BY <1>1, <1>2 DEF FetchTypes, Past, Left
  <2> QED  BY <1>1, <1>2, <1>6, <2>1, <2>2, <2>3 DEF FetchTypes
<1>9. CallsOrderly'
  BY <1>1, <1>5 DEF CallsOrderly, Orderly
<1>10. ASSUME NEW c \in Callers PROVE Leased(c)'
  <2>1. SUFFICES ASSUME caller[c].pc \in Fetching \cup {"leased"}, caller'[c].held <= Lease
                 PROVE  /\ lease'[Key(c)] # None /\ lease'[Key(c)].owner = c
                        /\ lease'[Key(c)].left = Lease - caller'[c].held
    BY <1>5 DEF Leased, Key
  <2>2. caller[c].held \in Nat
    BY <1>1 DEF FetchTypes, Calls
  <2>3. caller[c].held <= Lease /\ caller'[c].held = caller[c].held + 1
    BY <1>5, <2>1, <2>2 DEF Past
  <2>4. Key(c) \in Keys
    BY <1>1, <2>1 DEF CallsOrderly, Orderly, Key, Fetching, Seeking
  <2>5. Leased(c)
    BY <1>1 DEF LeasesHeld
  <2>6. lease[Key(c)] # None /\ lease[Key(c)].owner = c /\ lease[Key(c)].left = Lease - caller[c].held
    BY <2>1, <2>3, <2>5 DEF Leased
  <2> QED  BY <1>7, <2>2, <2>3, <2>4, <2>6
<1>11. SlotsSpaced'
  <2>1. \A c \in Callers : caller[c].pc # "booking"
    BY <1>1, <1>2 DEF SlotsSpaced
  <2>2. slot' + quiet' >= Gap
    BY <1>1, <1>2 DEF SlotsSpaced, FetchTypes, Left, Past
  <2> QED  BY <1>5, <2>1, <2>2 DEF SlotsSpaced
<1> QED  BY <1>8, <1>9, <1>10, <1>11 DEF FetchInv, LeasesHeld

\* A step of the whole is a step of the fetches, or leaves them alone.
LEMMA FetchSteps == [Next]_vars => FetchNext \/ UNCHANGED fetchVars
BY DEF Next, vars

LEMMA FetchKeeps == FetchInv /\ [Next]_vars => FetchInv'
<1> SUFFICES ASSUME FetchInv, [Next]_vars PROVE FetchInv'
  OBVIOUS
<1>1. CASE Tick
  BY <1>1, TickKeeps
<1>2. CASE \E c \in Callers : CallerStep(c)
  <2>1. PICK c \in Callers : CallerStep(c)
    BY <1>2
  <2>2. CASE Ask(c)
    BY <2>2, AskKeeps
  <2>3. CASE TakeLease(c)
    BY <2>3, TakeLeaseKeeps
  <2>4. CASE Poll(c)
    BY <2>4, PollKeeps
  <2>5. CASE Decide(c)
    BY <2>5, DecideKeeps
  <2>6. CASE Release(c)
    BY <2>6, ReleaseKeeps
  <2>7. CASE BeginSlot(c)
    BY <2>7, BeginSlotKeeps
  <2>8. CASE BookSlot(c)
    BY <2>8, BookSlotKeeps
  <2>9. CASE Response(c)
    BY <2>9, ResponseKeeps
  <2>10. CASE Retry(c)
    BY <2>10, RetryKeeps
  <2>11. CASE Cancel(c)
    BY <2>11, CancelKeeps
  <2>12. CASE SlotFails(c)
    BY <2>12, SlotFailsKeeps
  <2> QED
    BY <2>1, <2>2, <2>3, <2>4, <2>5, <2>6, <2>7, <2>8, <2>9, <2>10, <2>11,
       <2>12 DEF CallerStep
<1>3. CASE \E p \in Processes : Crash(p)
  BY <1>3, CrashKeeps
<1>4. CASE UNCHANGED fetchVars
  BY <1>4 DEF fetchVars, FetchInv, FetchTypes, CallsOrderly, Orderly, LeasesHeld, Leased, Key,
              SlotsSpaced
<1> QED  BY <1>1, <1>2, <1>3, <1>4, FetchSteps DEF FetchNext

LEMMA FetchInvHolds == Spec => []FetchInv
<1>1. Init => FetchInv
  BY FetchInitially DEF Init
<1> QED  BY <1>1, FetchKeeps, PTL DEF Spec

----------------------------------------------------------------------------
(* The theorems.                                                           *)

\* Two callers of one answer fetch it at the same time only when one of them has
\* outstayed its lease, whatever crashes, cancellations and waits come between:
\* get_or_fetch of backend/app/poi_cache.py asks the provider once.
THEOREM FetchesAreSingle == Spec => []SingleFlight
<1>1. ASSUME FetchInv PROVE SingleFlight
  <2> SUFFICES ASSUME NEW c \in Callers, NEW d \in Callers, c # d,
                      caller[c].pc \in Fetching, caller[d].pc \in Fetching, Key(c) = Key(d)
               PROVE  caller[c].held > Lease \/ caller[d].held > Lease
    BY DEF SingleFlight
  <2>1. Leased(c) /\ Leased(d)
    BY <1>1 DEF FetchInv, LeasesHeld
  <2>2. caller[c].held \in Nat /\ caller[d].held \in Nat /\ Lease \in Nat
    BY <1>1, FetchAssumption DEF FetchInv, FetchTypes, Calls
  <2>3. SUFFICES ASSUME caller[c].held <= Lease, caller[d].held <= Lease PROVE FALSE
    BY <2>2
  <2> QED  BY <2>1, <2>3 DEF Leased
<1> QED  BY <1>1, FetchInvHolds, PTL

\* All processes together keep to the provider's rate, and a client sends nothing
\* after a refusal or beyond its budget: _wait_for_slot books under BEGIN IMMEDIATE
\* and _request_json looks at the halt and the budget after the wait.
THEOREM ProviderIsSpared == Spec => ProviderSpared
<1>1. ASSUME FetchInv, [Next]_vars PROVE [Paced /\ Restrained]_fetchVars
  <2>1. FetchTypes /\ SlotsSpaced
    BY <1>1 DEF FetchInv
  <2>2. SUFFICES ASSUME FetchNext PROVE Paced /\ Restrained
    BY <1>1, FetchSteps
  <2>3. ASSUME NEW c \in Callers, caller[c].pc = "booking" PROVE quiet >= Gap
    BY <2>1, <2>3, FetchAssumption DEF SlotsSpaced, FetchTypes
  <2>4. Paced
    BY <2>3 DEF Paced
  <2>5. ASSUME NEW p \in Processes, client'[p].used > client[p].used
        PROVE  ~client[p].halted /\ client[p].used < Budget
    <3>1. client \in [Processes -> [halted : BOOLEAN, used : Nat]] /\ client[p].used \in Nat
      BY <2>1 DEF FetchTypes
    <3>2. client'[p].used # client[p].used
      BY <2>5, <3>1
    <3>3. ~Tick
      BY <3>2 DEF Tick
    <3>4. ASSUME NEW q \in Processes PROVE ~Crash(q)
      BY <2>5, <3>1 DEF Crash
    <3>5. PICK c \in Callers : CallerStep(c)
      BY <2>2, <3>3, <3>4 DEF FetchNext
    <3>6. ~Ask(c) /\ ~TakeLease(c) /\ ~Poll(c) /\ ~Decide(c) /\ ~Release(c) /\ ~BeginSlot(c)
                  /\ ~Retry(c) /\ ~Cancel(c) /\ ~SlotFails(c)
      BY <3>2 DEF Ask, TakeLease, Poll, Decide, Release, BeginSlot, Retry, Cancel, SlotFails
    <3>7. ~Response(c)
      <4>1. ASSUME client' = [client EXCEPT ![Home[c]].halted = TRUE] PROVE FALSE
        <5> DEFINE r == [client[Home[c]] EXCEPT !.halted = TRUE]
        <5>1. Home[c] \in Processes /\ client' = [client EXCEPT ![Home[c]] = r]
          BY <4>1, FetchAssumption
        <5>2. r.used = client[Home[c]].used
          BY <3>1, <5>1
        <5> HIDE DEF r
        <5> QED  BY <3>1, <3>2, <5>1, <5>2
      <4> QED  BY <3>2, <4>1 DEF Response
    <3>8. BookSlot(c)
      BY <3>5, <3>6, <3>7 DEF CallerStep
    <3>9. ~BlockedMeanwhile(c) /\ client' = [client EXCEPT ![Home[c]].used = @ + 1]
      BY <3>2, <3>8 DEF BookSlot
    <3>10. p = Home[c]
      BY <3>1, <3>2, <3>9
    <3>11. client[p].used \in Nat /\ Budget \in Nat
      BY <3>1, FetchAssumption
    <3> QED  BY <3>9, <3>10, <3>11 DEF BlockedMeanwhile, Blocked, Mine
  <2> QED  BY <2>4, <2>5 DEF Restrained
<1> QED  BY <1>1, FetchInvHolds, PTL DEF Spec, ProviderSpared

----------------------------------------------------------------------------
(* The search.  What is asked of it and what it has read is typed; the     *)
(* provider is as the model trusts it; a search that nothing has disturbed *)
(* has every query with pages to come either queued or in work, and no     *)
(* worker has stopped before the queue was empty.                          *)

SearchTypes ==
    /\ size \in [Queries -> Nat] /\ told \in BOOLEAN
    /\ spread \in Nat /\ pages \in Nat
    /\ phase \in {"idle", "new", "online", "settling", "searched", "reported", "cancelled"}
    /\ data \in [Queries -> [fresh : SUBSET (0..(pages - 1)), stale : SUBSET (0..(pages - 1))]]
    /\ queue \in Seq(Queries)
    /\ worker \in [Workers -> Queries \cup {"idle", "over"}] /\ cut \subseteq Workers
    /\ used \in Nat
    /\ flags \in [refused : BOOLEAN, failed : BOOLEAN, late : BOOLEAN, gone : BOOLEAN,
                  offline : BOOLEAN, refresh : BOOLEAN]

Trusted ==
    /\ \A q \in Queries : told \/ size[q] < ProviderLimit
    /\ fault.kind = "short" => told

\* Workers are at work only during a search, which nobody cuts short without being
\* late or leaving; nothing has been read before an area is asked for.
Staged ==
    /\ phase \notin {"online", "settling"} => Running = {}
    /\ cut \subseteq Running
    /\ phase = "settling" \/ cut # {} => flags.late \/ flags.gone
    /\ phase = "idle" => \A q \in Queries : data[q] = [fresh |-> {}, stale |-> {}]

Undisturbed ==
    /\ ~(flags.late \/ flags.gone \/ flags.failed)
    /\ ~(used >= MaxRequests) /\ err = {}

AtHand(q) == q \in ToSet(queue) \/ \E w \in Workers : worker[w] = q

Hunting ==
    phase = "online" /\ Undisturbed =>
        /\ \A q \in Queries : NextMissing(data, q) # {} => AtHand(q)
        /\ \A w \in Workers : worker[w] = "over" => queue = <<>>

SearchInv == SearchTypes /\ Trusted /\ Staged /\ Hunting /\ NothingForgotten /\ ReadyIsAll

----------------------------------------------------------------------------
(* The pages of a listing.                                                 *)

LEMMA Multiples ==
    ASSUME NEW p \in Nat, NEW m \in Nat, NEW n \in Nat, m <= n
    PROVE  /\ m * p \in Nat /\ (m + 1) * p = m * p + p /\ 0 * p = 0
           /\ m * p <= n * p
<1>1. m * p \in Nat /\ n * p \in Nat /\ (m + 1) * p = m * p + p /\ 0 * p = 0
  OBVIOUS
<1>2. PICK k \in Nat : n = m + k
  <2>1. n - m \in Nat /\ n = m + (n - m)
    OBVIOUS
  <2> QED BY <2>1
<1>3. n * p = m * p + k * p /\ k * p \in Nat
  BY <1>2
<1> QED BY <1>1, <1>3

\* A page takes the listing as far as it goes.
LEMMA PageStep ==
    ASSUME NEW T \in Nat, NEW X \in Nat, NEW P \in Nat
    PROVE  Least(P, T - Least(T, X)) = Least(T, X + P) - Least(T, X)
BY DEF Least

\* What is known of a listing that has been read from fresh pages up to an end page.
ReadToEnd(q, T, L) ==
    /\ T \in Nat /\ L \in 0..(pages - 1) /\ size[q] = T
    /\ \A n \in Nat : Total(data, q, n) = T
    /\ Upto(q) = 0..L /\ 0..L \subseteq data[q].fresh
    /\ (L + 1) * PageSize >= T

LEMMA ReadsToEnd ==
    ASSUME SearchTypes, Trusted, NEW q \in Queries, data[q].stale = {}, PaginationComplete(q)
    PROVE  \E T, L : ReadToEnd(q, T, L)
<1> DEFINE T == Least(size[q], ProviderLimit)
           L == LastPage(q)
<1>0. /\ size[q] \in Nat /\ ProviderLimit \in Nat /\ PageSize \in Nat \ {0} /\ pages \in Nat
      /\ data[q].fresh \subseteq 0..(pages - 1)
  BY SearchAssumption DEF SearchTypes, SearchAssumption
<1>1. T \in Nat /\ T <= size[q] /\ (T < ProviderLimit => T = size[q])
      /\ (size[q] < ProviderLimit => T = size[q])
  BY <1>0 DEF Least
<1>2. \A n : Total(data, q, n) = T
  BY DEF Total, Listing
<1>3. Present(data, q) = data[q].fresh
  BY DEF Present
<1>4. /\ EndPages(q) # {} /\ 0..L \subseteq data[q].fresh
      /\ ~Capped(q) /\ ~CountMismatch(q)
  BY <1>3 DEF PaginationComplete
<1>5. L \in EndPages(q)
  <2>1. EndPages(q) \in SUBSET Nat
    BY <1>0, <1>3 DEF EndPages
  <2>2. PICK x \in EndPages(q) : \A y \in EndPages(q) : x <= y
    BY <1>4, <2>1, NatOrder
  <2> QED BY <1>4, <2>2 DEF LastPage
<1> HIDE DEF L
<1>6. L \in data[q].fresh /\ L \in 0..(pages - 1) /\ Terminal(data, q, L)
  BY <1>0, <1>3, <1>5 DEF EndPages
<1>7. Upto(q) = 0..L
  BY <1>0, <1>3, <1>4, <1>6 DEF Upto, L
<1>8. size[q] = T
  <2>1. CASE told
    <3>1. Total(data, q, L) < ProviderLimit
      BY <1>0, <1>1, <1>2, <1>3, <1>4, <1>6, <2>1 DEF Capped
    <3> QED BY <1>1, <1>2, <3>1
  <2>2. CASE ~told
    BY <1>1, <2>2 DEF Trusted
  <2> QED BY <2>1, <2>2
<1> HIDE DEF T
<1>9. (L + 1) * PageSize >= T
  <2>0. L \in Nat /\ L * PageSize \in Nat /\ (L + 1) * PageSize = L * PageSize + PageSize
    BY <1>0, <1>6, Multiples
  <2>1. CASE told
    BY <1>2, <1>6, <2>1 DEF Terminal
  <2>2. CASE ~told
    <3>1. Raw(data, q, L) < PageSize
      BY <1>6, <2>2 DEF Terminal
    <3>2. fault # [query |-> q, kind |-> "short"]
      BY <2>2 DEF Trusted
    <3>3. Raw(data, q, L) = Least(PageSize, T - Least(T, L * PageSize))
      BY <1>2, <3>2 DEF Raw
    <3>4. Least(T, L * PageSize) \in Nat
      BY <1>1, <2>0 DEF Least
    <3> QED BY <1>0, <1>1, <2>0, <3>1, <3>3, <3>4 DEF Least
  <2> QED BY <2>1, <2>2
<1>10. ReadToEnd(q, T, L)
  BY <1>1, <1>2, <1>4, <1>6, <1>7, <1>8, <1>9 DEF ReadToEnd
<1> QED BY <1>10

\* Behind the end a listing has no records.
LEMMA NothingBehind ==
    ASSUME SearchTypes, NEW q \in Queries, NEW T, NEW L, ReadToEnd(q, T, L), NEW n \in Nat, n > L
    PROVE  Raw(data, q, n) = 0
<1>1. T \in Nat /\ L \in Nat /\ PageSize \in Nat \ {0} /\ Total(data, q, n) = T /\ (L + 1) * PageSize >= T
  BY SearchAssumption DEF SearchTypes, ReadToEnd, SearchAssumption
<1>2. n * PageSize \in Nat /\ n * PageSize >= (L + 1) * PageSize
  BY <1>1, Multiples
<1>3. (L + 1) * PageSize \in Nat
  BY <1>1, Multiples
<1>4. Least(T, n * PageSize) = T
  BY <1>1, <1>2, <1>3 DEF Least
<1>5. Least(PageSize, T - T) = 0
  BY <1>1 DEF Least
<1> QED BY <1>1, <1>4, <1>5 DEF Raw

\* The counted records are all there are, if the provider tells how many ...
LEMMA CountsAll ==
    ASSUME SearchTypes, NEW q \in Queries, NEW T, NEW L, ReadToEnd(q, T, L),
           told, EndPages(q) # {}, ~CountMismatch(q)
    PROVE  Received(q) = T
<1>0. pages \in Nat
  BY DEF SearchTypes
<1>1. RecordsOn(q, Upto(q)) = T
  <2>1. {Total(data, q, n) : n \in Upto(q)} = {T}
    BY DEF ReadToEnd
  <2>2. Max({T}) = T
    <3>1. T \in Nat
      BY DEF ReadToEnd
    <3> QED BY <3>1 DEF Max
  <2> QED BY <2>1, <2>2 DEF CountMismatch
<1>2. ASSUME NEW i \in 1..pages
      PROVE  (IF i - 1 \in data[q].fresh THEN Raw(data, q, i - 1) ELSE 0)
             = (IF i - 1 \in Upto(q) THEN Raw(data, q, i - 1) ELSE 0)
  <2>1. i - 1 \in Nat /\ L \in Nat /\ Upto(q) = 0..L /\ 0..L \subseteq data[q].fresh
    BY <1>0 DEF ReadToEnd
  <2>2. CASE i - 1 <= L
    BY <2>1, <2>2
  <2>3. CASE i - 1 > L
    BY <2>1, <2>3, NothingBehind
  <2> QED BY <2>1, <2>2, <2>3
<1>3. [i \in 1..pages |-> IF i - 1 \in data[q].fresh THEN Raw(data, q, i - 1) ELSE 0]
      = [i \in 1..pages |-> IF i - 1 \in Upto(q) THEN Raw(data, q, i - 1) ELSE 0]
  BY <1>2
<1> QED BY <1>1, <1>3 DEF Received, RecordsOn

\* ... and otherwise because each page before the end is full.
LEMMA FillsUp ==
    ASSUME SearchTypes, Trusted, NEW q \in Queries, NEW T, NEW L, ReadToEnd(q, T, L), ~told
    PROVE  Received(q) = T
<1> DEFINE f == [i \in 1..pages |-> IF i - 1 \in data[q].fresh THEN Raw(data, q, i - 1) ELSE 0]
           h == [i \in 0..pages |-> Least(T, i * PageSize)]
<1>0. /\ pages \in Nat /\ T \in Nat /\ L \in 0..(pages - 1) /\ PageSize \in Nat \ {0}
      /\ 0..L \subseteq data[q].fresh /\ (L + 1) * PageSize >= T
      /\ \A n \in Nat : Total(data, q, n) = T
  BY SearchAssumption DEF SearchTypes, ReadToEnd, SearchAssumption
<1>1. \A i \in 0..pages : i * PageSize \in Nat /\ Least(T, i * PageSize) \in Nat
  BY <1>0, Multiples DEF Least
<1>2. h \in [0..pages -> Int]
  BY <1>1
<1>3. ASSUME NEW i \in 1..pages PROVE f[i] = h[i] - h[i - 1]
  <2>1. i - 1 \in Nat /\ i \in 0..pages /\ i - 1 \in 0..pages
    BY <1>0
  <2>2. h[i] = Least(T, i * PageSize) /\ h[i - 1] = Least(T, (i - 1) * PageSize)
    BY <2>1
  <2>3. i * PageSize = (i - 1) * PageSize + PageSize /\ (i - 1) * PageSize \in Nat
    <3>1. PICK k \in Nat : k = i - 1 /\ k + 1 = i
      BY <2>1
    <3>2. PageSize \in Nat /\ k <= k
      BY <1>0
    <3>3. (k + 1) * PageSize = k * PageSize + PageSize /\ k * PageSize \in Nat
      BY <3>2, Multiples
    <3> QED BY <3>1, <3>3
  <2>4. CASE i - 1 <= L
    <3>1. f[i] = Raw(data, q, i - 1)
      BY <1>0, <2>1, <2>4
    <3>2. fault # [query |-> q, kind |-> "short"]
      BY DEF Trusted
    <3>3. Raw(data, q, i - 1) = Least(PageSize, T - Least(T, (i - 1) * PageSize))
      BY <1>0, <2>1, <3>2 DEF Raw
    <3>4. Least(PageSize, T - Least(T, (i - 1) * PageSize))
          = Least(T, (i - 1) * PageSize + PageSize) - Least(T, (i - 1) * PageSize)
      BY <1>0, <2>3, PageStep
    <3>5. Least(T, (i - 1) * PageSize + PageSize) = Least(T, i * PageSize)
      BY <2>3
    <3> HIDE DEF f, h
    <3> QED BY <2>2, <3>1, <3>3, <3>4, <3>5
  <2>5. CASE i - 1 > L
    <3>1. f[i] = 0
      BY <2>1, <2>5, NothingBehind
    <3>2. L + 1 <= i - 1 /\ L + 1 \in Nat
      BY <1>0, <2>1, <2>5
    <3>3. (L + 1) * PageSize <= (i - 1) * PageSize /\ (L + 1) * PageSize \in Nat
      BY <1>0, <2>1, <3>2, Multiples
    <3> HIDE DEF f, h
    <3> QED BY <1>0, <2>2, <2>3, <3>1, <3>3 DEF Least
  <2> QED BY <1>0, <2>1, <2>4, <2>5
<1>4. h[pages] - h[0] = T
  <2>1. h[pages] = Least(T, pages * PageSize) /\ h[0] = Least(T, 0 * PageSize)
    BY <1>0
  <2>2. (L + 1) * PageSize <= pages * PageSize /\ pages * PageSize \in Nat /\ 0 * PageSize = 0
        /\ (L + 1) * PageSize \in Nat
    <3>1. L + 1 \in Nat /\ L + 1 <= pages
      BY <1>0
    <3> QED BY <1>0, <3>1, Multiples
  <2> HIDE DEF h
  <2> QED BY <1>0, <2>1, <2>2 DEF Least
<1> HIDE DEF f, h
<1>5. SumTo(f, pages) = h[pages] - h[0]
  BY <1>0, <1>2, <1>3, SumTelescopes
<1> QED BY <1>4, <1>5 DEF Received, RecordsOn, f

LEMMA WholeListing ==
    ASSUME SearchTypes, Trusted, NEW q \in Queries, data[q].stale = {}, PaginationComplete(q)
    PROVE  Received(q) = size[q]
<1>1. PICK T, L : ReadToEnd(q, T, L)
  BY ReadsToEnd
<1>2. Received(q) = T
  BY <1>1, CountsAll, FillsUp DEF PaginationComplete
<1> QED BY <1>1, <1>2 DEF ReadToEnd

\* Without a record on a page there is nothing on the listing.
LEMMA NoRecords ==
    ASSUME SearchTypes, NEW q \in Queries,
           \A n \in 0..(pages - 1) : n \in Present(data, q) => ~(Raw(data, q, n) > 0)
    PROVE  ~(Received(q) > 0)
<1> DEFINE f == [i \in 1..pages |-> IF i - 1 \in data[q].fresh THEN Raw(data, q, i - 1) ELSE 0]
<1>0. pages \in Nat
  BY DEF SearchTypes
<1>1. ASSUME NEW n \in Nat PROVE Raw(data, q, n) \in Nat
  <2>1. Total(data, q, n) \in Nat /\ n * PageSize \in Nat /\ PageSize \in Nat
    BY SearchAssumption, Multiples DEF Total, Listing, Least, SearchTypes, SearchAssumption
  <2> QED BY <2>1 DEF Raw, Least
<1>2. ASSUME NEW i \in 1..pages PROVE f[i] = 0
  <2>1. i - 1 \in 0..(pages - 1) /\ Raw(data, q, i - 1) \in Nat
    BY <1>0, <1>1
  <2>2. CASE i - 1 \in data[q].fresh
    <3>1. ~(Raw(data, q, i - 1) > 0)
      BY <2>1, <2>2 DEF Present
    <3> QED BY <2>1, <2>2, <3>1
  <2>3. CASE i - 1 \notin data[q].fresh
    BY <2>3
  <2> QED BY <2>2, <2>3
<1> HIDE DEF f
<1>3. SumTo(f, pages) = 0
  BY <1>0, <1>2, SumZero
<1>4. Received(q) = 0
  BY <1>3 DEF Received, RecordsOn, f
<1> QED BY <1>4

----------------------------------------------------------------------------
(* What the steps of a search have in common.                              *)

LEMMA SameWorld ==
    ASSUME UNCHANGED world
    PROVE  \A q : NextMissing(data, q)' = NextMissing(data', q)
BY DEF world, NextMissing, Terminal, Present, Total, Raw, Listing, Least

LEMMA SameListing ==
    ASSUME UNCHANGED <<world, data>>, NEW q
    PROVE  /\ Received(q)' = Received(q) /\ Discarded(data, q)' = Discarded(data, q)
           /\ NextMissing(data, q)' = NextMissing(data, q)
<1>1. \A n : Raw(data, q, n)' = Raw(data, q, n)
  BY DEF world, Raw, Total, Listing, Least
<1>2. Received(q)' = Received(q)
  <2>1. [i \in 1..pages' |-> IF i - 1 \in data'[q].fresh THEN Raw(data, q, i - 1)' ELSE 0]
        = [i \in 1..pages |-> IF i - 1 \in data[q].fresh THEN Raw(data, q, i - 1) ELSE 0]
    BY <1>1 DEF world
  <2> QED BY <2>1 DEF Received, RecordsOn, world
<1>3. Discarded(data, q)' = Discarded(data, q)
  BY <1>1 DEF world, Discarded, Present
<1>4. NextMissing(data, q)' = NextMissing(data, q)
  BY SameWorld
<1> QED BY <1>2, <1>3, <1>4

LEMMA AtWork ==
    ASSUME SearchInv, NEW w \in Workers, worker[w] # "over"
    PROVE  phase \in {"online", "settling"}
BY DEF SearchInv, Staged, Running

LEMMA KeepsReading ==
    ASSUME SearchInv, UNCHANGED world, phase' \in {"online", "settling"},
           SearchTypes', cut' \subseteq Running',
           phase' = "settling" \/ cut' # {} => flags'.late \/ flags'.gone,
           Hunting'
    PROVE  SearchInv'
<1>1. Trusted'
  BY DEF SearchInv, Trusted, world
<1>2. Staged'
  BY DEF Staged
<1>3. NothingForgotten' /\ ReadyIsAll'
  BY DEF NothingForgotten, ReadyIsAll
<1> QED BY <1>1, <1>2, <1>3 DEF SearchInv

\* The head of the loop takes the next query, if there is one and a request left.
LEMMA GoesOn ==
    ASSUME SearchTypes, NEW w \in Workers, NEW line \in Seq(Queries), NEW sent \in Nat,
           Goes(w, line, sent)
    PROVE  /\ queue' \in Seq(Queries)
           /\ worker' \in [Workers -> Queries \cup {"idle", "over"}]
           /\ \A v \in Workers \ {w} : worker'[v] = worker[v]
           /\ line = <<>> \/ sent >= MaxRequests => queue' = line /\ worker'[w] = "over"
           /\ ~(line = <<>> \/ sent >= MaxRequests) =>
                 worker'[w] \in Queries /\ ToSet(line) = ToSet(queue') \cup {worker'[w]}
<1>1. CASE line = <<>> \/ sent >= MaxRequests
  BY <1>1 DEF Goes, SearchTypes
<1>2. CASE ~(line = <<>> \/ sent >= MaxRequests)
  <2>1. worker' = [worker EXCEPT ![w] = Head(line)] /\ queue' = Tail(line)
    BY <1>2 DEF Goes
  <2>2. Head(line) \in Queries /\ Tail(line) \in Seq(Queries) /\ line = <<Head(line)>> \o Tail(line)
    BY <1>2, HeadTailProperties
  <2>3. ToSet(line) = ToSet(Tail(line)) \cup {Head(line)}
    <3>1. ToSet(line) = Elements(line) /\ ToSet(Tail(line)) = Elements(Tail(line))
      BY <2>2, ToSetElements
    <3>2. Elements(line) = Elements(Tail(line)) \cup {Head(line)}
      <4> DEFINE n == Len(line)
                 rest == Tail(line)
      <4>1. n \in Nat /\ n >= 1 /\ Head(line) = line[1] /\ Len(rest) = n - 1
            /\ \A i \in 1..(n - 1) : rest[i] = line[i + 1]
        BY <1>2, HeadTailProperties
      <4> HIDE DEF n, rest
      <4>2. \A i \in 2..n : i - 1 \in 1..(n - 1) /\ rest[i - 1] = line[i]
        BY <4>1
      <4>3. {line[i] : i \in 1..n} = {rest[i] : i \in 1..(n - 1)} \cup {line[1]}
        <5>1. ASSUME NEW i \in 1..n PROVE i = 1 \/ i \in 2..n
          BY <4>1
        <5>2. \A i \in 1..(n - 1) : i + 1 \in 1..n
          BY <4>1
        <5>3. 1 \in 1..n
          BY <4>1
        <5>4. ASSUME NEW x \in {line[i] : i \in 1..n}
              PROVE  x \in {rest[i] : i \in 1..(n - 1)} \cup {line[1]}
          <6>1. PICK i \in 1..n : x = line[i]
            OBVIOUS
          <6>2. CASE i = 1
            BY <6>1, <6>2
          <6>3. CASE i \in 2..n
            BY <4>2, <6>1, <6>3
          <6> QED BY <5>1, <6>2, <6>3
        <5>5. ASSUME NEW x \in {rest[i] : i \in 1..(n - 1)} \cup {line[1]}
              PROVE  x \in {line[i] : i \in 1..n}
          BY <4>1, <5>2, <5>3
        <5> QED BY <5>4, <5>5
      <4> QED BY <4>1, <4>3 DEF Elements, n, rest
    <3> QED BY <3>1, <3>2
  <2>4. worker'[w] = Head(line) /\ worker' \in [Workers -> Queries \cup {"idle", "over"}]
        /\ \A v \in Workers \ {w} : worker'[v] = worker[v]
    BY <2>1, <2>2 DEF SearchTypes
  <2> QED BY <1>2, <2>1, <2>2, <2>3, <2>4
<1> QED BY <1>1, <1>2

----------------------------------------------------------------------------
(* The steps of a search.                                                  *)

LEMMA SearchInitially == SearchInit => SearchInv
<1> SUFFICES ASSUME SearchInit PROVE SearchInv
  OBVIOUS
<1>1. SearchTypes
  <2>1. <<>> \in Seq(Queries)
    OBVIOUS
  <2> QED BY <2>1 DEF SearchInit, SearchTypes, NoFlags
<1>2. Trusted
  BY DEF SearchInit, Trusted, NoFault
<1>3. Staged /\ Hunting /\ NothingForgotten /\ ReadyIsAll
  BY DEF SearchInit, Staged, Running, Hunting, NothingForgotten, ReadyIsAll
<1> QED BY <1>1, <1>2, <1>3 DEF SearchInv

LEMMA AskedKeeps == ASSUME SearchInv, Asked PROVE SearchInv'
<1>1. /\ phase = "idle" /\ phase' = "new" /\ size' \in [Queries -> Sizes] /\ told' \in BOOLEAN
      /\ spread' \in 1..(MaxTiles + 1) /\ pages' \in PageLimits
      /\ \A q \in Queries : told' \/ size'[q] < ProviderLimit
      /\ fault'.kind = "short" => told'
      /\ UNCHANGED <<data, queue, worker, cut, err, used, flags, report>>
  BY DEF Asked
<1>2. /\ \A q \in Queries : data[q] = [fresh |-> {}, stale |-> {}]
      /\ Running = {} /\ cut \subseteq Running /\ (cut # {} => flags.late \/ flags.gone)
  BY <1>1 DEF SearchInv, Staged
<1>3. SearchTypes'
  <2>1. size' \in [Queries -> Nat] /\ spread' \in Nat /\ pages' \in Nat
    BY <1>1, SearchAssumption DEF SearchAssumption
  <2>2. data' \in [Queries -> [fresh : SUBSET (0..(pages' - 1)), stale : SUBSET (0..(pages' - 1))]]
    <3>1. data' = [q \in Queries |-> [fresh |-> {}, stale |-> {}]]
      BY <1>1, <1>2 DEF SearchInv, SearchTypes
    <3> QED BY <3>1
  <2> QED BY <1>1, <2>1, <2>2 DEF SearchInv, SearchTypes
<1>4. Trusted'
  BY <1>1 DEF Trusted
<1>5. Staged' /\ Hunting' /\ NothingForgotten' /\ ReadyIsAll'
  BY <1>1, <1>2 DEF Staged, Running, Hunting, NothingForgotten, ReadyIsAll
<1> QED BY <1>3, <1>4, <1>5 DEF SearchInv

LEMMA TakesCachedKeeps ==
    ASSUME SearchInv, NEW refresh \in BOOLEAN, NEW offline \in BOOLEAN, TakesCached(refresh, offline)
    PROVE  SearchInv'
<1>1. /\ phase = "new" /\ flags' = [flags EXCEPT !.offline = offline, !.refresh = refresh]
      /\ UNCHANGED <<world, cut, err, used, report>>
  BY DEF TakesCached
<1>2. Running = {} /\ cut = {} /\ pages' = pages
  BY <1>1 DEF SearchInv, Staged, world
<1>3. PICK cached \in [Queries -> SUBSET (0..(pages - 1))] :
          data' = [q \in Queries |-> [fresh |-> cached[q], stale |-> {}]]
  BY DEF TakesCached
<1>4. data' \in [Queries -> [fresh : SUBSET (0..(pages - 1)), stale : SUBSET (0..(pages - 1))]]
  BY <1>3
<1>5. flags' \in [refused : BOOLEAN, failed : BOOLEAN, late : BOOLEAN, gone : BOOLEAN,
                  offline : BOOLEAN, refresh : BOOLEAN] /\ flags'.offline = offline
  BY <1>1 DEF SearchInv, SearchTypes
<1>6. CASE offline
  <2>1. phase' = "searched" /\ UNCHANGED <<queue, worker>>
    BY <1>6 DEF TakesCached
  <2>2. SearchTypes'
    BY <1>1, <1>2, <1>4, <1>5, <2>1 DEF SearchInv, SearchTypes, world
  <2>3. Trusted'
    BY <1>1 DEF SearchInv, Trusted, world
  <2>4. Staged'
    BY <1>1, <1>2, <2>1 DEF Staged, Running
  <2>5. Hunting' /\ NothingForgotten' /\ ReadyIsAll'
    BY <1>5, <1>6, <2>1 DEF Hunting, NothingForgotten, ReadyIsAll
  <2> QED BY <2>2, <2>3, <2>4, <2>5 DEF SearchInv
<1>7. CASE ~offline
  <2>1. phase' = "online" /\ queue' = Unfinished(data') /\ worker' = [w \in Workers |-> "idle"]
    BY <1>7 DEF TakesCached
  <2>2. SetToSeq(Queries) \in Seq(Queries) /\ ToSet(SetToSeq(Queries)) = Queries
    BY SetToSeqOrders, SearchAssumption DEF SearchAssumption
  <2> DEFINE open == {q \in Queries : NextMissing(data', q) # {}}
  <2>3. Unfinished(data') \in Seq(Queries) /\ ToSet(Unfinished(data')) = open
    <3> DEFINE all == SetToSeq(Queries)
    <3> HIDE DEF open, all
    <3>1. all \in Seq(Queries) /\ ToSet(all) = Queries
      BY <2>2 DEF all
    <3>2. Only(all, open) \in Seq(Queries \cap open) /\ ToSet(Only(all, open)) = Queries \cap open
      BY <3>1, OnlyType, OnlyToSet
    <3>3. Queries \cap open = open /\ open \subseteq Queries
      BY DEF open
    <3>4. Only(all, open) \in Seq(Queries)
      BY <3>2, <3>3
    <3>5. Unfinished(data') = Only(all, open)
      BY DEF Unfinished, all, open
    <3> QED BY <3>2, <3>3, <3>4, <3>5
  <2>4. SearchTypes'
    BY <1>1, <1>2, <1>4, <1>5, <2>1, <2>3 DEF SearchInv, SearchTypes, world
  <2>5. Hunting'
    <3>1. \A q \in Queries : NextMissing(data, q)' # {} => q \in ToSet(queue')
      BY <1>1, <2>1, <2>3, SameWorld
    <3> QED BY <2>1, <3>1 DEF Hunting, AtHand
  <2>6. cut' = {}
    BY <1>1, <1>2
  <2> QED BY <1>1, <2>1, <2>4, <2>5, <2>6, KeepsReading
<1> QED BY <1>6, <1>7

LEMMA WorkerStartsKeeps == ASSUME SearchInv, NEW w \in Workers, WorkerStarts(w) PROVE SearchInv'
<1>1. /\ worker[w] = "idle" /\ w \notin cut /\ Goes(w, queue, used)
      /\ UNCHANGED <<world, phase, data, cut, err, used, flags, report>>
  BY DEF WorkerStarts
<1>2. SearchTypes /\ Staged /\ Hunting
  BY DEF SearchInv
<1>3. queue \in Seq(Queries) /\ used \in Nat /\ "idle" \notin Queries /\ MaxRequests \in Nat
  BY <1>2, SearchAssumption DEF SearchTypes, SearchAssumption
<1>4. /\ queue' \in Seq(Queries)
      /\ worker' \in [Workers -> Queries \cup {"idle", "over"}]
      /\ \A v \in Workers \ {w} : worker'[v] = worker[v]
      /\ queue = <<>> \/ used >= MaxRequests => queue' = queue /\ worker'[w] = "over"
      /\ ~(queue = <<>> \/ used >= MaxRequests) =>
            worker'[w] \in Queries /\ ToSet(queue) = ToSet(queue') \cup {worker'[w]}
  BY <1>1, <1>2, <1>3, GoesOn
<1>5. phase' \in {"online", "settling"}
  BY <1>1, AtWork
<1>6. SearchTypes'
  BY <1>1, <1>2, <1>4 DEF SearchTypes, world
<1>7. cut' \subseteq Running' /\ (phase' = "settling" \/ cut' # {} => flags'.late \/ flags'.gone)
  BY <1>1, <1>2, <1>4 DEF Staged, Running, SearchTypes
<1>8. Hunting'
  <2> SUFFICES ASSUME phase' = "online", Undisturbed'
               PROVE  /\ \A q \in Queries : NextMissing(data, q)' # {} => AtHand(q)'
                      /\ \A v \in Workers : worker'[v] = "over" => queue' = <<>>
    BY DEF Hunting
  <2>1. /\ \A q \in Queries : NextMissing(data, q) # {} => AtHand(q)
        /\ \A v \in Workers : worker[v] = "over" => queue = <<>>
        /\ ~(used >= MaxRequests)
    BY <1>1, <1>2 DEF Hunting, Undisturbed
  <2>2. CASE queue = <<>>
    <3>1. queue' = <<>> /\ worker'[w] = "over" /\ ToSet(queue) = {}
      BY <1>4, <2>2 DEF ToSet
    <3>2. ASSUME NEW q \in Queries, NextMissing(data, q)' # {} PROVE AtHand(q)'
      <4>1. NextMissing(data, q) # {}
        BY <1>1, <3>2, SameListing
      <4>2. PICK v \in Workers : worker[v] = q
        BY <2>1, <3>1, <4>1 DEF AtHand
      <4>3. v # w
        BY <1>1, <1>3, <4>2
      <4> QED BY <1>4, <4>2, <4>3 DEF AtHand
    <3> QED BY <3>1, <3>2
  <2>3. CASE queue # <<>>
    <3>1. worker'[w] \in Queries /\ ToSet(queue) = ToSet(queue') \cup {worker'[w]}
      BY <1>4, <2>1, <2>3
    <3>2. ASSUME NEW q \in Queries, NextMissing(data, q)' # {} PROVE AtHand(q)'
      <4>1. AtHand(q)
        BY <1>1, <2>1, <3>2, SameListing
      <4>2. ASSUME NEW v \in Workers, worker[v] = q PROVE v # w
        BY <1>1, <1>3, <4>2
      <4> QED BY <1>4, <3>1, <4>1, <4>2 DEF AtHand
    <3>3. ASSUME NEW v \in Workers PROVE worker'[v] # "over"
      <4>1. "over" \notin Queries
        BY SearchAssumption DEF SearchAssumption
      <4> QED BY <1>4, <2>1, <2>3, <3>1, <4>1
    <3> QED BY <3>2, <3>3
  <2> QED BY <2>2, <2>3
<1> QED BY <1>1, <1>5, <1>6, <1>7, <1>8, KeepsReading

LEMMA PageComesKeeps ==
    ASSUME SearchInv, NEW w \in Workers, NEW stale \in BOOLEAN, NEW sent \in Nat, PageComes(w, stale, sent)
    PROVE  SearchInv'
<1> DEFINE q == worker[w]
           line == Requeued(data', q)
<1>1. /\ q \in Queries /\ w \notin cut /\ used' = used + sent
      /\ UNCHANGED <<world, phase, cut, err, flags, report>>
  BY DEF PageComes, Reads, Sends
<1>2. PICK n \in NextMissing(data, q) :
        /\ data' = IF stale THEN [data EXCEPT ![q].stale = @ \cup {n}]
                            ELSE [data EXCEPT ![q].fresh = @ \cup {n}]
        /\ Goes(w, line, used')
  BY DEF PageComes
<1>3. SearchTypes /\ Staged /\ Hunting
  BY DEF SearchInv
<1>4. n \in 0..(pages - 1)
  BY DEF NextMissing
<1>5. /\ data' \in [Queries -> [fresh : SUBSET (0..(pages - 1)), stale : SUBSET (0..(pages - 1))]]
      /\ \A r \in Queries \ {q} : data'[r] = data[r]
  <2>1. data \in [Queries -> [fresh : SUBSET (0..(pages - 1)), stale : SUBSET (0..(pages - 1))]]
    BY <1>3 DEF SearchTypes
  <2> QED BY <1>1, <1>2, <1>4, <2>1
<1>6. /\ queue \in Seq(Queries) /\ used \in Nat /\ used' \in Nat /\ used' >= used
      /\ "over" \notin Queries /\ MaxRequests \in Nat
  BY <1>1, <1>3, SearchAssumption DEF SearchTypes, SearchAssumption
<1>7. /\ line \in Seq(Queries) /\ ToSet(queue) \subseteq ToSet(line)
      /\ NextMissing(data', q) # {} => q \in ToSet(line)
      /\ line # queue => queue = <<>> \/ line # <<>>
  <2>1. CASE NextMissing(data', q) # {}
    <3>1. line = Append(queue, q)
      BY <2>1 DEF Requeued
    <3>2. Append(queue, q) \in Seq(Queries) /\ ToSet(Append(queue, q)) = ToSet(queue) \cup {q}
      BY <1>1, <1>6, AppendToSet
    <3>3. Append(queue, q) # <<>>
      BY <1>1, <1>6
    <3> QED BY <3>1, <3>2, <3>3
  <2>2. CASE NextMissing(data', q) = {}
    <3>1. line = queue
      BY <2>2 DEF Requeued
    <3> QED BY <1>6, <2>2, <3>1
  <2> QED BY <2>1, <2>2
<1> HIDE DEF line
<1>8. /\ queue' \in Seq(Queries)
      /\ worker' \in [Workers -> Queries \cup {"idle", "over"}]
      /\ \A v \in Workers \ {w} : worker'[v] = worker[v]
      /\ line = <<>> \/ used' >= MaxRequests => queue' = line /\ worker'[w] = "over"
      /\ ~(line = <<>> \/ used' >= MaxRequests) =>
            worker'[w] \in Queries /\ ToSet(line) = ToSet(queue') \cup {worker'[w]}
  BY <1>2, <1>3, <1>6, <1>7, GoesOn
<1>9. phase' \in {"online", "settling"}
  BY <1>1, <1>6, AtWork
<1>10. SearchTypes'
  BY <1>1, <1>3, <1>5, <1>6, <1>8 DEF SearchTypes, world
<1>11. cut' \subseteq Running' /\ (phase' = "settling" \/ cut' # {} => flags'.late \/ flags'.gone)
  BY <1>1, <1>3, <1>8 DEF Staged, Running, SearchTypes
<1>12. Hunting'
  <2> SUFFICES ASSUME phase' = "online", Undisturbed'
               PROVE  /\ \A r \in Queries : NextMissing(data, r)' # {} => AtHand(r)'
                      /\ \A v \in Workers : worker'[v] = "over" => queue' = <<>>
    BY DEF Hunting
  <2>1. ~(used' >= MaxRequests) /\ Undisturbed /\ phase = "online"
    BY <1>1, <1>6 DEF Undisturbed
  <2>2. /\ \A r \in Queries : NextMissing(data, r) # {} => AtHand(r)
        /\ \A v \in Workers : worker[v] = "over" => queue = <<>>
    BY <1>3, <2>1 DEF Hunting
  <2>3. ToSet(line) \subseteq ToSet(queue') \cup {worker'[w]}
    BY <1>8, <2>1
  <2>4. ASSUME NEW r \in Queries, NextMissing(data, r)' # {} PROVE AtHand(r)'
    <3>1. NextMissing(data', r) # {}
      BY <1>1, <2>4, SameWorld
    <3>2. CASE r = q
      BY <1>7, <2>3, <3>1, <3>2 DEF AtHand
    <3>3. CASE r # q
      <4>1. NextMissing(data', r) = NextMissing(data, r)
        BY <1>5, <3>3 DEF NextMissing, Present, Terminal, Total, Raw, Listing
      <4>2. AtHand(r)
        BY <2>2, <3>1, <4>1
      <4>3. CASE r \in ToSet(queue)
        BY <1>7, <2>3, <4>3 DEF AtHand
      <4>4. CASE \E v \in Workers : worker[v] = r
        BY <1>8, <3>3, <4>4 DEF AtHand
      <4> QED BY <4>2, <4>3, <4>4 DEF AtHand
    <3> QED BY <3>2, <3>3
  <2>5. ASSUME NEW v \in Workers, worker'[v] = "over" PROVE queue' = <<>>
    <3>1. CASE v = w
      BY <1>6, <1>8, <2>1, <2>5, <3>1
    <3>2. CASE v # w
      <4>1. queue = <<>>
        BY <1>8, <2>2, <2>5, <3>2
      <4>2. CASE line = <<>>
        BY <1>8, <4>2
      <4>3. CASE line # <<>>
        <5>1. NextMissing(data', q) # {} /\ line = <<q>>
          BY <4>1, <4>3 DEF line, Requeued
        <5>2. queue' = Tail(line)
          BY <1>2, <2>1, <4>3 DEF Goes
        <5> QED BY <5>1, <5>2
      <4> QED BY <4>2, <4>3
    <3> QED BY <3>1, <3>2
  <2> QED BY <2>4, <2>5
<1> QED BY <1>1, <1>9, <1>10, <1>11, <1>12, KeepsReading

\* A search that something has disturbed need not have everything at hand.
LEMMA Disturbs ==
    ASSUME SearchInv, UNCHANGED <<world, phase, data>>, phase \in {"online", "settling"},
           queue' \in Seq(Queries), used' \in Nat,
           worker' \in [Workers -> Queries \cup {"idle", "over"}],
           flags' \in [refused : BOOLEAN, failed : BOOLEAN, late : BOOLEAN, gone : BOOLEAN,
                       offline : BOOLEAN, refresh : BOOLEAN],
           cut' \subseteq cut, \A w \in cut' : worker'[w] # "over",
           flags'.late = flags.late, flags'.gone = flags.gone,
           ~Undisturbed'
    PROVE  SearchInv'
<1>1. SearchTypes'
  BY DEF SearchInv, SearchTypes, world
<1>2. cut' \subseteq Running' /\ (phase' = "settling" \/ cut' # {} => flags'.late \/ flags'.gone)
  BY <1>1 DEF SearchInv, Staged, Running, SearchTypes
<1>3. Hunting'
  BY DEF Hunting
<1> QED BY <1>1, <1>2, <1>3, KeepsReading

LEMMA ReadFailsKeeps ==
    ASSUME SearchInv, NEW w \in Workers, NEW sent \in Nat, ReadFails(w, sent)
    PROVE  SearchInv'
<1>1. /\ worker[w] \in Queries /\ w \notin cut /\ used' = used + sent
      /\ err' = err \cup {worker[w]} /\ Goes(w, queue, used')
      /\ UNCHANGED <<world, phase, data, cut, flags, report>>
  BY DEF ReadFails, Reads, Sends
<1>2. SearchTypes /\ Staged
  BY DEF SearchInv
<1>3. queue \in Seq(Queries) /\ used' \in Nat /\ worker[w] # "over"
  BY <1>1, <1>2, SearchAssumption DEF SearchTypes, SearchAssumption
<1>4. /\ queue' \in Seq(Queries)
      /\ worker' \in [Workers -> Queries \cup {"idle", "over"}]
      /\ \A v \in Workers \ {w} : worker'[v] = worker[v]
  BY <1>1, <1>2, <1>3, GoesOn
<1>5. \A v \in cut' : worker'[v] # "over"
  BY <1>1, <1>2, <1>4 DEF Staged, Running
<1>6. ~Undisturbed'
  BY <1>1 DEF Undisturbed
<1> QED BY <1>1, <1>2, <1>3, <1>4, <1>5, <1>6, AtWork, Disturbs DEF SearchTypes

LEMMA RefusalKeeps ==
    ASSUME SearchInv, NEW w \in Workers, NEW sent \in Nat, Refusal(w, sent)
    PROVE  SearchInv'
<1>1. /\ worker[w] \in Queries /\ w \notin cut /\ used' = used + sent
      /\ err' = err \cup {worker[w]} /\ flags' = [flags EXCEPT !.refused = TRUE]
      /\ worker' = [worker EXCEPT ![w] = "over"]
      /\ UNCHANGED <<world, phase, data, queue, cut, report>>
  BY DEF Refusal, Reads, Sends
<1>2. SearchTypes /\ Staged
  BY DEF SearchInv
<1>3. queue' \in Seq(Queries) /\ used' \in Nat /\ worker[w] # "over"
  BY <1>1, <1>2, SearchAssumption DEF SearchTypes, SearchAssumption
<1>4. /\ worker' \in [Workers -> Queries \cup {"idle", "over"}]
      /\ \A v \in cut' : worker'[v] # "over"
  BY <1>1, <1>2 DEF SearchTypes, Staged, Running
<1>5. /\ flags' \in [refused : BOOLEAN, failed : BOOLEAN, late : BOOLEAN, gone : BOOLEAN,
                     offline : BOOLEAN, refresh : BOOLEAN]
      /\ flags'.late = flags.late /\ flags'.gone = flags.gone
  BY <1>1, <1>2 DEF SearchTypes
<1>6. ~Undisturbed'
  BY <1>1 DEF Undisturbed
<1> QED BY <1>1, <1>3, <1>4, <1>5, <1>6, AtWork, Disturbs

LEMMA WorkerFailsKeeps == ASSUME SearchInv, NEW w \in Workers, WorkerFails(w) PROVE SearchInv'
<1>1. /\ worker[w] \in Queries /\ w \notin cut
      /\ flags' = [flags EXCEPT !.failed = TRUE]
      /\ worker' = [worker EXCEPT ![w] = "over"]
      /\ UNCHANGED <<world, phase, data, queue, cut, err, used, report>>
  BY DEF WorkerFails, Reads
<1>2. SearchTypes /\ Staged
  BY DEF SearchInv
<1>3. queue' \in Seq(Queries) /\ used' \in Nat /\ worker[w] # "over"
  BY <1>1, <1>2, SearchAssumption DEF SearchTypes, SearchAssumption
<1>4. /\ worker' \in [Workers -> Queries \cup {"idle", "over"}]
      /\ \A v \in cut' : worker'[v] # "over"
  BY <1>1, <1>2 DEF SearchTypes, Staged, Running
<1>5. /\ flags' \in [refused : BOOLEAN, failed : BOOLEAN, late : BOOLEAN, gone : BOOLEAN,
                     offline : BOOLEAN, refresh : BOOLEAN]
      /\ flags'.late = flags.late /\ flags'.gone = flags.gone /\ flags'.failed
  BY <1>1, <1>2 DEF SearchTypes
<1>6. ~Undisturbed'
  BY <1>5 DEF Undisturbed
<1> QED BY <1>1, <1>3, <1>4, <1>5, <1>6, AtWork, Disturbs

LEMMA CutEndsKeeps == ASSUME SearchInv, NEW w \in Workers, CutEnds(w) PROVE SearchInv'
<1>1. /\ w \in cut /\ cut' = cut \ {w} /\ worker' = [worker EXCEPT ![w] = "over"]
      /\ UNCHANGED <<world, phase, data, queue, err, used, flags, report>>
  BY DEF CutEnds
<1>2. SearchTypes /\ Staged
  BY DEF SearchInv
<1>3. /\ worker[w] # "over" /\ ~Undisturbed'
      /\ worker' \in [Workers -> Queries \cup {"idle", "over"}]
      /\ \A v \in cut' : worker'[v] # "over"
  BY <1>1, <1>2 DEF SearchTypes, Staged, Running, Undisturbed
<1> QED BY <1>1, <1>2, <1>3, AtWork, Disturbs DEF SearchTypes

LEMMA CutAbsorbedKeeps == ASSUME SearchInv, NEW w \in Workers, CutAbsorbed(w) PROVE SearchInv'
<1>1. /\ w \in cut /\ worker[w] \in Queries /\ cut' = cut \ {w}
      /\ err' = err \cup {worker[w]} /\ Goes(w, queue, used)
      /\ UNCHANGED <<world, phase, data, used, flags, report>>
  BY DEF CutAbsorbed
<1>2. SearchTypes /\ Staged
  BY DEF SearchInv
<1>3. queue \in Seq(Queries) /\ used \in Nat
  BY <1>2 DEF SearchTypes
<1>4. /\ queue' \in Seq(Queries)
      /\ worker' \in [Workers -> Queries \cup {"idle", "over"}]
      /\ \A v \in Workers \ {w} : worker'[v] = worker[v]
  BY <1>1, <1>2, <1>3, GoesOn
<1>5. worker[w] # "over" /\ ~Undisturbed' /\ \A v \in cut' : worker'[v] # "over"
  BY <1>1, <1>2, <1>4 DEF Staged, Running, Undisturbed
<1> QED BY <1>1, <1>2, <1>3, <1>4, <1>5, AtWork, Disturbs DEF SearchTypes

\* Lateness and a cancelled caller cut all workers that are left.
LEMMA CutsAll ==
    ASSUME SearchInv, phase' = "settling", cut' = Running, flags'.late \/ flags'.gone,
           flags' \in [refused : BOOLEAN, failed : BOOLEAN, late : BOOLEAN, gone : BOOLEAN,
                       offline : BOOLEAN, refresh : BOOLEAN],
           UNCHANGED <<world, data, queue, worker, err, used, report>>
    PROVE  SearchInv'
<1>1. SearchTypes'
  BY DEF SearchInv, SearchTypes, world, Running
<1>2. cut' \subseteq Running'
  BY DEF Running
<1>3. Hunting'
  BY DEF Hunting
<1> QED BY <1>1, <1>2, <1>3, KeepsReading

LEMMA TimesOutKeeps == ASSUME SearchInv, TimesOut PROVE SearchInv'
<1>1. /\ phase' = "settling" /\ cut' = Running /\ flags' = [flags EXCEPT !.late = TRUE]
      /\ UNCHANGED <<world, data, queue, worker, err, used, report>>
  BY DEF TimesOut
<1>2. /\ flags' \in [refused : BOOLEAN, failed : BOOLEAN, late : BOOLEAN, gone : BOOLEAN,
                     offline : BOOLEAN, refresh : BOOLEAN]
      /\ flags'.late
  BY <1>1 DEF SearchInv, SearchTypes
<1> QED BY <1>1, <1>2, CutsAll

LEMMA CallerCancelledKeeps == ASSUME SearchInv, CallerCancelled PROVE SearchInv'
<1>1. /\ phase' = "settling" /\ cut' = Running /\ flags' = [flags EXCEPT !.gone = TRUE]
      /\ UNCHANGED <<world, data, queue, worker, err, used, report>>
  BY DEF CallerCancelled
<1>2. /\ flags' \in [refused : BOOLEAN, failed : BOOLEAN, late : BOOLEAN, gone : BOOLEAN,
                     offline : BOOLEAN, refresh : BOOLEAN]
      /\ flags'.gone
  BY <1>1 DEF SearchInv, SearchTypes
<1> QED BY <1>1, <1>2, CutsAll

\* Without workers the queue of an undisturbed search is empty, and nothing is missing.
LEMMA SettledKeeps == ASSUME SearchInv, Settled PROVE SearchInv'
<1>1. /\ phase \in {"online", "settling"} /\ Running = {}
      /\ phase' = IF flags.gone THEN "cancelled" ELSE "searched"
      /\ UNCHANGED <<world, data, queue, worker, cut, err, used, flags, report>>
  BY DEF Settled
<1>2. SearchTypes /\ Trusted /\ Staged /\ Hunting
  BY DEF SearchInv
<1>3. SearchTypes' /\ Trusted'
  BY <1>1, <1>2 DEF SearchTypes, Trusted, world
<1>4. Staged' /\ Hunting' /\ ReadyIsAll'
  BY <1>1, <1>2 DEF Staged, Running, Hunting, ReadyIsAll
<1>5. NothingForgotten'
  <2> SUFFICES ASSUME phase' = "searched", NEW q \in Queries, NextMissing(data, q)' # {}, ~flags'.late,
                      ~flags'.failed, ~(used' >= MaxRequests), err' = {}
               PROVE  FALSE
    BY DEF NothingForgotten
  <2>1. ~flags.gone /\ Undisturbed
    BY <1>1 DEF Undisturbed
  <2>2. phase = "online"
    BY <1>1, <1>2, <2>1 DEF Staged, Undisturbed
  <2>3. NextMissing(data, q) # {}
    BY <1>1, SameListing
  <2>4. PICK w \in Workers : worker[w] = "over"
    BY <1>1, SearchAssumption DEF Running, SearchAssumption
  <2>5. queue = <<>> /\ AtHand(q)
    BY <1>2, <2>1, <2>2, <2>3, <2>4 DEF Hunting
  <2>6. ToSet(queue) = {}
    BY <2>5 DEF ToSet
  <2>7. PICK v \in Workers : worker[v] = q
    BY <2>5, <2>6 DEF AtHand
  <2>8. worker[v] = "over"
    BY <1>1 DEF Running
  <2> QED BY <2>7, <2>8, SearchAssumption DEF SearchAssumption
<1> QED BY <1>3, <1>4, <1>5 DEF SearchInv

----------------------------------------------------------------------------
(* The reports.                                                            *)

\* What ReadyIsAll says of a report, before it is given.
Backed(out) ==
    /\ out.status = "ready" =>
          /\ spread <= MaxTiles
          /\ \A q \in Queries : Received(q) = size[q] /\ ~Discarded(data, q)
          /\ out.placed \/ \A q \in Queries : size[q] = 0
    /\ \A c \in out.complete, q \in Queries :
          CategoryOf[q] = c =>
              \/ Received(q) = size[q] /\ (out.survey => ~Discarded(data, q))
              \/ data[q].stale # {} /\ ~out.survey

LEMMA ReportKeeps ==
    ASSUME SearchInv, phase \in {"new", "searched"}, phase' = "reported", Backed(report'),
           UNCHANGED <<world, data, queue, worker, cut, err, used, flags>>
    PROVE  SearchInv'
<1>1. SearchTypes' /\ Trusted'
  BY DEF SearchInv, SearchTypes, Trusted, world
<1>2. Staged' /\ Hunting' /\ NothingForgotten'
  BY DEF SearchInv, Staged, Running, Hunting, NothingForgotten
<1>3. ReadyIsAll'
  <2>1. \A q \in Queries : Received(q)' = Received(q) /\ Discarded(data, q)' = Discarded(data, q)
    BY SameListing
  <2>2. UNCHANGED <<size, spread, data>>
    BY DEF world
  <2> QED BY <2>1, <2>2 DEF Backed, ReadyIsAll
<1> QED BY <1>1, <1>2, <1>3 DEF SearchInv

LEMMA CompleteIsWhole ==
    ASSUME SearchInv, NEW q \in Queries, CategoryOf[q] \in Complete, data[q].stale = {}
    PROVE  Received(q) = size[q]
BY WholeListing DEF SearchInv, Complete, OfCategory

LEMMA PartialKeeps ==
    ASSUME SearchInv, phase \in {"new", "searched"}, NEW status, status # "ready",
           NEW complete, complete \in {{}, Complete}, NEW placed, Reports(status, complete, placed)
    PROVE  SearchInv'
<1>1. /\ phase' = "reported"
      /\ report' = [status |-> status, complete |-> complete, placed |-> placed, survey |-> FALSE]
      /\ UNCHANGED <<world, data, queue, worker, cut, err, used, flags>>
  BY DEF Reports
<1>2. Backed(report')
  BY <1>1, CompleteIsWhole DEF Backed
<1> QED BY <1>1, <1>2, ReportKeeps

LEMMA AlignedKeeps == ASSUME SearchInv, Aligned PROVE SearchInv'
<1>1. PICK seeded \in BOOLEAN :
          Reports(Status(seeded), Complete, HasRecords(seeded)) /\ (flags.refresh => ~seeded)
  BY DEF Aligned
<1> DEFINE out == [status |-> Status(seeded), complete |-> Complete, placed |-> HasRecords(seeded),
                   survey |-> FALSE]
<1>2. /\ phase = "searched" /\ phase' = "reported" /\ report' = out
      /\ UNCHANGED <<world, data, queue, worker, cut, err, used, flags>>
  BY <1>1 DEF Aligned, Reports
<1>3. Backed(out)
  <2>1. \A c \in Complete, q \in Queries :
            CategoryOf[q] = c => Received(q) = size[q] \/ data[q].stale # {}
    BY CompleteIsWhole
  <2>2. ASSUME Status(seeded) = "ready"
        PROVE  /\ spread <= MaxTiles
               /\ \A q \in Queries : Received(q) = size[q] /\ ~Discarded(data, q)
               /\ HasRecords(seeded) \/ \A q \in Queries : size[q] = 0
    <3>1. ~Stale /\ \A c \in Categories : ~Troubled(c)
      BY <2>2 DEF Status
    <3>2. \A c \in Categories : c \in Complete
      BY <3>1 DEF Troubled
    <3>3. spread <= MaxTiles
      BY <3>2, SearchAssumption DEF Complete, SearchAssumption
    <3>4. ASSUME NEW q \in Queries PROVE Received(q) = size[q] /\ ~Discarded(data, q)
      <4>1. CategoryOf[q] \in Categories /\ data[q].stale = {}
        BY <3>1, SearchAssumption DEF Stale, SearchAssumption
      <4>2. ~Discarded(data, q)
        BY <3>1, <4>1 DEF Troubled, OfCategory
      <4> QED BY <3>2, <4>1, <4>2, CompleteIsWhole
    <3>5. ASSUME ~HasRecords(seeded), NEW q \in Queries PROVE size[q] = 0
      <4>1. \A n \in 0..(pages - 1) : n \in Present(data, q) => ~(Raw(data, q, n) > 0)
        BY <3>5 DEF HasRecords
      <4>2. ~(Received(q) > 0) /\ size[q] \in Nat
        BY <4>1, NoRecords DEF SearchInv, SearchTypes
      <4> QED BY <3>4, <4>2
    <3> QED BY <3>3, <3>4, <3>5
  <2> QED BY <2>1, <2>2 DEF Backed
<1> HIDE DEF out
<1> QED BY <1>2, <1>3, ReportKeeps

LEMMA SurveyedKeeps == ASSUME SearchInv, Surveyed PROVE SearchInv'
<1> DEFINE out == [status |-> IF Assessable = Categories THEN "ready" ELSE "partial",
                   complete |-> Assessable, placed |-> TRUE, survey |-> TRUE]
<1>1. /\ phase = "searched" /\ phase' = "reported" /\ report' = out
      /\ UNCHANGED <<world, data, queue, worker, cut, err, used, flags>>
  BY DEF Surveyed
<1>2. ASSUME NEW c \in Assessable
      PROVE  /\ c \in Complete /\ spread <= MaxTiles
             /\ \A q \in Queries : CategoryOf[q] = c => Received(q) = size[q] /\ ~Discarded(data, q)
  <2>1. ~Stale /\ ~Troubled(c)
    BY <1>2 DEF Assessable
  <2>2. c \in Complete /\ spread <= MaxTiles
    BY <2>1 DEF Troubled, Complete
  <2>3. ASSUME NEW q \in Queries, CategoryOf[q] = c PROVE Received(q) = size[q] /\ ~Discarded(data, q)
    <3>1. data[q].stale = {} /\ ~Discarded(data, q)
      BY <2>1, <2>3 DEF Stale, Troubled, OfCategory
    <3> QED BY <2>2, <2>3, <3>1, CompleteIsWhole
  <2> QED BY <2>2, <2>3
<1>3. Backed(out)
  <2>1. ASSUME Assessable = Categories
        PROVE  spread <= MaxTiles /\ \A q \in Queries : Received(q) = size[q] /\ ~Discarded(data, q)
    BY <1>2, <2>1, SearchAssumption DEF SearchAssumption
  <2>2. \A c \in Assessable, q \in Queries :
            CategoryOf[q] = c => Received(q) = size[q] /\ ~Discarded(data, q)
    BY <1>2
  <2>3. out.status = "ready" => Assessable = Categories
    OBVIOUS
  <2> QED BY <2>1, <2>2, <2>3 DEF Backed
<1> HIDE DEF out
<1> QED BY <1>1, <1>3, ReportKeeps

LEMMA SearchSteps == [Next]_vars => SearchNext \/ UNCHANGED searchVars
BY DEF Next, vars

LEMMA WorkerStepKeeps == ASSUME SearchInv, NEW w \in Workers, WorkerStep(w) PROVE SearchInv'
<1>1. CASE WorkerStarts(w)
  BY <1>1, WorkerStartsKeeps
<1>2. CASE WorkerFails(w)
  BY <1>2, WorkerFailsKeeps
<1>3. CASE CutEnds(w)
  BY <1>3, CutEndsKeeps
<1>4. CASE CutAbsorbed(w)
  BY <1>4, CutAbsorbedKeeps
<1>5. ASSUME NEW sent \in 0..MaxRequests, ReadFails(w, sent) PROVE SearchInv'
  BY <1>5, ReadFailsKeeps
<1>6. ASSUME NEW sent \in 0..MaxRequests, Refusal(w, sent) PROVE SearchInv'
  BY <1>6, RefusalKeeps
<1>7. ASSUME NEW sent \in 0..MaxRequests, NEW stale \in BOOLEAN, PageComes(w, stale, sent) PROVE SearchInv'
  BY <1>7, PageComesKeeps
<1> QED BY <1>1, <1>2, <1>3, <1>4, <1>5, <1>6, <1>7 DEF WorkerStep

LEMMA SearchStutters == ASSUME SearchInv, UNCHANGED searchVars PROVE SearchInv'
<1>1. UNCHANGED <<world, phase, data, queue, worker, cut, err, used, flags, report>>
  BY DEF searchVars, search
<1>2. SearchTypes' /\ Trusted'
  BY <1>1 DEF SearchInv, SearchTypes, Trusted, world
<1>3. Staged'
  BY <1>1 DEF SearchInv, Staged, Running
<1>4. \A q : /\ Received(q)' = Received(q) /\ Discarded(data, q)' = Discarded(data, q)
             /\ NextMissing(data, q)' = NextMissing(data, q)
  BY <1>1, SameListing
<1>5. Hunting' /\ NothingForgotten'
  BY <1>1, <1>4 DEF SearchInv, Hunting, Undisturbed, AtHand, NothingForgotten
<1>6. ReadyIsAll'
  BY <1>1, <1>4 DEF SearchInv, ReadyIsAll, world
<1> QED BY <1>2, <1>3, <1>5, <1>6 DEF SearchInv

LEMMA SearchKeeps == SearchInv /\ [Next]_vars => SearchInv'
<1> SUFFICES ASSUME SearchInv, [Next]_vars PROVE SearchInv'
  OBVIOUS
<1>1. CASE Asked
  BY <1>1, AskedKeeps
<1>2. CASE \E refresh, offline \in BOOLEAN : TakesCached(refresh, offline)
  BY <1>2, TakesCachedKeeps
<1>3. CASE \E w \in Workers : WorkerStep(w)
  BY <1>3, WorkerStepKeeps
<1>4. CASE TimesOut
  BY <1>4, TimesOutKeeps
<1>5. CASE CallerCancelled
  BY <1>5, CallerCancelledKeeps
<1>6. CASE Settled
  BY <1>6, SettledKeeps
<1>7. CASE Bundled \/ SearchFails \/ AlignmentFails
  BY <1>7, PartialKeeps DEF Bundled, SearchFails, AlignmentFails
<1>8. CASE Aligned
  BY <1>8, AlignedKeeps
<1>9. CASE Surveyed
  BY <1>9, SurveyedKeeps
<1>10. CASE UNCHANGED searchVars
  BY <1>10, SearchStutters
<1> QED
  BY <1>1, <1>2, <1>3, <1>4, <1>5, <1>6, <1>7, <1>8, <1>9, <1>10, SearchSteps DEF SearchNext

LEMMA SearchInvHolds == Spec => []SearchInv
<1>1. Init => SearchInv
  BY SearchInitially DEF Init
<1> QED BY <1>1, SearchKeeps, PTL DEF Spec

\* Data called ready is all there is, no query with pages to come is forgotten without a
\* reason, and nobody reads on for a search that has ended (search_tiles,
\* PoiService.search, collect_service_coverage).
THEOREM SearchesAreSound == Spec => []SearchSound
<1>1. SearchInv => SearchSound
  <2> SUFFICES ASSUME SearchInv PROVE SearchSound
    OBVIOUS
  <2>1. NobodyReadsOn
    BY DEF SearchInv, Staged, NobodyReadsOn
  <2> QED BY <2>1 DEF SearchInv, SearchSound
<1> QED BY <1>1, SearchInvHolds, PTL
===============================================================================
