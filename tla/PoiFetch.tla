------------------------------ MODULE PoiFetch ------------------------------
(***************************************************************************)
(* One answer of the Baidu service, fetched by several callers in several  *)
(* processes: the shared cache with its leases, cooldown and request slots *)
(* (backend/app/poi_cache.py, cache.py) and the client in front of the     *)
(* network (backend/app/baidu/client.py, _get_json and _request_json).     *)
(*                                                                         *)
(* Processes share the cache files and one SQLite database, nothing else;  *)
(* a process may die between any two of its steps.  A stretch of Python    *)
(* without an await is one step, unless it makes several transactions that *)
(* others can come between.                                                *)
(*                                                                         *)
(* Time passes in units.  What the code stores as a moment is kept as the  *)
(* units since, or until then, counted no further than they matter.  The   *)
(* limit of four requests at once per client is wider than the callers     *)
(* here and left out.                                                      *)
(***************************************************************************)
EXTENDS Integers, FiniteSets

CONSTANTS
    Callers,        \* calls of _get_json
    Processes,      \* one BaiduClient each
    Home,           \* the process of each caller
    Keys,           \* requests, by their parameters
    None,
    Lease,          \* 30 s, in units of time
    Patience,       \* 30 s: how long a caller waits for another one's answer
    Cooldown,       \* 60 s: the provider's rest after a refusal
    Ttl,            \* poi_cache_ttl
    Gap,            \* 1 / max_qps
    Retries,        \* baidu_max_retries
    Budget          \* limit_requests

ASSUME FetchAssumption ==
    /\ Home \in [Callers -> Processes]
    /\ None \notin Callers /\ None \notin Nat
    /\ None \notin [owner : Callers, left : Int]
    /\ {Lease, Patience, Cooldown, Ttl, Gap, Budget} \subseteq Nat \ {0}
    /\ Retries \in Nat

VARIABLES
    age,        \* the stored answer of each key: units since it was fetched, or None
    lease,      \* table leases: owner and units left, or None
    cooling,    \* table failures: units the provider still rests
    slot,       \* table request_slots: units until next_allowed
    writer,     \* who holds SQLite's write lock across a step
    client,     \* each process: _halt_error and the requests it has counted
    caller,     \* each call
    quiet       \* history: units since the last slot was handed out

fetchVars == <<age, lease, cooling, slot, writer, client, caller, quiet>>
tables == <<age, lease, cooling, slot, writer, quiet>>

NewCaller == [pc |-> "new", key |-> None, refresh |-> FALSE,
              waited |-> 0,     \* units since it began
              held |-> 0,       \* units since it took the lease
              attempt |-> 0]

FetchInit ==
    /\ age \in [Keys -> {None, 0}]
    /\ lease = [k \in Keys |-> None]
    /\ cooling = 0 /\ slot = 0 /\ writer = None /\ quiet = Gap
    \* Without an AK, which they share, the clients are as good as refused; a process
    \* that is started again may find one in its settings.
    /\ \E keyless \in BOOLEAN : client = [p \in Processes |-> [halted |-> keyless, used |-> 0]]
    /\ caller = [c \in Callers |-> NewCaller]

Mine(c) == client[Home[c]]
Key(c) == caller[c].key
Moves(c, pc) == caller' = [caller EXCEPT ![c].pc = pc]

\* The call returns or raises: a fresh answer, an old one, which is better than none
\* after a failure, or the error.  With the lease in hand it still has to give that back.
Ends(c) ==
    caller' = [caller EXCEPT ![c] = [NewCaller EXCEPT
        !.pc = IF caller[c].pc \in {"waiting", "polling"} THEN "done" ELSE "releasing",
        !.key = caller[c].key]]

\* Only the wait for a slot holds the database across two steps.
Free == writer = None

\* _read: the stored answer, if it is not older than max_age.
Fresh(k) == age[k] # None /\ age[k] <= Ttl

\* A refresh is content with what others have fetched since it was asked for.
Serves(c) == Fresh(Key(c)) /\ (caller[c].refresh => age[Key(c)] <= caller[c].waited)

----------------------------------------------------------------------------
(* get_or_fetch.                                                           *)

Ask(c) ==
    /\ caller[c].pc = "new"
    /\ \E k \in Keys, refresh \in BOOLEAN :
          caller' = [caller EXCEPT ![c] =
             IF Fresh(k) /\ ~refresh
             THEN [NewCaller EXCEPT !.pc = "done"]
             ELSE [NewCaller EXCEPT !.pc = "waiting", !.key = k, !.refresh = refresh]]
    /\ UNCHANGED <<tables, client>>

\* DELETE of an expired lease and INSERT OR IGNORE, in one transaction.
LeaseFree(k) == lease[k] = None \/ lease[k].left < 0

TakeLease(c) ==
    /\ caller[c].pc = "waiting" /\ Free
    /\ IF LeaseFree(Key(c))
       THEN /\ lease' = [lease EXCEPT ![Key(c)] = [owner |-> c, left |-> Lease]]
            /\ Moves(c, "leased")
       ELSE Moves(c, "polling") /\ UNCHANGED lease
    /\ UNCHANGED <<age, cooling, slot, writer, client, quiet>>

Poll(c) ==
    /\ caller[c].pc = "polling"
    /\ IF Serves(c) \/ caller[c].waited > Patience THEN Ends(c)
       ELSE Moves(c, "waiting")
    /\ UNCHANGED <<tables, client>>

\* No AK, a refusal of this client, or an exhausted budget ends the fetch.
Blocked(c) == Mine(c).halted \/ Mine(c).used >= Budget

\* A failed fetch; a refusal makes the provider rest for everybody, also when the
\* halted client raises it again.
Fails(c, refused) ==
    /\ Free
    /\ cooling' = IF refused THEN Cooldown ELSE cooling
    /\ Ends(c)

\* Under the lease: the cache once more, the provider's cooldown, and the fetch up
\* to its wait for a slot.
Decide(c) ==
    /\ caller[c].pc = "leased"
    /\ IF Serves(c) \/ cooling > 0 THEN Ends(c) /\ UNCHANGED cooling
       ELSE IF Blocked(c) THEN Fails(c, Mine(c).halted)
       ELSE Moves(c, "pacing") /\ UNCHANGED cooling
    /\ UNCHANGED <<age, lease, slot, writer, client, quiet>>

\* mutant: whoever has fetched removes the lease of the key
AnyLease(c) == lease[Key(c)] # None

\* Only the own lease is removed; an expired one may have a new owner.
OwnLease(c) == lease[Key(c)] # None /\ lease[Key(c)].owner = c

\* Where the database does not let it, the lease stays and only runs out.
Release(c) ==
    /\ caller[c].pc = "releasing"
    /\ \/ Free /\ lease' = IF OwnLease(c) THEN [lease EXCEPT ![Key(c)] = None] ELSE lease
       \/ UNCHANGED lease
    /\ caller' = [caller EXCEPT ![c] = [NewCaller EXCEPT !.pc = "done"]]
    /\ UNCHANGED <<age, cooling, slot, writer, client, quiet>>

----------------------------------------------------------------------------
(* fetch, under the lease.                                                 *)

\* mutant: the row is read without BEGIN IMMEDIATE
ReadsAnyway == TRUE

\* BEGIN IMMEDIATE waits for the writer there is.
ReadsAlone == writer = None

BeginSlot(c) ==
    /\ caller[c].pc = "pacing" /\ ReadsAlone
    /\ slot = 0         \* else it sleeps, without holding the database
    /\ writer' = c
    /\ Moves(c, "booking")
    /\ UNCHANGED <<age, lease, cooling, slot, client, quiet>>

\* SQLite's wait for the writer has its limit: an error of the fetch.
SlotFails(c) ==
    /\ caller[c].pc = "pacing"
    /\ Ends(c)
    /\ UNCHANGED <<tables, client>>

\* Another caller of the client may have been refused while this one waited.
BlockedMeanwhile(c) == Blocked(c)

\* The slot is booked; the request goes out, or the slot is lost.
BookSlot(c) ==
    /\ caller[c].pc = "booking" /\ writer \in {c, None}
    /\ writer' = None
    /\ slot' = Gap /\ quiet' = 0
    /\ IF BlockedMeanwhile(c)
       THEN /\ cooling' = IF Mine(c).halted THEN Cooldown ELSE cooling
            /\ Ends(c) /\ UNCHANGED client
       ELSE /\ Moves(c, "requesting") /\ UNCHANGED cooling
            /\ client' = [client EXCEPT ![Home[c]].used = @ + 1]
    /\ UNCHANGED <<age, lease>>

\* _request_json: an answer, which is stored; a refusal for quota or key, which halts
\* the client; a transient error, retried while attempts are left; any other error.
Response(c) ==
    /\ caller[c].pc = "requesting"
    /\ \/ /\ age' = [age EXCEPT ![Key(c)] = 0]
          /\ Ends(c)
          /\ UNCHANGED <<cooling, client>>
       \/ /\ client' = [client EXCEPT ![Home[c]].halted = TRUE]
          /\ Fails(c, TRUE)
          /\ UNCHANGED age
       \/ /\ caller[c].attempt < Retries
          /\ caller' = [caller EXCEPT ![c].pc = "retrying", ![c].attempt = @ + 1]
          /\ UNCHANGED <<age, cooling, client>>
       \/ Fails(c, FALSE) /\ UNCHANGED <<age, client>>
    /\ UNCHANGED <<lease, slot, writer, quiet>>

\* After a pause, a retry is held to the same limits as a first request.
Retry(c) ==
    /\ caller[c].pc = "retrying"
    /\ IF Blocked(c) THEN Fails(c, Mine(c).halted) ELSE Moves(c, "pacing") /\ UNCHANGED cooling
    /\ UNCHANGED <<age, lease, slot, writer, client, quiet>>

----------------------------------------------------------------------------
(* Cancellation, crashes and time.                                         *)

Awaiting == {"waiting", "polling", "pacing", "requesting", "retrying"}

\* The search's time budget, or its caller, cancels the call where it awaits.  An error
\* of SQLite on taking the lease ends it in the same way.
Cancel(c) ==
    /\ caller[c].pc \in Awaiting
    /\ Ends(c)
    /\ UNCHANGED <<tables, client>>

Seeking == {"waiting", "polling", "leased"}
Fetching == {"pacing", "booking", "requesting", "retrying"}
Live == {c \in Callers : caller[c].pc \notin {"new", "done"}}

\* The process dies: its leases stay, its open transaction does not.
Crash(p) ==
    /\ \E c \in Live : Home[c] = p
    /\ caller' = [c \in Callers |-> IF Home[c] = p /\ c \in Live
                     THEN [NewCaller EXCEPT !.pc = "done"] ELSE caller[c]]
    /\ client' = [client EXCEPT ![p] = [halted |-> FALSE, used |-> 0]]
    /\ writer' = IF writer # None /\ Home[writer] = p THEN None ELSE writer
    /\ UNCHANGED <<age, lease, cooling, slot, quiet>>

\* Units that have passed and units that are left, as far as they matter.
Past(units, limit) == IF units < limit THEN units + 1 ELSE units
Left(units) == IF units > 0 THEN units - 1 ELSE 0
Horizon == IF Patience > Ttl THEN Patience + 1 ELSE Ttl + 1

\* A transaction takes no time; everything else may.
Tick ==
    /\ Free
    /\ age' = [k \in Keys |-> IF age[k] = None THEN None ELSE Past(age[k], Ttl + 1)]
    /\ lease' = [k \in Keys |-> IF lease[k] = None \/ lease[k].left < 0 THEN lease[k]
                                ELSE [lease[k] EXCEPT !.left = @ - 1]]
    /\ cooling' = Left(cooling) /\ slot' = Left(slot) /\ quiet' = Past(quiet, Gap)
    /\ caller' = [c \in Callers |->
          IF c \notin Live \/ caller[c].pc = "releasing" THEN caller[c]
          ELSE [caller[c] EXCEPT
                  !.waited = IF caller[c].pc \in Seeking THEN Past(@, Horizon) ELSE 0,
                  !.held = IF caller[c].pc \in Fetching \cup {"leased"} THEN Past(@, Lease + 1) ELSE 0]]
    /\ UNCHANGED <<writer, client>>

CallerStep(c) ==
    \/ Ask(c) \/ TakeLease(c) \/ Poll(c) \/ Decide(c) \/ Release(c)
    \/ BeginSlot(c) \/ SlotFails(c) \/ BookSlot(c) \/ Response(c) \/ Retry(c) \/ Cancel(c)

FetchNext == Tick \/ (\E c \in Callers : CallerStep(c)) \/ \E p \in Processes : Crash(p)

----------------------------------------------------------------------------
(* Properties.                                                             *)

\* Of two processes that fetch one answer at a time, one has outstayed its lease,
\* although the overtaken one still cleans up after itself.
SingleFlight ==
    \A c, d \in Callers :
        /\ c # d /\ caller[c].pc \in Fetching /\ caller[d].pc \in Fetching
        /\ Key(c) = Key(d)
        => caller[c].held > Lease \/ caller[d].held > Lease

\* All processes together ask the provider no more often than its rate allows.
Paced ==
    \A c \in Callers : caller[c].pc = "booking" /\ caller'[c].pc = "requesting"
        => quiet >= Gap

\* A client that has been refused, or has spent its budget, sends nothing more,
\* not even for a caller that began to wait for its slot before.
Restrained ==
    \A p \in Processes : client'[p].used > client[p].used
        => ~client[p].halted /\ client[p].used < Budget

\* What the provider may expect of all processes together.
ProviderSpared == [][Paced /\ Restrained]_fetchVars
=============================================================================
