---------------------------- MODULE EngineRuntime ----------------------------
(***************************************************************************)
(* The owner of the C++ engine on one event loop (backend/app/engine.py,   *)
(* class EngineRuntime): business calls share a fixed number of permits,   *)
(* health checks share one probe and a short cache, and shutdown drains,   *)
(* then cancels and waits for local cleanup.                               *)
(*                                                                         *)
(* A stretch of Python without an await is one step.  asyncio.Semaphore is *)
(* external, and modelled as the code relies on it: release() hands the    *)
(* permit to the first waiter, which still has to be resumed, and locked() *)
(* is true while anyone is in the line, even one already served.           *)
(***************************************************************************)
EXTENDS Integers, Sequences, FiniteSets

CONSTANTS
    Calls,      \* invocations of run_engine
    Admitted,   \* those of scheduled analyses, inside engine_wait_scope
    Capacity,   \* permits of the semaphore
    Checkers,   \* invocations of check_engine; a probe has the name of its creator
    NoProbe     \* _health_probe is None

ASSUME RuntimeAssumption ==
    /\ Admitted \subseteq Calls
    /\ Capacity \in Nat \ {0}
    /\ NoProbe \notin Checkers

VARIABLES
    phase,        \* _draining, _closing, _closed and the progress of _close()
    permits,      \* _permits: the semaphore's value
    line,         \* callers waiting in acquire(), first come first
    call,         \* where each invocation of run_engine stands
    idle,         \* the _idle event
    current,      \* _health_probe
    probe,        \* the task of each probe
    retirement,   \* the _retire_probe task of each probe
    checker,      \* where each invocation of check_engine stands
    joined,       \* the probe an invocation of check_engine waits for
    cache         \* _health_cache

callVars  == <<permits, line, call>>
checkVars == <<checker, joined>>
probeVars == <<current, probe, retirement, cache>>
vars == <<phase, idle, callVars, checkVars, probeVars>>

Waiting == {"waiting", "leaving"}                    \* leaving: already cancelled
Owning  == {"granted", "returning", "computing", "cleaning"}
Over    == {"done", "stopped"}

Closing == phase \in {"closing", "cancelling", "closed"}
Active(calls) == {c \in Calls : calls[c] \in Waiting \cup Owning}      \* _calls
Alive(task) == task \in {"running", "cancelling"}
WaitersOf(p) == {h \in Checkers : checker[h] = "joined" /\ joined[h] = p}

TypeOK ==
    /\ phase \in {"open", "draining", "closing", "cancelling", "closed"}
    /\ permits \in 0..Capacity
    /\ line \in Seq(Calls)
    /\ call \in [Calls -> {"new"} \cup Waiting \cup Owning \cup Over]
    /\ idle \in BOOLEAN
    /\ current \in Checkers \cup {NoProbe}
    /\ probe \in [Checkers -> {"none", "running", "cancelling", "done"}]
    /\ retirement \in [Checkers -> {"none", "pending", "done"}]
    /\ checker \in [Checkers -> {"new", "joined", "retrying", "finishing", "over"}]
    /\ joined \in [Checkers -> Checkers \cup {NoProbe}]
    /\ cache \in {"none", "fresh", "stale"}

Init ==
    /\ phase = "open"
    /\ permits = Capacity
    /\ line = <<>>
    /\ call = [c \in Calls |-> "new"]
    /\ idle = TRUE
    /\ current = NoProbe
    /\ probe = [h \in Checkers |-> "none"]
    /\ retirement = [h \in Checkers |-> "none"]
    /\ checker = [h \in Checkers |-> "new"]
    /\ joined = [h \in Checkers |-> NoProbe]
    /\ cache = "none"

\* _sync_idle(), over the values after the step.
SyncIdle == idle' = /\ Active(call') = {}
                    /\ current' # NoProbe => ~Alive(probe'[current'])

----------------------------------------------------------------------------
(* Business calls: run_engine.                                             *)

\* Semaphore.locked().
Locked == \/ permits = 0
          \/ \E c \in Calls : call[c] \in {"waiting", "granted", "returning"}

\* With n permits free, at most `most` waiters are woken, first come first:
\* release() wakes one, the end of acquire() all it can.
Serve(n, most, calls) ==
    LET limits == {n, most, Len(line)}
        served == CHOOSE k \in limits : \A l \in limits : k <= l IN
    /\ permits' = n - served
    /\ line' = SubSeq(line, served + 1, Len(line))
    /\ call' = [c \in Calls |-> IF \E i \in 1..served : line[i] = c
                                THEN "granted" ELSE calls[c]]


MayCall(c) == phase = "open" \/ (phase = "draining" /\ c \in Admitted)

\* EngineBusy at once: the runtime closes, or drains and the call is not an
\* admitted analysis, or a direct caller meets a busy semaphore.
CallRefused(c) ==
    /\ call[c] = "new"
    /\ ~MayCall(c) \/ (c \notin Admitted /\ Locked)
    /\ call' = [call EXCEPT ![c] = "stopped"]
    /\ UNCHANGED <<phase, permits, line, checkVars, probeVars>>
    /\ SyncIdle

\* A free permit is taken without an await in between.
CallStarts(c) ==
    /\ call[c] = "new"
    /\ MayCall(c)
    /\ ~Locked
    /\ permits' = permits - 1
    /\ call' = [call EXCEPT ![c] = "computing"]
    /\ UNCHANGED <<phase, line, checkVars, probeVars>>
    /\ SyncIdle

\* An admitted analysis waits in the line.
CallWaits(c) ==
    /\ call[c] = "new"
    /\ c \in Admitted
    /\ MayCall(c)
    /\ Locked
    /\ line' = Append(line, c)
    /\ call' = [call EXCEPT ![c] = "waiting"]
    /\ UNCHANGED <<phase, permits, checkVars, probeVars>>
    /\ SyncIdle

\* acquire() returns; a runtime that began to close meanwhile refuses, and
\* the finally clause returns the permit.
CallResumes(c) ==
    /\ call[c] = "granted"
    /\ IF Closing
       THEN Serve(permits + 1, Len(line), [call EXCEPT ![c] = "stopped"])
       ELSE Serve(permits, Len(line), [call EXCEPT ![c] = "computing"])
    /\ UNCHANGED <<phase, checkVars, probeVars>>
    /\ SyncIdle

\* The line without a caller's future, which is in it at most once.
Without(c) ==
    IF \E i \in DOMAIN line : line[i] = c
    THEN LET at == CHOOSE i \in DOMAIN line : line[i] = c IN
         [k \in 1..(Len(line) - 1) |-> line[IF k < at THEN k ELSE k + 1]]
    ELSE line

\* task.cancel() reaches the call, from its client, from wait_for's timer or
\* from _close(): a future that still waits is cancelled at once and no longer
\* in the line, one already granted will give its permit back, and a running
\* engine call begins its shielded cleanup.
AfterCancel(state) ==
    CASE state = "waiting"   -> "leaving"
      [] state = "granted"   -> "returning"
      [] state = "computing" -> "cleaning"
      [] OTHER               -> state

CancelCall(c) ==
    /\ call[c] \in {"waiting", "granted", "computing"}
    /\ call' = [call EXCEPT ![c] = AfterCancel(@)]
    /\ line' = Without(c)
    /\ UNCHANGED <<phase, permits, idle, checkVars, probeVars>>

\* The cancelled acquire() is resumed: EngineBusy after a timeout,
\* CancelledError otherwise.
CancelledLeaves(c) ==
    /\ call[c] \in {"leaving", "returning"}
    /\ Serve(IF call[c] = "returning" THEN permits + 1 ELSE permits,
             Len(line), [call EXCEPT ![c] = "stopped"])
    /\ UNCHANGED <<phase, checkVars, probeVars>>
    /\ SyncIdle

\* mutant: the permit is lost when a cancelled call has cleaned up
CallEndsLeaking(c) ==
    /\ call[c] \in {"computing", "cleaning"}
    /\ Serve(IF call[c] = "computing" THEN permits + 1 ELSE permits,
             1, [call EXCEPT ![c] = IF @ = "computing" THEN "done" ELSE "stopped"])
    /\ UNCHANGED <<phase, checkVars, probeVars>>
    /\ SyncIdle

\* The transport returns or raises, or the cleanup of a cancelled call ends.
CallEnds(c) ==
    /\ call[c] \in {"computing", "cleaning"}
    /\ Serve(permits + 1, 1,
             [call EXCEPT ![c] = IF @ = "computing" THEN "done" ELSE "stopped"])
    /\ UNCHANGED <<phase, checkVars, probeVars>>
    /\ SyncIdle

----------------------------------------------------------------------------
(* Health checks: check_engine and the shared probe.                       *)

\* A check runs its loop body when it begins, and again when the retirement
\* it waited for is over.
Asking(h) == \/ checker[h] = "new"
             \/ checker[h] = "retrying" /\ retirement[joined[h]] = "done"

Retiring == current # NoProbe /\ retirement[current] # "none"

\* The probe in charge, a finished one being dropped.
Kept == IF current # NoProbe /\ probe[current] = "done" THEN NoProbe ELSE current

CheckRefused(h) ==
    /\ Asking(h)
    /\ phase # "open"
    /\ checker' = [checker EXCEPT ![h] = "over"]
    /\ UNCHANGED <<phase, idle, callVars, joined, probeVars>>

\* A probe is being retired: its cleanup has to end before the next begins.
CheckRetries(h) ==
    /\ Asking(h)
    /\ phase = "open"
    /\ Retiring
    /\ checker' = [checker EXCEPT ![h] = "retrying"]
    /\ joined' = [joined EXCEPT ![h] = current]
    /\ UNCHANGED <<phase, idle, callVars, probeVars>>

CheckCached(h) ==
    /\ Asking(h)
    /\ phase = "open"
    /\ ~Retiring
    /\ cache = "fresh"
    /\ current' = Kept
    /\ checker' = [checker EXCEPT ![h] = "over"]
    /\ UNCHANGED <<phase, idle, callVars, joined, probe, retirement, cache>>

CheckJoins(h) ==
    /\ Asking(h)
    /\ phase = "open"
    /\ ~Retiring
    /\ cache # "fresh"
    /\ Kept # NoProbe
    /\ checker' = [checker EXCEPT ![h] = "joined"]
    /\ joined' = [joined EXCEPT ![h] = Kept]
    /\ UNCHANGED <<phase, idle, callVars, probeVars>>

\* mutant: a replacement begins while the cancelled probe is cleaning up
CheckStartsEarly(h) ==
    /\ Asking(h)
    /\ phase = "open"
    /\ cache # "fresh"
    /\ Kept = NoProbe \/ Retiring
    /\ current' = h
    /\ probe' = [probe EXCEPT ![h] = "running"]
    /\ checker' = [checker EXCEPT ![h] = "joined"]
    /\ joined' = [joined EXCEPT ![h] = h]
    /\ UNCHANGED <<phase, callVars, retirement, cache>>
    /\ SyncIdle

CheckStarts(h) ==
    /\ Asking(h)
    /\ phase = "open"
    /\ ~Retiring
    /\ cache # "fresh"
    /\ Kept = NoProbe
    /\ current' = h
    /\ probe' = [probe EXCEPT ![h] = "running"]
    /\ checker' = [checker EXCEPT ![h] = "joined"]
    /\ joined' = [joined EXCEPT ![h] = h]
    /\ UNCHANGED <<phase, callVars, retirement, cache>>
    /\ SyncIdle

\* _probe_health() returns, and its done callback runs before any waiter.
ProbeAnswers(p) ==
    /\ probe[p] = "running"
    /\ probe' = [probe EXCEPT ![p] = "done"]
    /\ cache' = IF Closing THEN cache ELSE "fresh"
    /\ UNCHANGED <<phase, callVars, checkVars, current, retirement>>
    /\ SyncIdle

\* The transport has cleaned up after a cancelled probe.
ProbeCancelled(p) ==
    /\ probe[p] = "cancelling"
    /\ probe' = [probe EXCEPT ![p] = "done"]
    /\ UNCHANGED <<phase, callVars, checkVars, current, retirement, cache>>
    /\ SyncIdle

\* _begin_probe_retirement(p), once per probe.
BeginRetirement(p) ==
    IF retirement[p] = "none"
    THEN /\ retirement' = [retirement EXCEPT ![p] = "pending"]
         /\ probe' = [probe EXCEPT ![p] = IF @ = "running" THEN "cancelling" ELSE @]
    ELSE UNCHANGED <<retirement, probe>>

\* The finally clause of check_engine: only the last waiter retires a probe
\* that still runs, and waits for a retirement that has begun.
LeaveProbe(h) ==
    LET p == joined[h] IN
    IF WaitersOf(p) # {h}
    THEN /\ checker' = [checker EXCEPT ![h] = "over"]
         /\ UNCHANGED <<current, probe, retirement>>
    ELSE /\ IF probe[p] = "done" THEN UNCHANGED <<retirement, probe>>
                                 ELSE BeginRetirement(p)
         /\ checker' = [checker EXCEPT ![h] = IF retirement'[p] = "pending"
                                              THEN "finishing" ELSE "over"]
         /\ current' = IF retirement'[p] = "none" /\ current = p
                       THEN NoProbe ELSE current

\* The probe's outcome, a result or the CancelledError of _close(), reaches
\* one of its waiters.
CheckResumes(h) ==
    /\ checker[h] = "joined"
    /\ probe[joined[h]] = "done"
    /\ LeaveProbe(h)
    /\ UNCHANGED <<phase, idle, callVars, joined, cache>>

\* The client of a check goes away while the probe runs.
CancelCheck(h) ==
    /\ checker[h] = "joined"
    /\ Alive(probe[joined[h]])
    /\ LeaveProbe(h)
    /\ UNCHANGED <<phase, idle, callVars, joined, cache>>

\* Or while it waits for a retirement that belongs to others.
CancelRetry(h) ==
    /\ checker[h] = "retrying"
    /\ checker' = [checker EXCEPT ![h] = "over"]
    /\ UNCHANGED <<phase, idle, callVars, joined, probeVars>>

\* _finish_cleanup(probe.retirement) returns, however often it was cancelled.
CheckFinishes(h) ==
    /\ checker[h] = "finishing"
    /\ retirement[joined[h]] = "done"
    /\ checker' = [checker EXCEPT ![h] = "over"]
    /\ UNCHANGED <<phase, idle, callVars, joined, probeVars>>

\* mutant: the retired probe stays in place
RetireKeepsProbe(p) ==
    /\ retirement[p] = "pending"
    /\ probe[p] = "done"
    /\ retirement' = [retirement EXCEPT ![p] = "done"]
    /\ UNCHANGED <<phase, callVars, checkVars, current, probe, cache>>
    /\ SyncIdle

\* _retire_probe() has seen the task end.
Retire(p) ==
    /\ retirement[p] = "pending"
    /\ probe[p] = "done"
    /\ retirement' = [retirement EXCEPT ![p] = "done"]
    /\ current' = IF current = p THEN NoProbe ELSE current
    /\ UNCHANGED <<phase, callVars, checkVars, probe, cache>>
    /\ SyncIdle

\* health_cache_ttl passes.
CacheExpires ==
    /\ cache = "fresh"
    /\ cache' = "stale"
    /\ UNCHANGED <<phase, idle, callVars, checkVars, current, probe, retirement>>

----------------------------------------------------------------------------
(* Shutdown: begin_drain() and close().                                    *)

BeginDrain ==
    /\ phase = "open"
    /\ phase' = "draining"
    /\ UNCHANGED <<idle, callVars, checkVars, probeVars>>

\* close() sets the flag and creates the task of _close().
CloseBegins ==
    /\ phase \in {"open", "draining"}
    /\ phase' = "closing"
    /\ UNCHANGED <<idle, callVars, checkVars, probeVars>>

\* _close(): every call is cancelled, and the probe if there is one.
CloseCancels ==
    /\ phase = "closing"
    /\ phase' = "cancelling"
    /\ call' = [c \in Calls |-> AfterCancel(call[c])]
    /\ line' = <<>>
    /\ IF current = NoProbe THEN UNCHANGED <<probe, retirement>>
                            ELSE BeginRetirement(current)
    /\ UNCHANGED <<permits, idle, checkVars, current, cache>>

\* gather() has seen the calls and the retirement end.
CloseEnds ==
    /\ phase = "cancelling"
    /\ Active(call) = {}
    /\ \A p \in Checkers : retirement[p] # "pending"
    /\ phase' = "closed"
    /\ cache' = "none"
    /\ UNCHANGED <<idle, callVars, checkVars, current, probe, retirement>>

----------------------------------------------------------------------------
CallStep(c) ==
    \/ CallRefused(c) \/ CallStarts(c)      \/ CallWaits(c) \/ CallResumes(c)
    \/ CancelCall(c)  \/ CancelledLeaves(c) \/ CallEnds(c)

Ask(h) == \/ CheckRefused(h) \/ CheckRetries(h) \/ CheckCached(h)
          \/ CheckJoins(h)   \/ CheckStarts(h)

ProbeStep(p) == ProbeAnswers(p) \/ ProbeCancelled(p) \/ Retire(p)

CheckStep(h) ==
    \/ Ask(h) \/ CheckResumes(h) \/ CheckFinishes(h)
    \/ CancelCheck(h) \/ CancelRetry(h)

Next ==
    \/ \E c \in Calls : CallStep(c)
    \/ \E h \in Checkers : CheckStep(h) \/ ProbeStep(h)
    \/ CacheExpires
    \/ BeginDrain \/ CloseBegins \/ CloseCancels \/ CloseEnds

Spec == Init /\ [][Next]_vars

\* The loop resumes what is ready, an engine call ends (both transports bound
\* it with a timeout) and so does its cleanup, and a close() that has begun
\* goes on.  Nobody has to call, to cancel or to close.
RuntimeFairness ==
    /\ \A c \in Calls : WF_vars(CallResumes(c) \/ CancelledLeaves(c) \/ CallEnds(c))
    /\ \A h \in Checkers : /\ WF_vars(ProbeStep(h))
                           /\ WF_vars(CheckResumes(h) \/ CheckFinishes(h))
                           /\ WF_vars(checker[h] = "retrying" /\ Ask(h))
    /\ WF_vars(CloseCancels \/ CloseEnds)

FairSpec == Spec /\ RuntimeFairness

----------------------------------------------------------------------------
(* Properties.                                                             *)

\* Permits are neither lost nor made, whichever of the many exits of
\* run_engine a call takes, and a free permit with a caller in the line is
\* on its way: someone already served will pass it on.
PermitsBalance ==
    /\ permits + Cardinality({c \in Calls : call[c] \in Owning}) = Capacity
    /\ line # <<>> /\ permits > 0
          => \E c \in Calls : call[c] \in {"granted", "returning"}

\* Two probes never run at once, not even while a cancelled one is still
\* cleaning up, and the one that runs is the one callers are told about.
OneProbe == \A p \in Checkers : Alive(probe[p]) => current = p

\* The event the drain waits for is set exactly when no call and no probe is
\* left: set too early it ends the drain under them, too late it wastes it.
IdleExact == idle <=> /\ Active(call) = {}
                      /\ \A p \in Checkers : ~Alive(probe[p])

\* close() leaves no call, no probe and no cached answer, and all permits.
ClosedQuiet ==
    phase = "closed" => /\ Active(call) = {} /\ permits = Capacity /\ line = <<>>
                        /\ current = NoProbe /\ cache = "none"
                        /\ \A p \in Checkers : ~Alive(probe[p])

\* The permits, the event the drain trusts and the closed state together.
PermitsConsistent == TypeOK /\ PermitsBalance /\ IdleExact /\ ClosedQuiet

\* Nobody joins a probe that had ended: its answer may be older than the cache
\* allows.
JoinsRunning ==
    \A h \in Checkers : checker[h] # "joined" /\ checker'[h] = "joined"
        => probe'[joined'[h]] = "running"

\* A probe is cancelled only when nobody waits for it or the runtime closes.
CancelsUnwanted ==
    \A p \in Checkers : probe[p] = "running" /\ probe'[p] = "cancelling"
        => phase = "closing" \/ WaitersOf(p)' = {}

\* One probe serves everybody who asks, while it lasts and only while it lasts.
ProbeShared == [][OneProbe' /\ JoinsRunning /\ CancelsUnwanted]_vars

\* An analysis in the line is served or leaves it: nobody's exit forgets to
\* wake the next.
WaitersServed == \A c \in Calls : call[c] = "waiting" ~> call[c] # "waiting"

\* Every health check gets an answer, however the probe ends.
ChecksAnswered == \A h \in Checkers : checker[h] \in {"joined", "retrying", "finishing"}
                                          ~> checker[h] = "over"

\* close() ends.
CloseReturns == phase = "closing" ~> phase = "closed"

\* Nobody is left waiting: no analysis in the line, no health check, no close().
NobodyLeftWaiting == WaitersServed /\ ChecksAnswered /\ CloseReturns
=============================================================================
