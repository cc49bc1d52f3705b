--------------------------- MODULE ServiceShutdown ---------------------------
(***************************************************************************)
(* The application-wide shutdown (backend/app/shutdown.py) over the two    *)
(* owners it stops: the analysis scheduler, whose running jobs call the    *)
(* engine, and the engine runtime, which also serves direct calls and      *)
(* health checks.  The steps of both are those of their own modules; this  *)
(* one adds what ties them together.                                       *)
(*                                                                         *)
(* The engine call of a job is named after the job.  It is awaited by the  *)
(* consumer task that runs the job, so the job cannot end before it.       *)
(***************************************************************************)
EXTENDS AnalysisScheduler

CONSTANTS
    DirectCalls,   \* run_engine outside a scheduled analysis
    Capacity,      \* permits of the runtime
    Checkers,      \* invocations of check_engine
    NoProbe        \* _health_probe is None

VARIABLES
    rtPhase, permits, line, call, idle, current, probe, retirement, checker,
    joined, cache,    \* the runtime, see EngineRuntime
    idleSeen,         \* the drain's runtime.wait_idle() has returned
    deadline          \* the drain deadline: "ahead", "past" or, once closing, "met"

R == INSTANCE EngineRuntime
         WITH phase <- rtPhase, Calls <- Jobs \cup DirectCalls, Admitted <- Jobs

runtimeVars == <<rtPhase, permits, line, call, idle, current, probe, retirement,
                 checker, joined, cache>>
drainVars   == <<idleSeen, deadline>>
systemVars  == <<vars, runtimeVars, drainVars>>

ASSUME ServiceAssumption ==
    /\ DirectCalls \cap Jobs = {}
    /\ Capacity \in Nat \ {0}
    /\ NoProbe \notin Checkers

ServiceInit ==
    /\ Init
    /\ R!Init
    /\ idleSeen = FALSE
    /\ deadline = "ahead"

\* The Event's waiter is released for good the first time the event is set,
\* even if an analysis makes its next call right after.
Latch == idleSeen' = (idleSeen \/ (phase = "draining" /\ idle'))

CallOver(j) == j # NoJob => call[j] \in R!Over \cup {"new"}

----------------------------------------------------------------------------
(* Steps of one owner.                                                     *)

\* Scheduler steps that no engine call is involved in.
SchedulerAlone ==
    /\ \/ Tick
       \/ \E j \in Jobs : CallerStep(j)
       \/ \E w \in Workers : DequeueExpired(w) \/ DequeueStart(w) \/ CancelIdle(w)
       \/ SweeperStep
       \/ Start \/ ConsumersGone \/ FlushOne \/ FlushEnd
    /\ UNCHANGED <<runtimeVars, drainVars>>

\* job.run() goes on only when its engine call is over.
JobGoesOn(w) ==
    /\ CallOver(workerJob[w])
    /\ Settle(w) \/ Return(w) \/ Raise(w) \/ CancelRun(w) \/ AbsorbCancel(w)
    /\ UNCHANGED <<runtimeVars, drainVars>>

\* A running job enters its engine stage.
JobCalls(w) ==
    /\ LoopFree
    /\ worker[w] = "running" /\ w \notin cancelled
    /\ status[workerJob[w]] = "running"
    /\ LET j == workerJob[w] IN R!CallStarts(j) \/ R!CallWaits(j) \/ R!CallRefused(j)
    /\ Latch
    /\ UNCHANGED <<vars, deadline>>

\* A consumer's cancellation, or the wait timeout, reaches the engine call.
JobCallCancelled(w) ==
    /\ LoopFree
    /\ worker[w] = "running"
    /\ w \in cancelled \/ call[workerJob[w]] \in {"waiting", "granted"}
    /\ R!CancelCall(workerJob[w])
    /\ UNCHANGED <<vars, drainVars>>

CallsGoOn ==
    /\ LoopFree
    /\ \/ \E c \in Jobs \cup DirectCalls :
             R!CallResumes(c) \/ R!CancelledLeaves(c) \/ R!CallEnds(c)
       \/ \E c \in DirectCalls : R!CallRefused(c) \/ R!CallStarts(c) \/ R!CancelCall(c)
    /\ Latch
    /\ UNCHANGED <<vars, deadline>>

ChecksGoOn ==
    /\ LoopFree
    /\ (\E h \in Checkers : R!CheckStep(h) \/ R!ProbeStep(h)) \/ R!CacheExpires
    /\ Latch
    /\ UNCHANGED <<vars, deadline>>

RuntimeCloses ==
    /\ LoopFree
    /\ R!CloseCancels \/ R!CloseEnds
    /\ UNCHANGED <<vars, drainVars>>

----------------------------------------------------------------------------
(* Steps of the coordinator: shutdown_services and _shutdown_services.     *)

\* Both admissions end in one stretch, without an await between them.
BeginShutdownOfBoth ==
    /\ BeginShutdown
    /\ R!BeginDrain
    /\ idleSeen' = idle
    /\ UNCHANGED deadline

\* asyncio.timeout_at(deadline) expires first.
DeadlinePasses ==
    /\ phase = "draining"
    /\ deadline = "ahead"
    /\ deadline' = "past"
    /\ UNCHANGED <<vars, runtimeVars, idleSeen>>

DrainedByJobs == join = "released"  \* mutant: the runtime's calls are not awaited
DrainedByCalls == idleSeen          \* mutant: the scheduler's jobs are not awaited

\* gather(scheduler.wait_idle(), runtime.wait_idle()) has returned.
Drained == join = "released" /\ idleSeen

\* mutant: a drain without a deadline
CloseBothWhenDrained ==
    /\ Drained
    /\ deadline' = IF deadline = "ahead" THEN "met" ELSE "past"
    /\ Close
    /\ R!CloseBegins
    /\ UNCHANGED idleSeen

\* gather(scheduler.close(), runtime.close()) begins both closes.
CloseBoth ==
    /\ \/ deadline = "ahead" /\ Drained
       \/ deadline = "past"
    /\ deadline' = IF deadline = "ahead" THEN "met" ELSE "past"
    /\ Close
    /\ R!CloseBegins
    /\ UNCHANGED idleSeen

\* mutant: the history is cleared as soon as the scheduler has closed
ClearEarly ==
    /\ ClearHistory
    /\ UNCHANGED <<runtimeVars, drainVars>>

\* The history and the contexts go when both owners have really finished.
ClearWhenBothClosed ==
    /\ ClearHistory
    /\ rtPhase = "closed"
    /\ UNCHANGED <<runtimeVars, drainVars>>

----------------------------------------------------------------------------
ServiceNext ==
    \/ SchedulerAlone
    \/ \E w \in Workers : JobGoesOn(w) \/ JobCalls(w) \/ JobCallCancelled(w)
    \/ CallsGoOn \/ ChecksGoOn \/ RuntimeCloses
    \/ BeginShutdownOfBoth \/ DeadlinePasses \/ CloseBoth \/ ClearWhenBothClosed

ServiceSpec == ServiceInit /\ [][ServiceNext]_systemVars

\* As in the two modules; besides, the deadline's timer fires.  A running job
\* need not end, until it is cancelled.
ServiceFairness ==
    /\ SF_systemVars(SchedulerAlone /\ (\/ Tick
                                       \/ \E j \in Jobs : PreparationEnds(j)
                                       \/ \E w \in Workers : DequeueExpired(w) \/ DequeueStart(w)))
    /\ WF_systemVars(SweeperStep /\ UNCHANGED <<runtimeVars, drainVars>>)
    /\ WF_systemVars(DeadlinePasses)
    /\ SF_systemVars(CloseBoth)
    /\ \A w \in Workers :
          /\ WF_systemVars((CancelRun(w) \/ AbsorbCancel(w) \/ CancelIdle(w))
                           /\ CallOver(workerJob[w]) /\ UNCHANGED <<runtimeVars, drainVars>>)
          /\ WF_systemVars(JobCallCancelled(w))
    /\ SF_systemVars(CallsGoOn /\ \E c \in Jobs \cup DirectCalls : call[c] # "new" /\ call'[c] # call[c])
    /\ SF_systemVars(ChecksGoOn /\ \E p \in Checkers : R!ProbeStep(p))
    /\ SF_systemVars(RuntimeCloses)
    /\ WF_systemVars(SchedulerAlone /\ (ConsumersGone \/ FlushOne \/ FlushEnd))
    /\ WF_systemVars(ClearWhenBothClosed)

FairServiceSpec == ServiceSpec /\ ServiceFairness

----------------------------------------------------------------------------
(* Properties.                                                             *)

\* When the drain ends within the grace period, the closes that follow cancel
\* nobody: no job runs or waits, and no call and no probe is left.
GracefulCancelsNothing ==
    deadline = "met" /\ rtPhase = "closing" =>
        /\ queue = <<>> /\ Busy = {}
        /\ R!Active(call) = {}
        /\ \A p \in Checkers : ~R!Alive(probe[p])

\* An accepted analysis is lost to the shutdown only when the grace period is
\* over: until then no running job is cancelled, no queued job is flushed and
\* the engine refuses no job's call, however the last jobs, their calls, the
\* sweeper and the two waits of the drain end around each other.
OnlyDeadlineInterrupts ==
    [][\/ \E w \in cancelled' \ cancelled : worker[w] = "running"
       \/ phase = "flushing" /\ queue # queue'
       \/ \E j \in Jobs : call[j] = "new" /\ call'[j] = "stopped"
       => deadline' = "past"]_systemVars

\* When the records and contexts are cleared nobody is left who could use them
\* or add to them: no job, no engine call and no probe.
ClearedQuiet ==
    phase = "cleared" => /\ Busy = {} /\ queue = <<>>
                         /\ R!Active(call) = {}
                         /\ \A p \in Checkers : ~R!Alive(probe[p])

\* A begun shutdown ends, even when no running job does.
ShutdownReturns == phase = "draining" ~> phase = "cleared"
=============================================================================
