-------------------------- MODULE AnalysisScheduler --------------------------
(***************************************************************************)
(* The bounded scheduler that the four analysis endpoints share            *)
(* (backend/app/analysis_scheduler.py), the retention of its terminal      *)
(* records (analysis_history.py), the submit protocol of its HTTP callers  *)
(* (main.py, _submit_analysis) and its part of the application shutdown    *)
(* (shutdown.py).                                                          *)
(*                                                                         *)
(* Everything runs on one event loop: a stretch of Python without an       *)
(* await is one step, except that the two loops over the queue (the        *)
(* sweeper's rotation and the drain of close()) take one step per item     *)
(* and hold the loop, so that their effect can be reasoned about item by   *)
(* item while nobody else moves.                                           *)
(***************************************************************************)
EXTENDS Integers, Sequences, FiniteSets

CONSTANTS
    Jobs,             \* analysis requests; a request and its job have one identity
    Workers,          \* the consumer tasks, analysis-worker-i
    NoJob,            \* what an idle worker works on
    PendingLimit,     \* pending_limit: reservations plus queued jobs
    QueueTimeout,     \* queue_timeout, in ticks of the clock
    HistoryTtl,       \* AnalysisHistory.ttl, in ticks
    HistoryCapacity,  \* AnalysisHistory.capacity
    ContextCapacity,  \* PoiRouteStore.capacity
    AbsorbingJobs     \* jobs whose cleanup may fail and so replace CancelledError

ASSUME SchedulerAssumption ==
    /\ NoJob \notin Jobs
    /\ IsFiniteSet(Workers)    \* range(concurrency)
    /\ PendingLimit \in Nat \ {0}
    /\ QueueTimeout \in Nat \ {0}
    /\ HistoryTtl \in Nat \ {0}
    /\ HistoryCapacity \in Nat \ {0}
    /\ ContextCapacity \in Nat \ {0}
    /\ AbsorbingJobs \subseteq Jobs

VARIABLES
    phase,        \* lifetime of the scheduler object
    accepting,    \* AnalysisScheduler.accepting
    reservation,  \* _reservations: what each request holds
    caller,       \* where the HTTP handler of each request stands
    queue,        \* asyncio.Queue of submitted jobs
    waited,       \* age of each queued job, capped at QueueTimeout
    unfinished,   \* the queue's count of items without task_done
    join,         \* the wait_idle() call of the shutdown coordinator
    worker,       \* each consumer task
    workerJob,    \* the job a busy consumer runs
    cancelled,    \* consumers with an undelivered task.cancel()
    running,      \* AnalysisScheduler.running
    status,       \* AnalysisState.status of each job
    store,        \* jobs whose record the API stores hold
    history,      \* AnalysisHistory._records, oldest first
    recordAge,    \* age of each terminal record, capped at HistoryTtl
    contexts,     \* jobs with a POI route context, PoiRouteStore.contexts
    sweeper,      \* the analysis-queue-sweeper task
    toRotate      \* items the current rotation has not looked at

callerVars   == <<reservation, caller>>
queueVars    == <<queue, waited, unfinished, join>>
workerVars   == <<worker, workerJob, cancelled, running>>
recordVars   == <<status, store, history, recordAge, contexts>>
controlVars  == <<phase, accepting, sweeper, toRotate>>
vars == <<callerVars, queueVars, workerVars, recordVars, controlVars>>

Terminal == {"completed", "failed"}
Elements(seq) == {seq[i] : i \in DOMAIN seq}
CappedNext(age, cap) == IF age < cap THEN age + 1 ELSE cap

Pending == {j \in Jobs : reservation[j] # "none"}
Busy == {w \in Workers : worker[w] = "running"}

TypeOK ==
    /\ phase \in {"new", "open", "draining", "cancelling", "flushing",
                  "closed", "cleared"}
    /\ accepting \in BOOLEAN
    /\ reservation \in [Jobs -> {"none", "reserved", "queued"}]
    /\ caller \in [Jobs -> {"idle", "preparing", "abandoned", "accepted",
                            "refused"}]
    /\ queue \in Seq(Jobs)
    /\ waited \in [Jobs -> 0..QueueTimeout]
    /\ unfinished \in Int
    /\ join \in {"none", "waiting", "released"}
    /\ worker \in [Workers -> {"off", "waiting", "running", "gone"}]
    /\ workerJob \in [Workers -> Jobs \cup {NoJob}]
    /\ cancelled \subseteq Workers
    /\ running \in Int
    /\ status \in [Jobs -> {"none", "queued", "running"} \cup Terminal]
    /\ store \subseteq Jobs
    /\ history \in Seq(Jobs)
    /\ recordAge \in [Jobs -> 0..HistoryTtl]
    /\ contexts \subseteq Jobs
    /\ sweeper \in {"off", "asleep", "rotating", "gone"}
    /\ toRotate \in Int

Init ==
    /\ phase = "new"
    /\ accepting = FALSE
    /\ reservation = [j \in Jobs |-> "none"]
    /\ caller = [j \in Jobs |-> "idle"]
    /\ queue = <<>>
    /\ waited = [j \in Jobs |-> 0]
    /\ unfinished = 0
    /\ join = "none"
    /\ worker = [w \in Workers |-> "off"]
    /\ workerJob = [w \in Workers |-> NoJob]
    /\ cancelled = {}
    /\ running = 0
    /\ status = [j \in Jobs |-> "none"]
    /\ store = {}
    /\ history = <<>>
    /\ recordAge = [j \in Jobs |-> 0]
    /\ contexts = {}
    /\ sweeper = "off"
    /\ toRotate = 0

\* A loop over the queue without an await keeps every other task waiting.
LoopFree == sweeper # "rotating" /\ phase # "flushing"

----------------------------------------------------------------------------
(* Time.  The code compares ages with a limit, so an age beyond its limit  *)
(* tells it nothing more and the clock itself needs no bound.              *)

Tick ==
    /\ LoopFree
    /\ waited' = [j \in Jobs |-> IF reservation[j] = "queued"
                                 THEN CappedNext(waited[j], QueueTimeout)
                                 ELSE waited[j]]
    /\ recordAge' = [j \in Jobs |-> IF j \in Elements(history)
                                    THEN CappedNext(recordAge[j], HistoryTtl)
                                    ELSE recordAge[j]]
    /\ UNCHANGED <<callerVars, queue, unfinished, join, workerVars, status,
                   store, history, contexts, controlVars>>

IsExpired(j) == waited[j] >= QueueTimeout

----------------------------------------------------------------------------
(* Terminal records: AnalysisHistory.                                      *)

\* The positions prune() pops: the longest prefix of records that are too
\* old or more than the capacity allows.
Prunable(records, age) ==
    {i \in DOMAIN records : \A k \in 1..i :
        \/ age[records[k]] >= HistoryTtl
        \/ Len(records) - k + 1 > HistoryCapacity}

\* mutant: prune() without on_remove
PruneForgetsNoContext(records, age, kept) ==
    LET popped == Prunable(records, age)
        gone   == {records[i] : i \in popped}
    IN  /\ history' = SubSeq(records, Cardinality(popped) + 1, Len(records))
        /\ recordAge' = age
        /\ store' = store \ gone
        /\ contexts' = kept

\* prune(): each popped record leaves its API store, and forget_context
\* drops its route context with it.
Prune(records, age, kept) ==
    LET popped == Prunable(records, age)
        gone   == {records[i] : i \in popped}
    IN  /\ history' = SubSeq(records, Cardinality(popped) + 1, Len(records))
        /\ recordAge' = age
        /\ store' = store \ gone
        /\ contexts' = kept \ gone

\* _finished(): remember() starts a retention period once, for a terminal
\* state that the store still holds.
Remember(j, final, kept) ==
    IF final \in Terminal /\ j \in store
    THEN IF j \in Elements(history)
         THEN Prune(history, recordAge, kept)
         ELSE Prune(Append(history, j), [recordAge EXCEPT ![j] = 0], kept)
    ELSE /\ contexts' = kept
         /\ UNCHANGED <<store, history, recordAge>>

\* clear(), after every owner has finished its cleanup.
ClearHistory ==
    /\ phase = "closed"
    /\ phase' = "cleared"
    /\ store' = store \ Elements(history)
    /\ contexts' = {}     \* forget_context, then _poi_routes.contexts.clear()
    /\ history' = <<>>
    /\ UNCHANGED <<callerVars, queueVars, workerVars, status, recordAge,
                   accepting, sweeper, toRotate>>

\* The route contexts a finished run leaves: an analysis over the synthetic
\* network adds its own, and the store drops some other one when it is full.
ContextsAfter(j) ==
    {contexts} \cup
    {c \in SUBSET (contexts \cup {j}) :
        /\ j \in c
        /\ IF Cardinality(contexts \cup {j}) <= ContextCapacity
           THEN c = contexts \cup {j}
           ELSE Cardinality(c) = ContextCapacity}

----------------------------------------------------------------------------
(* HTTP callers: _submit_analysis.                                         *)

HasPlace == Cardinality(Pending) < PendingLimit

\* reserve() grants a place, before the input is prepared in a thread.
Reserve(j) ==
    /\ LoopFree
    /\ caller[j] = "idle"
    /\ accepting
    /\ HasPlace
    /\ reservation' = [reservation EXCEPT ![j] = "reserved"]
    /\ caller' = [caller EXCEPT ![j] = "preparing"]
    /\ UNCHANGED <<queueVars, workerVars, recordVars, controlVars>>

\* reserve() returns None: 503 ANALYSIS_BUSY, and nothing is created.
ReserveRefused(j) ==
    /\ LoopFree
    /\ caller[j] = "idle"
    /\ ~accepting \/ ~HasPlace
    /\ caller' = [caller EXCEPT ![j] = "refused"]
    /\ UNCHANGED <<reservation, queueVars, workerVars, recordVars, controlVars>>

ReleaseForgotten(j) == reservation' = reservation  \* mutant

\* release() by the caller, who owns the reservation until submit() succeeds.
Release(j) == reservation' = [reservation EXCEPT ![j] =
                                  IF @ = "reserved" THEN "none" ELSE @]

\* The input cannot be prepared (422, 500): the finally clause rolls back.
PreparationFails(j) ==
    /\ LoopFree
    /\ caller[j] = "preparing"
    /\ Release(j)
    /\ caller' = [caller EXCEPT ![j] = "refused"]
    /\ UNCHANGED <<queueVars, workerVars, recordVars, controlVars>>

\* The request task is cancelled; the thread cannot be stopped, so the
\* handler keeps its reservation and waits for it.
CancelRequest(j) ==
    /\ LoopFree
    /\ caller[j] = "preparing"
    /\ caller' = [caller EXCEPT ![j] = "abandoned"]
    /\ UNCHANGED <<reservation, queueVars, workerVars, recordVars, controlVars>>

\* The thread of a cancelled request ends, and CancelledError goes on.
AbandonedEnds(j) ==
    /\ LoopFree
    /\ caller[j] = "abandoned"
    /\ Release(j)
    /\ caller' = [caller EXCEPT ![j] = "refused"]
    /\ UNCHANGED <<queueVars, workerVars, recordVars, controlVars>>

CanSubmitClosing(j) == Len(queue) < PendingLimit  \* mutant

CanSubmit(j) == accepting /\ Len(queue) < PendingLimit

\* The place follows the job into the queue.
Enqueued(j) == reservation' = [reservation EXCEPT ![j] = "queued"]

\* The input is ready: the record is stored and submit() queues the job.
Submit(j) ==
    /\ LoopFree
    /\ caller[j] = "preparing"
    /\ reservation[j] = "reserved"
    /\ CanSubmit(j)
    /\ queue' = Append(queue, j)
    /\ unfinished' = unfinished + 1
    /\ waited' = [waited EXCEPT ![j] = 0]
    /\ Enqueued(j)
    /\ store' = store \cup {j}
    /\ status' = [status EXCEPT ![j] = "queued"]
    /\ caller' = [caller EXCEPT ![j] = "accepted"]
    /\ UNCHANGED <<join, workerVars, history, recordAge, contexts, controlVars>>

\* submit() returns False: the record is popped again and the place returned.
SubmitRefused(j) ==
    /\ LoopFree
    /\ caller[j] = "preparing"
    /\ reservation[j] = "reserved"
    /\ ~CanSubmit(j)
    /\ Release(j)
    /\ store' = store \ {j}
    /\ caller' = [caller EXCEPT ![j] = "refused"]
    /\ UNCHANGED <<queueVars, workerVars, status, history, recordAge, contexts,
                   controlVars>>

----------------------------------------------------------------------------
(* Consumers: _worker and _run_job.                                        *)

\* task_done() once the count stands at n: reaching zero releases join(),
\* which does not look again at the queue when it resumes.
TaskDone(n) ==
    /\ unfinished' = n - 1
    /\ join' = IF n = 1 /\ join = "waiting" THEN "released" ELSE join

ReleaseQueued(j) == reservation' = [reservation EXCEPT ![j] = "none"]

Fail(j) == status' = [status EXCEPT ![j] = "failed"]

\* _expire_queued(): the job will never run, its place is free again.
Expire(j) ==
    /\ ReleaseQueued(j)
    /\ Fail(j)
    /\ Remember(j, "failed", contexts)

CanDequeue(w) ==
    /\ LoopFree
    /\ worker[w] = "waiting"
    /\ w \notin cancelled
    /\ queue # <<>>

\* A delayed sweep must not let an expired job start: the consumer checks.
DequeueExpired(w) ==
    /\ CanDequeue(w)
    /\ IsExpired(Head(queue))
    /\ queue' = Tail(queue)
    /\ Expire(Head(queue))
    /\ TaskDone(unfinished)
    /\ UNCHANGED <<caller, waited, workerVars, controlVars>>

\* mutant: the item is looked at but not taken
DequeuePeeks(w) ==
    /\ CanDequeue(w)
    /\ ~IsExpired(Head(queue))
    /\ running' = running + 1
    /\ worker' = [worker EXCEPT ![w] = "running"]
    /\ workerJob' = [workerJob EXCEPT ![w] = Head(queue)]
    /\ status' = [status EXCEPT ![Head(queue)] = "running"]
    /\ UNCHANGED <<callerVars, queueVars, cancelled, store, history, recordAge,
                   contexts, controlVars>>

\* The consumer takes the job into its slot and starts the business function.
DequeueStart(w) ==
    /\ CanDequeue(w)
    /\ ~IsExpired(Head(queue))
    /\ queue' = Tail(queue)
    /\ ReleaseQueued(Head(queue))
    /\ running' = running + 1
    /\ worker' = [worker EXCEPT ![w] = "running"]
    /\ workerJob' = [workerJob EXCEPT ![w] = Head(queue)]
    /\ status' = [status EXCEPT ![Head(queue)] = "running"]
    /\ UNCHANGED <<caller, waited, unfinished, join, cancelled, store, history,
                   recordAge, contexts, controlVars>>

\* The business function records its outcome and goes on awaiting cleanup
\* (_run_sampled_task closes its HTTP client after it has completed).
Settle(w) ==
    /\ LoopFree
    /\ worker[w] = "running"
    /\ w \notin cancelled
    /\ status[workerJob[w]] = "running"
    /\ \E final \in Terminal : status' = [status EXCEPT ![workerJob[w]] = final]
    /\ UNCHANGED <<callerVars, queueVars, workerVars, store, history, recordAge,
                   contexts, controlVars>>

\* The finally clause of _run_job, with the terminal status it leaves.
EndRun(w, final) ==
    LET j == workerJob[w] IN
    /\ status' = [status EXCEPT ![j] = final]
    /\ running' = running - 1
    /\ TaskDone(unfinished)
    /\ \E kept \in ContextsAfter(j) : Remember(j, final, kept)
    /\ workerJob' = [workerJob EXCEPT ![w] = NoJob]
    /\ UNCHANGED <<callerVars, queue, waited, controlVars>>

\* The status after a normal return: a recorded outcome is authoritative, a
\* run that recorded none is ANALYSIS_INCOMPLETE.
Verdict(recorded, returned) ==
    IF recorded \in Terminal THEN recorded
    ELSE IF returned \in Terminal THEN returned ELSE "failed"

\* job.run() returns, perhaps recording its outcome just before.
Return(w) ==
    /\ LoopFree
    /\ worker[w] = "running"
    /\ w \notin cancelled
    /\ \E returned \in Terminal \cup {"running"} :
          EndRun(w, Verdict(status[workerJob[w]], returned))
    /\ worker' = [worker EXCEPT ![w] = "waiting"]
    /\ UNCHANGED cancelled

\* job.run() raises: the job fails whatever it had recorded.
Raise(w) ==
    /\ LoopFree
    /\ worker[w] = "running"
    /\ w \notin cancelled
    /\ EndRun(w, "failed")
    /\ worker' = [worker EXCEPT ![w] = "waiting"]
    /\ UNCHANGED cancelled

\* CancelledError reaches the job, whose cleanup ends: SCHEDULER_SHUTDOWN.
CancelRun(w) ==
    /\ LoopFree
    /\ worker[w] = "running"
    /\ w \in cancelled
    /\ EndRun(w, "failed")
    /\ worker' = [worker EXCEPT ![w] = "gone"]
    /\ cancelled' = cancelled \ {w}

\* A cleanup step of the job itself fails (the sqlite DELETE of a lease in
\* PoiCache.get_or_fetch, say): its exception replaces CancelledError.  The
\* job then returns, or raises and fails whatever it had recorded, and the
\* consumer asks for the next one.
AbsorbCancel(w) ==
    /\ LoopFree
    /\ worker[w] = "running"
    /\ w \in cancelled
    /\ workerJob[w] \in AbsorbingJobs
    /\ \/ EndRun(w, "failed")
       \/ \E returned \in Terminal :
             EndRun(w, Verdict(status[workerJob[w]], returned))
    /\ worker' = [worker EXCEPT ![w] = "waiting"]
    /\ cancelled' = cancelled \ {w}

\* An idle consumer is cancelled inside queue.get().
CancelIdle(w) ==
    /\ LoopFree
    /\ worker[w] = "waiting"
    /\ w \in cancelled
    /\ worker' = [worker EXCEPT ![w] = "gone"]
    /\ cancelled' = cancelled \ {w}
    /\ UNCHANGED <<callerVars, queueVars, workerJob, running, recordVars,
                   controlVars>>

----------------------------------------------------------------------------
(* The sweeper: expire_queued() rotates the queue once, then prune().      *)

RotationShort == IF queue = <<>> THEN 0 ELSE Len(queue) - 1  \* mutant: the last item is left where it is

\* range(self.queue.qsize()): every item present is looked at once.
Rotation == Len(queue)

SweepBegin ==
    /\ LoopFree
    /\ sweeper = "asleep"
    /\ phase \in {"open", "draining"}
    /\ sweeper' = "rotating"
    /\ toRotate' = Rotation
    /\ UNCHANGED <<callerVars, queueVars, workerVars, recordVars, phase,
                   accepting>>

RotateExpired ==
    /\ sweeper = "rotating"
    /\ toRotate > 0
    /\ IsExpired(Head(queue))
    /\ queue' = Tail(queue)
    /\ Expire(Head(queue))
    /\ TaskDone(unfinished)
    /\ toRotate' = toRotate - 1
    /\ UNCHANGED <<caller, waited, workerVars, phase, accepting, sweeper>>

\* mutant: task_done() before the item is back
RotateTaskDoneFirst ==
    /\ sweeper = "rotating"
    /\ toRotate > 0
    /\ ~IsExpired(Head(queue))
    /\ queue' = Append(Tail(queue), Head(queue))
    /\ unfinished' = unfinished
    /\ join' = IF unfinished = 1 /\ join = "waiting" THEN "released" ELSE join
    /\ toRotate' = toRotate - 1
    /\ UNCHANGED <<callerVars, waited, workerVars, recordVars, phase, accepting,
                   sweeper>>

\* A survivor goes back before task_done(), so the count never touches zero.
RotateSurvivor ==
    /\ sweeper = "rotating"
    /\ toRotate > 0
    /\ ~IsExpired(Head(queue))
    /\ queue' = Append(Tail(queue), Head(queue))
    /\ TaskDone(unfinished + 1)
    /\ toRotate' = toRotate - 1
    /\ UNCHANGED <<callerVars, waited, workerVars, recordVars, phase, accepting,
                   sweeper>>

SweepEnd ==
    /\ sweeper = "rotating"
    /\ toRotate = 0
    /\ sweeper' = "asleep"
    /\ Prune(history, recordAge, contexts)
    /\ UNCHANGED <<callerVars, queueVars, workerVars, status, phase, accepting,
                   toRotate>>

----------------------------------------------------------------------------
(* Lifetime: start(), stop_accepting(), wait_idle(), close().              *)

Start ==
    /\ phase = "new"
    /\ phase' = "open"
    /\ accepting' = TRUE
    /\ worker' = [w \in Workers |-> "waiting"]
    /\ sweeper' = "asleep"
    /\ UNCHANGED <<callerVars, queueVars, workerJob, cancelled, running,
                   recordVars, toRotate>>

\* shutdown_services(): admission ends and the drain window opens; a startup
\* that failed before start() comes here too.
BeginShutdown ==
    /\ LoopFree
    /\ phase \in {"new", "open"}
    /\ phase' = "draining"
    /\ accepting' = FALSE
    /\ join' = IF unfinished = 0 THEN "released" ELSE "waiting"
    /\ UNCHANGED <<callerVars, queue, waited, unfinished, workerVars, recordVars,
                   sweeper, toRotate>>

\* close(), when the service is idle or the grace period is over: every
\* consumer and the sweeper are cancelled.
Close ==
    /\ LoopFree
    /\ phase = "draining"
    /\ phase' = "cancelling"
    /\ cancelled' = {w \in Workers : worker[w] \in {"waiting", "running"}}
    /\ sweeper' = "gone"
    /\ UNCHANGED <<callerVars, queueVars, worker, workerJob, running, recordVars,
                   accepting, toRotate>>

\* gather() has seen every consumer end.
ConsumersGone ==
    /\ phase = "cancelling"
    /\ \A w \in Workers : worker[w] \in {"off", "gone"}
    /\ phase' = "flushing"
    /\ UNCHANGED <<callerVars, queueVars, workerVars, recordVars, accepting,
                   sweeper, toRotate>>

\* A job nobody took is failed with SCHEDULER_SHUTDOWN.
FlushOne ==
    /\ phase = "flushing"
    /\ queue # <<>>
    /\ queue' = Tail(queue)
    /\ ReleaseQueued(Head(queue))
    /\ Fail(Head(queue))
    /\ TaskDone(unfinished)
    /\ Remember(Head(queue), "failed", contexts)
    /\ UNCHANGED <<caller, waited, workerVars, controlVars>>

FlushEnd ==
    /\ phase = "flushing"
    /\ queue = <<>>
    /\ phase' = "closed"
    /\ UNCHANGED <<callerVars, queueVars, workerVars, recordVars, accepting,
                   sweeper, toRotate>>

----------------------------------------------------------------------------
CallerStep(j) ==
    \/ Reserve(j)          \/ ReserveRefused(j)
    \/ PreparationFails(j) \/ CancelRequest(j) \/ AbandonedEnds(j)
    \/ Submit(j)           \/ SubmitRefused(j)

WorkerStep(w) ==
    \/ DequeueExpired(w) \/ DequeueStart(w)
    \/ Settle(w)         \/ Return(w)       \/ Raise(w)
    \/ CancelRun(w)      \/ AbsorbCancel(w) \/ CancelIdle(w)

SweeperStep == SweepBegin \/ RotateExpired \/ RotateSurvivor \/ SweepEnd

LifetimeStep ==
    \/ Start \/ BeginShutdown \/ Close \/ ConsumersGone
    \/ FlushOne \/ FlushEnd \/ ClearHistory

Next ==
    \/ Tick
    \/ \E j \in Jobs : CallerStep(j)
    \/ \E w \in Workers : WorkerStep(w)
    \/ SweeperStep
    \/ LifetimeStep

Spec == Init /\ [][Next]_vars

----------------------------------------------------------------------------
(* Fairness.                                                               *)

\* The preparation thread of every request ends.
PreparationEnds(j) == PreparationFails(j) \/ AbandonedEnds(j) \/ Submit(j) \/ SubmitRefused(j)

\* Time passes, a begun shutdown goes through its steps, and the event loop
\* runs what is ready in turn.  A rotation of the queue interrupts every
\* other task for a moment, so that what is ready is ready again and again
\* rather than without a break: strong fairness.  Nothing here says that a
\* running job ever ends.
LoopFairness ==
    /\ SF_vars(Tick)
    /\ WF_vars(SweeperStep)
    /\ \A w \in Workers : SF_vars(DequeueExpired(w) \/ DequeueStart(w))
    /\ \A w \in Workers : WF_vars(CancelRun(w) \/ AbsorbCancel(w) \/ CancelIdle(w))
    /\ \A j \in Jobs : SF_vars(PreparationEnds(j))
    /\ SF_vars(Close)
    /\ WF_vars(ConsumersGone \/ FlushOne \/ FlushEnd \/ ClearHistory)

FairSpec == Spec /\ LoopFairness

----------------------------------------------------------------------------
(* Safety.                                                                 *)

\* reserve() bounds preparation and queuing together: however requests,
\* cancellations, sweeps and consumers interleave, no more than pending_limit
\* places are ever out.
PendingBounded == Cardinality(Pending) <= PendingLimit

\* The registry, the queue and the handlers agree: a place marked queued is
\* one queue item, a place marked reserved has one handler that will submit
\* or release it, and so no place is ever lost or returned twice.
ReservationsMatch ==
    /\ \A j \in Jobs : (reservation[j] = "queued") <=> (j \in Elements(queue))
    /\ \A j \in Jobs : (reservation[j] = "reserved")
                           <=> (caller[j] \in {"preparing", "abandoned"})
    /\ \A i, k \in DOMAIN queue : queue[i] = queue[k] => i = k

\* What the proofs add to TypeOK: a busy consumer has a job, and a rotation
\* in progress is over items that are there.
TypeInv ==
    /\ TypeOK
    /\ \A w \in Busy : workerJob[w] \in Jobs
    /\ sweeper = "rotating" => /\ phase \in {"open", "draining"}
                              /\ toRotate \in 0..Len(queue)

\* And to ReservationsMatch and PendingBounded: whose queued places are.
PlacesInv ==
    /\ ReservationsMatch
    /\ \A j \in Jobs : reservation[j] = "queued" => caller[j] = "accepted"
    /\ IsFiniteSet(Pending)
    /\ PendingBounded

\* Whoever holds a reservation finds room in the queue, so submit() never
\* meets QueueFull and refuses only during a shutdown.
RoomForReserved ==
    \A j \in Jobs : reservation[j] = "reserved" => Len(queue) < PendingLimit

\* The three together, over states of the right type: the registry of places is sound.
PlacesConsistent == TypeOK /\ PendingBounded /\ ReservationsMatch /\ RoomForReserved

\* running counts the consumers that own a job, the queue's unfinished count
\* adds the queued ones, and no job is in two hands.
SlotsMatch ==
    /\ running = Cardinality(Busy)
    /\ unfinished = running + Len(queue)
    /\ \A w \in Busy : /\ workerJob[w] \in Jobs \ Elements(queue)
                       /\ \A v \in Busy : workerJob[v] = workerJob[w] => v = w

\* The API stores hold exactly the jobs that are queued, running or within
\* their retention, so nothing is kept for ever or dropped while it is live;
\* a route context never outlives the record of its analysis.
RecordsOwned ==
    /\ store = Elements(queue) \cup {workerJob[w] : w \in Busy}
                               \cup Elements(history)
    /\ contexts \subseteq store

\* The history holds finished jobs, no more than its capacity, and its oldest
\* record is first, so prune() may stop at the first young one; a rotation of
\* the queue keeps the survivors in arrival order.
AgesInOrder ==
    /\ Len(history) <= HistoryCapacity
    /\ \A i \in DOMAIN history : status[history[i]] \in Terminal
    /\ \A i, k \in DOMAIN history :
          i < k => /\ history[i] # history[k]
                   /\ recordAge[history[i]] >= recordAge[history[k]]
    /\ LoopFree => \A i, k \in DOMAIN queue :
                      i < k => waited[queue[i]] >= waited[queue[k]]

\* close() leaves nothing behind: no item, no consumer, no queued place, and
\* after clear() no record and no route context.  Only handlers still waiting
\* for their preparation thread keep a reservation.
ClosedIsEmpty ==
    /\ phase \in {"closed", "cleared"} =>
          /\ queue = <<>> /\ unfinished = 0 /\ running = 0
          /\ \A j \in Jobs : reservation[j] # "queued"
          /\ \A j \in Jobs : caller[j] = "accepted" => status[j] \in Terminal
    /\ phase = "cleared" => store = {} /\ contexts = {}

\* The four together: slots, records, contexts and their order are sound.
RecordsConsistent == SlotsMatch /\ RecordsOwned /\ AgesInOrder /\ ClosedIsEmpty

----------------------------------------------------------------------------
(* Action properties.                                                      *)

\* When the turn of the i-th item of the queue comes: a rotation in progress
\* has already put the items behind the toRotate first ones back.
Turn == [i \in DOMAIN queue |->
            IF sweeper = "rotating" /\ i > toRotate THEN i - Len(queue) ELSE i]

Ahead(a, b) == \E i, k \in DOMAIN queue :
                  queue[i] = a /\ queue[k] = b /\ Turn[i] < Turn[k]

\* The queue serves in the order of arrival although every sweep takes it apart
\* and puts it together again under the consumers: whoever waits is passed by
\* nobody, later comers included, and only the job that is ahead of all starts.
FirstComeFirstServed ==
    [][/\ \A a \in Elements(queue) \cap Elements(queue'), b \in Elements(queue') :
             a # b /\ (Ahead(a, b) \/ b \notin Elements(queue)) => Ahead(a, b)'
       /\ \A b \in Jobs : status[b] = "queued" /\ status'[b] = "running"
                              => \A a \in Elements(queue) : ~Ahead(a, b)]_vars

\* join() is released only when every submitted job is really done, in
\* particular not while a rotation holds the last survivor in its hands.
JoinHonest ==
    [][join = "waiting" /\ join' = "released"
           => queue' = <<>> /\ \A w \in Workers : worker'[w] # "running"]_vars

\* A record that has entered the history never changes its status again and
\* never returns to the stores once it has been dropped.
FinishedIsFinal ==
    [][\A j \in Jobs :
          status[j] \in Terminal /\ (\A w \in Busy : workerJob[w] # j)
              => /\ status'[j] = status[j]
                 /\ j \in store' => j \in store]_vars

----------------------------------------------------------------------------
(* Liveness.                                                               *)

\* The place of a request is always returned, on every path of its handler and
\* even when no running job ever ends: the sweeper expires the queued ones.
PlaceReturned == \A j \in Jobs : reservation[j] # "none" ~> reservation[j] = "none"

\* A close() that has begun ends.
CloseTerminates == phase = "cancelling" ~> phase = "cleared"

----------------------------------------------------------------------------
(* What the service promises its callers.                                  *)

Service == INSTANCE AnalysisService
    WITH Requests <- Jobs,
         Places   <- PendingLimit,
         Slots    <- Cardinality(Workers),
         open     <- accepting,
         waiting  <- Pending,
         active   <- {workerJob[w] : w \in Busy},
         ended    <- {j \in Jobs : /\ status[j] \in Terminal
                                   /\ \A w \in Busy : workerJob[w] # j},
         left     <- {j \in Jobs : caller[j] = "refused"},
         visible  <- store

\* The scheduler, its callers and its history implement that promise.
ImplementsService == Service!Spec
=============================================================================
