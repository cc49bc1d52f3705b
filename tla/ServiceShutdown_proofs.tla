------------------------ MODULE ServiceShutdown_proofs ------------------------
(***************************************************************************)
(* Theorems about AnalysisScheduler: its types and the places of its       *)
(* waiting room; who owns a job, and what the stores and the history hold; *)
(* and that scheduler, callers and history implement AnalysisService.      *)
(* Then about the application-wide shutdown that composes the scheduler    *)
(* with the engine runtime: both keep their promises in it, and it ends    *)
(* quietly.                                                                *)
(***************************************************************************)
EXTENDS ServiceShutdown, FiniteSetTheorems, SequenceTheorems, TLAPS

USE DEF Terminal

----------------------------------------------------------------------------
(* The retention of terminal records.                                      *)

\* prune() pops at least none and at most all of the records.
LEMMA PrunableCount ==
    ASSUME NEW S, NEW records \in Seq(S), NEW age
    PROVE  /\ IsFiniteSet(Prunable(records, age))
           /\ Cardinality(Prunable(records, age)) \in 0..Len(records)
<1>1. DOMAIN records = 1..Len(records) /\ Len(records) \in Nat
  BY LenProperties
<1>2. Prunable(records, age) \subseteq 1..Len(records)
  BY <1>1 DEF Prunable
<1>3. IsFiniteSet(1..Len(records)) /\ Cardinality(1..Len(records)) = Len(records)
  BY <1>1, FS_Interval
<1>4. /\ IsFiniteSet(Prunable(records, age))
      /\ Cardinality(Prunable(records, age)) <= Len(records)
  BY <1>2, <1>3, FS_Subset
<1>5. QED
  BY <1>1, <1>4, FS_CardinalityType

\* prune() keeps the records' types and only removes from the stores.
LEMMA PruneTyped ==
    ASSUME TypeOK,
           NEW records \in Seq(Jobs), NEW age \in [Jobs -> 0..HistoryTtl],
           NEW kept \in SUBSET Jobs,
           Prune(records, age, kept)
    PROVE  /\ history' \in Seq(Jobs)
           /\ recordAge' \in [Jobs -> 0..HistoryTtl]
           /\ store' \subseteq Jobs
           /\ contexts' \subseteq Jobs
<1> DEFINE popped == Prunable(records, age)
           n == Cardinality(popped)
<1>1. n \in 0..Len(records)
  BY PrunableCount
<1>2. Len(records) \in Nat /\ \A i \in 1..Len(records) : records[i] \in Jobs
  BY LenProperties, ElementOfSeq
<1>3. \A i \in (n+1)..Len(records) : records[i] \in Jobs
  BY <1>1, <1>2
<1>4. SubSeq(records, n+1, Len(records)) \in Seq(Jobs)
  <2>1. n + 1 \in Int /\ Len(records) \in Int
    BY <1>1, <1>2
  <2> HIDE DEF n
  <2>2. QED
    BY <1>3, <2>1, SubSeqProperties
<1>5. history' \in Seq(Jobs)
  BY <1>4 DEF Prune
<1>6. QED
  BY <1>5 DEF Prune, TypeOK

\* remember(), whether or not it adds a record, keeps the types too.
LEMMA RememberTyped ==
    ASSUME TypeOK, SchedulerAssumption,
           NEW j \in Jobs, NEW final, NEW kept \in SUBSET Jobs,
           Remember(j, final, kept)
    PROVE  /\ history' \in Seq(Jobs)
           /\ recordAge' \in [Jobs -> 0..HistoryTtl]
           /\ store' \subseteq Jobs
           /\ contexts' \subseteq Jobs
<1>1. history \in Seq(Jobs) /\ recordAge \in [Jobs -> 0..HistoryTtl]
  BY DEF TypeOK
<1>2. Append(history, j) \in Seq(Jobs)
  BY <1>1, AppendProperties
<1>3. [recordAge EXCEPT ![j] = 0] \in [Jobs -> 0..HistoryTtl]
  BY <1>1 DEF SchedulerAssumption
<1>4. CASE final \in Terminal /\ j \in store /\ j \in Elements(history)
  <2>1. Prune(history, recordAge, kept)
    BY <1>4 DEF Remember
  <2>2. QED
    BY <1>1, <2>1, PruneTyped
<1>5. CASE final \in Terminal /\ j \in store /\ j \notin Elements(history)
  <2>1. Prune(Append(history, j), [recordAge EXCEPT ![j] = 0], kept)
    BY <1>5 DEF Remember
  <2>2. QED
    BY <1>2, <1>3, <2>1, PruneTyped
<1>6. CASE ~(final \in Terminal /\ j \in store)
  BY <1>6 DEF Remember, TypeOK
<1>7. QED
  BY <1>4, <1>5, <1>6

----------------------------------------------------------------------------
(* Type correctness.                                                       *)

LEMMA InitTypeInv == SchedulerAssumption /\ Init => TypeInv
<1> SUFFICES ASSUME SchedulerAssumption, Init PROVE TypeInv
  OBVIOUS
<1>1. <<>> \in Seq(Jobs)
  BY EmptySeq
<1>2. 0 \in 0..QueueTimeout /\ 0 \in 0..HistoryTtl
  BY DEF SchedulerAssumption
<1>3. TypeOK
  <2>1. /\ unfinished \in Int /\ cancelled \subseteq Workers
        /\ running \in Int /\ store \subseteq Jobs
        /\ contexts \subseteq Jobs /\ toRotate \in Int
    BY DEF Init
  <2>2. /\ reservation \in [Jobs -> {"none", "reserved", "queued"}]
        /\ caller \in [Jobs -> {"idle", "preparing", "abandoned", "accepted",
                                "refused"}]
        /\ waited \in [Jobs -> 0..QueueTimeout]
        /\ worker \in [Workers -> {"off", "waiting", "running", "gone"}]
        /\ workerJob \in [Workers -> Jobs \cup {NoJob}]
        /\ status \in [Jobs -> {"none", "queued", "running"} \cup Terminal]
        /\ recordAge \in [Jobs -> 0..HistoryTtl]
    BY <1>2 DEF Init
  <2>3. accepting \in BOOLEAN
    BY DEF Init
  <2>4. queue \in Seq(Jobs) /\ history \in Seq(Jobs)
    BY <1>1, Zenon DEF Init
  <2>5. phase = "new" /\ join = "none" /\ sweeper = "off"
    BY DEF Init
  <2>6. QED
    BY <2>1, <2>2, <2>3, <2>4, <2>5 DEF TypeOK
<1>4. QED
  BY <1>3 DEF Init, TypeInv, Busy

\* What the actions that take the head of the queue need to know.
LEMMA HeadOfQueue ==
    ASSUME TypeOK, queue # <<>>
    PROVE  /\ Head(queue) \in Jobs
           /\ Tail(queue) \in Seq(Jobs)
           /\ Len(Tail(queue)) = Len(queue) - 1
           /\ Len(queue) \in Nat \ {0}
<1>1. queue \in Seq(Jobs)
  BY DEF TypeOK
<1>2. QED
  BY <1>1, HeadTailProperties, EmptySeq

LEMMA TaskDoneTyped ==
    ASSUME TypeOK, NEW n \in Int, TaskDone(n)
    PROVE  unfinished' \in Int /\ join' \in {"none", "waiting", "released"}
BY DEF TypeOK, TaskDone

\* The end of a run keeps the types: used by Return, Raise, CancelRun and
\* AbsorbCancel.
LEMMA EndRunTyped ==
    ASSUME SchedulerAssumption, TypeInv,
           NEW w \in Workers, worker[w] = "running",
           NEW final \in Terminal, EndRun(w, final),
           NEW next \in {"waiting", "gone"}, worker' = [worker EXCEPT ![w] = next],
           cancelled' \in SUBSET Workers
    PROVE  TypeInv'
<1> DEFINE j == workerJob[w]
<1>1. j \in Jobs
  BY DEF TypeInv, Busy
<1>2. PICK kept \in ContextsAfter(j) : Remember(j, final, kept)
  BY DEF EndRun
<1>3. kept \in SUBSET Jobs
  BY <1>1 DEF ContextsAfter, TypeInv, TypeOK
<1>4. /\ history' \in Seq(Jobs)
      /\ recordAge' \in [Jobs -> 0..HistoryTtl]
      /\ store' \subseteq Jobs
      /\ contexts' \subseteq Jobs
  BY <1>1, <1>2, <1>3, RememberTyped DEF TypeInv
<1>5. TypeOK'
  <2>1. unfinished' \in Int /\ join' \in {"none", "waiting", "released"}
    BY TaskDoneTyped DEF EndRun, TypeInv, TypeOK
  <2>2. status' = [status EXCEPT ![j] = final]
    BY DEF EndRun
  <2>3. workerJob' = [workerJob EXCEPT ![w] = NoJob] /\ running' = running - 1
    BY DEF EndRun
  <2>4. UNCHANGED <<reservation, caller, queue, waited, phase, accepting, sweeper,
                    toRotate>>
    BY DEF EndRun, callerVars, controlVars
  <2>5. QED
    BY <1>1, <1>4, <2>1, <2>2, <2>3, <2>4 DEF TypeInv, TypeOK
<1>6. \A v \in Busy' : workerJob'[v] \in Jobs
  BY DEF EndRun, TypeInv, TypeOK, Busy
<1>7. QED
  BY <1>5, <1>6 DEF EndRun, TypeInv, controlVars

\* Expiring the head of the queue keeps the types.
LEMMA ExpireTyped ==
    ASSUME SchedulerAssumption, TypeOK, NEW j \in Jobs, Expire(j)
    PROVE  /\ reservation' \in [Jobs -> {"none", "reserved", "queued"}]
           /\ status' \in [Jobs -> {"none", "queued", "running"} \cup Terminal]
           /\ history' \in Seq(Jobs)
           /\ recordAge' \in [Jobs -> 0..HistoryTtl]
           /\ store' \subseteq Jobs
           /\ contexts' \subseteq Jobs
<1>1. contexts \in SUBSET Jobs
  BY DEF TypeOK
<1>2. Remember(j, "failed", contexts)
  BY DEF Expire
<1>3. QED
  BY <1>1, <1>2, RememberTyped DEF Expire, ReleaseQueued, Fail, TypeOK

LEMMA CallerTyped ==
    ASSUME SchedulerAssumption, TypeInv, NEW j \in Jobs, CallerStep(j)
    PROVE  TypeInv'
<1> USE DEF TypeInv, TypeOK, Busy, callerVars, queueVars, workerVars, recordVars,
            controlVars
<1>1. CASE Reserve(j)
  BY <1>1 DEF Reserve
<1>2. CASE ReserveRefused(j)
  BY <1>2 DEF ReserveRefused
<1>3. CASE PreparationFails(j)
  BY <1>3 DEF PreparationFails, Release
<1>4. CASE CancelRequest(j)
  BY <1>4 DEF CancelRequest
<1>5. CASE AbandonedEnds(j)
  BY <1>5 DEF AbandonedEnds, Release
<1>6. CASE Submit(j)
  <2>1. Append(queue, j) \in Seq(Jobs)
    BY AppendProperties
  <2>2. waited' \in [Jobs -> 0..QueueTimeout]
    BY <1>6 DEF Submit, SchedulerAssumption
  <2>3. QED
    BY <1>6, <2>1, <2>2 DEF Submit, Enqueued, LoopFree
<1>7. CASE SubmitRefused(j)
  BY <1>7 DEF SubmitRefused, Release
<1>8. QED
  BY <1>1, <1>2, <1>3, <1>4, <1>5, <1>6, <1>7 DEF CallerStep

LEMMA WorkerTyped ==
    ASSUME SchedulerAssumption, TypeInv, NEW w \in Workers, WorkerStep(w)
    PROVE  TypeInv'
<1>1. CASE DequeueExpired(w)
  <2>1. TypeOK /\ queue # <<>> /\ Expire(Head(queue)) /\ LoopFree
    BY <1>1 DEF DequeueExpired, CanDequeue, TypeInv
  <2>2. Head(queue) \in Jobs /\ Tail(queue) \in Seq(Jobs)
    BY <2>1, HeadOfQueue
  <2>3. unfinished' \in Int /\ join' \in {"none", "waiting", "released"}
    BY <1>1, <2>1, TaskDoneTyped DEF DequeueExpired, TypeOK
  <2>4. TypeOK'
    BY <1>1, <2>1, <2>2, <2>3, ExpireTyped
       DEF DequeueExpired, TypeOK, workerVars, controlVars
  <2>5. QED
    BY <1>1, <2>1, <2>4
       DEF DequeueExpired, TypeInv, Busy, LoopFree, workerVars, controlVars
<1>2. CASE DequeueStart(w)
  <2>1. TypeOK /\ queue # <<>> /\ LoopFree
    BY <1>2 DEF DequeueStart, CanDequeue, TypeInv
  <2>2. Head(queue) \in Jobs /\ Tail(queue) \in Seq(Jobs)
    BY <2>1, HeadOfQueue
  <2>3. TypeOK'
    BY <1>2, <2>1, <2>2 DEF DequeueStart, ReleaseQueued, TypeOK, controlVars
  <2>4. \A v \in Busy' : workerJob'[v] \in Jobs
    BY <1>2, <2>1, <2>2 DEF DequeueStart, TypeInv, TypeOK, Busy
  <2>5. QED
    BY <1>2, <2>1, <2>3, <2>4 DEF DequeueStart, TypeInv, LoopFree, controlVars
<1>3. CASE Settle(w)
  <2>1. workerJob[w] \in Jobs
    BY <1>3 DEF Settle, TypeInv, Busy
  <2>2. QED
    BY <1>3, <2>1 DEF Settle, TypeInv, TypeOK, Busy, callerVars, queueVars,
                      workerVars, controlVars
<1>4. CASE Return(w)
  <2>1. PICK final \in Terminal : EndRun(w, final)
    BY <1>4 DEF Return, Verdict
  <2>2. cancelled' \in SUBSET Workers
    BY <1>4 DEF Return, TypeInv, TypeOK
  <2>3. worker[w] = "running" /\ worker' = [worker EXCEPT ![w] = "waiting"]
    BY <1>4 DEF Return
  <2>4. QED
    BY <2>1, <2>2, <2>3, EndRunTyped
<1>5. CASE Raise(w)
  <2>1. EndRun(w, "failed") /\ "failed" \in Terminal
    BY <1>5 DEF Raise
  <2>2. cancelled' \in SUBSET Workers
    BY <1>5 DEF Raise, TypeInv, TypeOK
  <2>3. worker[w] = "running" /\ worker' = [worker EXCEPT ![w] = "waiting"]
    BY <1>5 DEF Raise
  <2>4. QED
    BY <2>1, <2>2, <2>3, EndRunTyped
<1>6. CASE CancelRun(w)
  <2>1. EndRun(w, "failed") /\ "failed" \in Terminal
    BY <1>6 DEF CancelRun
  <2>2. cancelled' \in SUBSET Workers
    BY <1>6 DEF CancelRun, TypeInv, TypeOK
  <2>3. worker[w] = "running" /\ worker' = [worker EXCEPT ![w] = "gone"]
    BY <1>6 DEF CancelRun
  <2>4. QED
    BY <2>1, <2>2, <2>3, EndRunTyped
<1>7. CASE AbsorbCancel(w)
  <2>1. PICK final \in Terminal : EndRun(w, final)
    BY <1>7 DEF AbsorbCancel, Verdict
  <2>2. cancelled' \in SUBSET Workers
    BY <1>7 DEF AbsorbCancel, TypeInv, TypeOK
  <2>3. worker[w] = "running" /\ worker' = [worker EXCEPT ![w] = "waiting"]
    BY <1>7 DEF AbsorbCancel
  <2>4. QED
    BY <2>1, <2>2, <2>3, EndRunTyped
<1>8. CASE CancelIdle(w)
  BY <1>8 DEF CancelIdle, TypeInv, TypeOK, Busy, callerVars, queueVars,
              recordVars, controlVars
<1>9. QED
  BY <1>1, <1>2, <1>3, <1>4, <1>5, <1>6, <1>7, <1>8 DEF WorkerStep
LEMMA SweeperTyped ==
    ASSUME SchedulerAssumption, TypeInv, SweeperStep
    PROVE  TypeInv'
<1>1. CASE SweepBegin
  <2>1. Len(queue) \in 0..Len(queue)
    BY LenProperties DEF TypeInv, TypeOK
  <2>2. QED
    BY <1>1, <2>1 DEF SweepBegin, Rotation, TypeInv, TypeOK, Busy, callerVars, queueVars,
                      workerVars, recordVars
<1>2. CASE RotateExpired
  <2>1. TypeOK /\ Expire(Head(queue)) /\ TaskDone(unfinished) /\ unfinished \in Int
    BY <1>2 DEF RotateExpired, TypeInv, TypeOK
  <2>2. toRotate \in 1..Len(queue) /\ phase \in {"open", "draining"}
    BY <1>2 DEF RotateExpired, TypeInv, TypeOK
  <2>3. queue # <<>>
    BY <2>2, EmptySeq
  <2>4. /\ Head(queue) \in Jobs
        /\ queue' \in Seq(Jobs) /\ Len(queue') = Len(queue) - 1
        /\ Len(queue) \in Nat
    BY <1>2, <2>1, <2>3, HeadOfQueue DEF RotateExpired
  <2>5. unfinished' \in Int /\ join' \in {"none", "waiting", "released"}
    BY <2>1, TaskDoneTyped
  <2>6. TypeOK'
    <3>1. toRotate' \in Int
      BY <1>2 DEF RotateExpired, TypeInv, TypeOK
    <3>2. UNCHANGED <<caller, waited, workerVars, phase, accepting, sweeper>>
      BY <1>2 DEF RotateExpired
    <3>3. QED
      BY <2>1, <2>4, <2>5, <3>1, <3>2, ExpireTyped DEF TypeOK, workerVars
  <2>7. toRotate' \in 0..Len(queue')
    BY <1>2, <2>2, <2>4 DEF RotateExpired
  <2>8. QED
    BY <1>2, <2>2, <2>6, <2>7 DEF RotateExpired, TypeInv, Busy, workerVars
<1>3. CASE RotateSurvivor
  <2> TypeOK
    BY DEF TypeInv
  <2>1. TypeOK /\ TaskDone(unfinished + 1) /\ unfinished + 1 \in Int
    <3>1. unfinished + 1 \in Int
      BY DEF TypeOK
    <3>2. QED
      BY <1>3, <3>1 DEF RotateSurvivor
  <2>2. toRotate \in 1..Len(queue) /\ phase \in {"open", "draining"}
    BY <1>3 DEF RotateSurvivor, TypeInv, TypeOK
  <2>3. queue # <<>>
    BY <2>2, EmptySeq
  <2>4. /\ Head(queue) \in Jobs
        /\ Tail(queue) \in Seq(Jobs) /\ Len(Tail(queue)) = Len(queue) - 1
        /\ Len(queue) \in Nat
    BY <2>1, <2>3, HeadOfQueue
  <2>5. queue' \in Seq(Jobs) /\ Len(queue') = Len(queue)
    BY <1>3, <2>4, AppendProperties DEF RotateSurvivor
  <2>6. unfinished' \in Int /\ join' \in {"none", "waiting", "released"}
    BY <2>1, TaskDoneTyped
  <2>7. TypeOK'
    BY <1>3, <2>1, <2>5, <2>6 DEF RotateSurvivor, TypeOK, callerVars, workerVars,
                                  recordVars
  <2>8. toRotate' \in 0..Len(queue')
    BY <1>3, <2>2, <2>4, <2>5 DEF RotateSurvivor
  <2>9. QED
    BY <1>3, <2>2, <2>7, <2>8 DEF RotateSurvivor, TypeInv, Busy, workerVars
<1>4. CASE SweepEnd
  <2>1. /\ history' \in Seq(Jobs) /\ recordAge' \in [Jobs -> 0..HistoryTtl]
        /\ store' \subseteq Jobs /\ contexts' \subseteq Jobs
    BY <1>4, PruneTyped DEF SweepEnd, TypeInv, TypeOK
  <2>2. QED
    BY <1>4, <2>1 DEF SweepEnd, TypeInv, TypeOK, Busy, callerVars, queueVars,
                      workerVars
<1>5. QED
  BY <1>1, <1>2, <1>3, <1>4 DEF SweeperStep

LEMMA LifetimeTyped ==
    ASSUME SchedulerAssumption, TypeInv, LifetimeStep
    PROVE  TypeInv'
<1> USE DEF callerVars, queueVars, workerVars, recordVars
<1>1. CASE Start
  <2>1. \A w \in Workers : worker'[w] # "running"
    BY <1>1 DEF Start
  <2>2. TypeOK'
    BY <1>1 DEF Start, TypeInv, TypeOK
  <2>3. QED
    BY <1>1, <2>1, <2>2 DEF Start, TypeInv, Busy
<1>2. CASE BeginShutdown
  <2>1. join' \in {"none", "waiting", "released"}
    BY <1>2 DEF BeginShutdown
  <2>2. QED
    BY <1>2, <2>1 DEF BeginShutdown, TypeInv, TypeOK, Busy, LoopFree
<1>3. CASE Close
  BY <1>3 DEF Close, TypeInv, TypeOK, Busy
<1>4. CASE ConsumersGone
  BY <1>4 DEF ConsumersGone, TypeInv, TypeOK, Busy
<1>5. CASE FlushOne
  <2>1. TypeOK /\ queue # <<>> /\ TaskDone(unfinished) /\ unfinished \in Int
    BY <1>5 DEF FlushOne, TypeInv, TypeOK
  <2>2. Head(queue) \in Jobs /\ Tail(queue) \in Seq(Jobs)
    BY <2>1, HeadOfQueue
  <2>3. unfinished' \in Int /\ join' \in {"none", "waiting", "released"}
    BY <2>1, TaskDoneTyped
  <2>4. Expire(Head(queue))
    BY <1>5 DEF FlushOne, Expire
  <2>5. TypeOK'
    BY <1>5, <2>1, <2>2, <2>3, <2>4, ExpireTyped DEF FlushOne, TypeOK, controlVars
  <2>6. QED
    BY <1>5, <2>5 DEF FlushOne, TypeInv, Busy, controlVars
<1>6. CASE FlushEnd
  BY <1>6 DEF FlushEnd, TypeInv, TypeOK, Busy
<1>7. CASE ClearHistory
  <2>1. <<>> \in Seq(Jobs)
    BY EmptySeq
  <2>2. history' \in Seq(Jobs)
    BY <1>7, <2>1, Zenon DEF ClearHistory
  <2>3. QED
    BY <1>7, <2>2 DEF ClearHistory, TypeInv, TypeOK, Busy
<1>8. QED
  BY <1>1, <1>2, <1>3, <1>4, <1>5, <1>6, <1>7 DEF LifetimeStep

LEMMA TickTyped == ASSUME SchedulerAssumption, TypeInv, Tick PROVE TypeInv'
<1>1. \A age \in 0..QueueTimeout : CappedNext(age, QueueTimeout) \in 0..QueueTimeout
  BY DEF CappedNext, SchedulerAssumption
<1>2. \A age \in 0..HistoryTtl : CappedNext(age, HistoryTtl) \in 0..HistoryTtl
  BY DEF CappedNext, SchedulerAssumption
<1>3. waited' \in [Jobs -> 0..QueueTimeout] /\ recordAge' \in [Jobs -> 0..HistoryTtl]
  BY <1>1, <1>2 DEF Tick, TypeInv, TypeOK
<1>4. QED
  BY <1>3 DEF Tick, TypeInv, TypeOK, Busy, callerVars, workerVars, controlVars

LEMMA NextTyped == SchedulerAssumption /\ TypeInv /\ [Next]_vars => TypeInv'
<1> SUFFICES ASSUME SchedulerAssumption, TypeInv, [Next]_vars PROVE TypeInv'
  OBVIOUS
<1>1. CASE Next
  BY <1>1, TickTyped, CallerTyped, WorkerTyped, SweeperTyped, LifetimeTyped DEF Next
<1>2. CASE UNCHANGED vars
  BY <1>2 DEF vars, callerVars, queueVars, workerVars, recordVars, controlVars,
              TypeInv, TypeOK, Busy
<1>3. QED
  BY <1>1, <1>2

\* Every variable keeps its type, whatever the number of requests, consumers
\* and places, the timeouts and the jobs that absorb a cancellation.
THEOREM TypeCorrect == Spec => []TypeOK
<1>1. Init => TypeInv
  BY InitTypeInv, SchedulerAssumption
<1>2. TypeInv /\ [Next]_vars => TypeInv'
  BY NextTyped, SchedulerAssumption
<1>3. TypeInv => TypeOK
  BY DEF TypeInv
<1>4. QED
  BY <1>1, <1>2, <1>3, PTL DEF Spec
----------------------------------------------------------------------------
(* The places of reserve(), the queue and the handlers.                    *)

Distinct(seq) == \A i, k \in DOMAIN seq : seq[i] = seq[k] => i = k

\* get_nowait() removes one element, wherever it stood.
LEMMA TailElements ==
    ASSUME NEW seq \in Seq(Jobs), seq # <<>>, Distinct(seq)
    PROVE  /\ Elements(Tail(seq)) = Elements(seq) \ {Head(seq)}
           /\ Head(seq) \in Elements(seq)
           /\ Distinct(Tail(seq))
<1>1. /\ Len(seq) \in Nat \ {0} /\ DOMAIN seq = 1..Len(seq)
      /\ Head(seq) = seq[1]
  BY EmptySeq, LenProperties
<1>2. /\ Tail(seq) \in Seq(Jobs) /\ Len(Tail(seq)) = Len(seq) - 1
      /\ \A i \in 1..Len(Tail(seq)) : Tail(seq)[i] = seq[i+1]
  BY HeadTailProperties
<1>3. DOMAIN Tail(seq) = 1..(Len(seq) - 1)
  BY <1>2, LenProperties
<1>4. Head(seq) \in Elements(seq)
  BY <1>1 DEF Elements
<1>5. Distinct(Tail(seq))
  BY <1>1, <1>2, <1>3 DEF Distinct
<1>6. ASSUME NEW e \in Elements(Tail(seq)) PROVE e \in Elements(seq) \ {Head(seq)}
  <2>1. PICK i \in 1..(Len(seq) - 1) : e = seq[i+1]
    BY <1>2, <1>3 DEF Elements
  <2>2. i + 1 \in DOMAIN seq /\ 1 \in DOMAIN seq /\ i + 1 # 1
    BY <1>1
  <2>3. QED
    BY <1>1, <2>1, <2>2 DEF Elements, Distinct
<1>7. ASSUME NEW e \in Elements(seq) \ {Head(seq)} PROVE e \in Elements(Tail(seq))
  <2>1. PICK i \in 1..Len(seq) : e = seq[i]
    BY <1>1 DEF Elements
  <2>2. i - 1 \in 1..(Len(seq) - 1) /\ seq[(i - 1) + 1] = e
    BY <1>1, <2>1
  <2>3. Tail(seq)[i - 1] = e
    BY <1>2, <2>2
  <2>4. QED
    BY <1>3, <2>2, <2>3 DEF Elements
<1>8. QED
  BY <1>4, <1>5, <1>6, <1>7

\* put_nowait() of an absent item adds one element.
LEMMA AppendElements ==
    ASSUME NEW seq \in Seq(Jobs), NEW j \in Jobs, j \notin Elements(seq),
           Distinct(seq)
    PROVE  /\ Elements(Append(seq, j)) = Elements(seq) \cup {j}
           /\ Distinct(Append(seq, j))
<1>1. /\ Append(seq, j) \in Seq(Jobs) /\ Len(Append(seq, j)) = Len(seq) + 1
      /\ \A i \in 1..Len(seq) : Append(seq, j)[i] = seq[i]
      /\ Append(seq, j)[Len(seq) + 1] = j
  BY AppendProperties
<1>2. /\ Len(seq) \in Nat /\ DOMAIN seq = 1..Len(seq)
      /\ DOMAIN Append(seq, j) = 1..(Len(seq) + 1)
  BY <1>1, LenProperties
<1>3. \A i \in 1..(Len(seq) + 1) : i \in 1..Len(seq) \/ i = Len(seq) + 1
  BY <1>2
<1>4. \A i \in 1..Len(seq) : seq[i] # j
  BY <1>2 DEF Elements
<1>5. Distinct(Append(seq, j))
  BY <1>1, <1>2, <1>3, <1>4 DEF Distinct
<1>6. Elements(Append(seq, j)) \subseteq Elements(seq) \cup {j}
  BY <1>1, <1>2, <1>3 DEF Elements
<1>7. Elements(seq) \cup {j} \subseteq Elements(Append(seq, j))
  <2>1. ASSUME NEW e \in Elements(seq) PROVE e \in Elements(Append(seq, j))
    <3>1. PICK i \in 1..Len(seq) : e = seq[i]
      BY <1>2 DEF Elements
    <3>2. i \in 1..(Len(seq) + 1) /\ Append(seq, j)[i] = e
      BY <1>1, <1>2, <3>1
    <3>3. QED
      BY <1>2, <3>2 DEF Elements
  <2>2. j \in Elements(Append(seq, j))
    BY <1>1, <1>2 DEF Elements
  <2>3. QED
    BY <2>1, <2>2
<1>8. QED
  BY <1>5, <1>6, <1>7

\* Places that are only given back stay within the limit.
LEMMA FewerPlaces ==
    ASSUME SchedulerAssumption, PlacesInv, Pending' \subseteq Pending
    PROVE  IsFiniteSet(Pending') /\ PendingBounded'
<1>1. IsFiniteSet(Pending') /\ Cardinality(Pending') <= Cardinality(Pending)
  BY FS_Subset DEF PlacesInv
<1>2. Cardinality(Pending) \in Nat /\ Cardinality(Pending') \in Nat
  BY <1>1, FS_CardinalityType DEF PlacesInv
<1>3. QED
  BY <1>1, <1>2 DEF PlacesInv, PendingBounded, SchedulerAssumption

\* The four actions that take the head of the queue for good.
LEMMA HeadTaken ==
    ASSUME SchedulerAssumption, TypeInv, PlacesInv, queue # <<>>,
           queue' = Tail(queue), ReleaseQueued(Head(queue)), caller' = caller
    PROVE  PlacesInv'
<1>1. queue \in Seq(Jobs) /\ Distinct(queue)
  BY DEF TypeInv, TypeOK, PlacesInv, ReservationsMatch, Distinct
<1>2. /\ Elements(queue') = Elements(queue) \ {Head(queue)}
      /\ Distinct(queue') /\ Head(queue) \in Jobs
      /\ Head(queue) \in Elements(queue)
  BY <1>1, TailElements, HeadTailProperties
<1>3. reservation' = [reservation EXCEPT ![Head(queue)] = "none"]
  BY DEF ReleaseQueued
<1>4. reservation[Head(queue)] = "queued"
  BY <1>2 DEF PlacesInv, ReservationsMatch
<1>5. ReservationsMatch'
  <2>1. \A j \in Jobs : (reservation'[j] = "queued") <=> (j \in Elements(queue'))
    BY <1>2, <1>3 DEF PlacesInv, ReservationsMatch, TypeInv, TypeOK
  <2>2. \A j \in Jobs : (reservation'[j] = "reserved")
                            <=> (caller'[j] \in {"preparing", "abandoned"})
    BY <1>2, <1>3, <1>4 DEF PlacesInv, ReservationsMatch, TypeInv, TypeOK
  <2>3. QED
    BY <1>2, <2>1, <2>2 DEF ReservationsMatch, Distinct
<1>6. \A j \in Jobs : reservation'[j] = "queued" => caller'[j] = "accepted"
  BY <1>3 DEF PlacesInv, TypeInv, TypeOK
<1>7. Pending' \subseteq Pending
  BY <1>2, <1>3 DEF Pending, TypeInv, TypeOK
<1>8. QED
  BY <1>5, <1>6, <1>7, FewerPlaces DEF PlacesInv

\* The actions that move no place.
LEMMA PlacesUnchanged ==
    ASSUME PlacesInv, UNCHANGED <<reservation, caller, queue>>
    PROVE  PlacesInv'
BY DEF PlacesInv, ReservationsMatch, PendingBounded, Pending, Elements
LEMMA CallerPlaces ==
    ASSUME SchedulerAssumption, TypeInv, PlacesInv, NEW j \in Jobs, CallerStep(j)
    PROVE  PlacesInv'
<1>1. queue \in Seq(Jobs) /\ Distinct(queue)
  BY DEF TypeInv, TypeOK, PlacesInv, ReservationsMatch, Distinct
<1>2. CASE Reserve(j)
  <2>1. /\ reservation' = [reservation EXCEPT ![j] = "reserved"]
        /\ caller' = [caller EXCEPT ![j] = "preparing"]
        /\ queue' = queue /\ caller[j] = "idle"
        /\ Cardinality(Pending) < PendingLimit
    BY <1>2 DEF Reserve, HasPlace, queueVars
  <2>2. reservation[j] = "none"
    <3>1. reservation[j] # "reserved" /\ reservation[j] # "queued"
      BY <2>1 DEF PlacesInv, ReservationsMatch
    <3>2. reservation[j] \in {"none", "reserved", "queued"}
      BY DEF TypeInv, TypeOK
    <3>3. QED
      BY <3>1, <3>2
  <2>3. Pending' = Pending \cup {j}
    BY <2>1 DEF Pending, TypeInv, TypeOK
  <2>4. j \notin Pending
    BY <2>2 DEF Pending
  <2>5. IsFiniteSet(Pending') /\ Cardinality(Pending') = Cardinality(Pending) + 1
    BY <2>3, <2>4, FS_AddElement DEF PlacesInv
  <2>6. PendingBounded'
    <3>1. Cardinality(Pending) \in Nat
      BY FS_CardinalityType DEF PlacesInv
    <3>2. QED
      BY <2>1, <2>5, <3>1 DEF PendingBounded, SchedulerAssumption
  <2>7. ReservationsMatch'
    BY <2>1, <2>2 DEF PlacesInv, ReservationsMatch, TypeInv, TypeOK, Elements
  <2>8. \A i \in Jobs : reservation'[i] = "queued" => caller'[i] = "accepted"
    BY <2>1 DEF PlacesInv, TypeInv, TypeOK
  <2>9. QED
    BY <2>5, <2>6, <2>7, <2>8 DEF PlacesInv
<1>3. CASE ReserveRefused(j)
  <2>1. /\ caller' = [caller EXCEPT ![j] = "refused"] /\ caller[j] = "idle"
        /\ UNCHANGED <<reservation, queue>>
    BY <1>3 DEF ReserveRefused, queueVars
  <2>2. ReservationsMatch'
    BY <2>1 DEF PlacesInv, ReservationsMatch, TypeInv, TypeOK, Elements
  <2>3. \A i \in Jobs : reservation'[i] = "queued" => caller'[i] = "accepted"
    BY <2>1 DEF PlacesInv, TypeInv, TypeOK
  <2>4. QED
    BY <2>1, <2>2, <2>3, FewerPlaces DEF PlacesInv, Pending
<1>4. ASSUME caller[j] \in {"preparing", "abandoned"}, Release(j),
             caller' = [caller EXCEPT ![j] = "refused"], queue' = queue
      PROVE  PlacesInv'
  <2>1. reservation[j] = "reserved"
    BY <1>4 DEF PlacesInv, ReservationsMatch
  <2>2. reservation' = [reservation EXCEPT ![j] = "none"]
    BY <1>4, <2>1 DEF Release, TypeInv, TypeOK
  <2>3. ReservationsMatch'
    BY <1>4, <2>1, <2>2 DEF PlacesInv, ReservationsMatch, TypeInv, TypeOK, Elements
  <2>4. \A i \in Jobs : reservation'[i] = "queued" => caller'[i] = "accepted"
    BY <1>4, <2>1, <2>2 DEF PlacesInv, TypeInv, TypeOK
  <2>5. Pending' \subseteq Pending
    BY <2>2 DEF Pending, TypeInv, TypeOK
  <2>6. QED
    BY <2>3, <2>4, <2>5, FewerPlaces DEF PlacesInv
<1>5. CASE PreparationFails(j)
  BY <1>4, <1>5 DEF PreparationFails, queueVars
<1>6. CASE CancelRequest(j)
  <2>1. /\ caller' = [caller EXCEPT ![j] = "abandoned"] /\ caller[j] = "preparing"
        /\ UNCHANGED <<reservation, queue>>
    BY <1>6 DEF CancelRequest, queueVars
  <2>2. ReservationsMatch'
    BY <2>1 DEF PlacesInv, ReservationsMatch, TypeInv, TypeOK, Elements
  <2>3. \A i \in Jobs : reservation'[i] = "queued" => caller'[i] = "accepted"
    BY <2>1 DEF PlacesInv, TypeInv, TypeOK
  <2>4. QED
    BY <2>1, <2>2, <2>3, FewerPlaces DEF PlacesInv, Pending
<1>7. CASE AbandonedEnds(j)
  BY <1>4, <1>7 DEF AbandonedEnds, queueVars
<1>8. CASE Submit(j)
  <2>1. /\ caller' = [caller EXCEPT ![j] = "accepted"]
        /\ reservation' = [reservation EXCEPT ![j] = "queued"]
        /\ queue' = Append(queue, j) /\ reservation[j] = "reserved"
    BY <1>8 DEF Submit, Enqueued
  <2>2. j \notin Elements(queue)
    BY <2>1 DEF PlacesInv, ReservationsMatch
  <2>3. Elements(queue') = Elements(queue) \cup {j} /\ Distinct(queue')
    BY <1>1, <2>1, <2>2, AppendElements
  <2>4. ReservationsMatch'
    <3>1. \A i \in Jobs : (reservation'[i] = "queued") <=> (i \in Elements(queue'))
      BY <2>1, <2>3 DEF PlacesInv, ReservationsMatch, TypeInv, TypeOK
    <3>2. \A i \in Jobs : (reservation'[i] = "reserved")
                              <=> (caller'[i] \in {"preparing", "abandoned"})
      BY <2>1 DEF PlacesInv, ReservationsMatch, TypeInv, TypeOK
    <3>3. QED
      BY <2>3, <3>1, <3>2 DEF ReservationsMatch, Distinct
  <2>5. \A i \in Jobs : reservation'[i] = "queued" => caller'[i] = "accepted"
    BY <2>1 DEF PlacesInv, TypeInv, TypeOK
  <2>6. Pending' \subseteq Pending
    BY <2>1 DEF Pending, TypeInv, TypeOK
  <2>7. QED
    BY <2>4, <2>5, <2>6, FewerPlaces DEF PlacesInv
<1>9. CASE SubmitRefused(j)
  BY <1>4, <1>9 DEF SubmitRefused, queueVars
<1>10. QED
  BY <1>2, <1>3, <1>5, <1>6, <1>7, <1>8, <1>9 DEF CallerStep

LEMMA WorkerPlaces ==
    ASSUME SchedulerAssumption, TypeInv, PlacesInv, NEW w \in Workers, WorkerStep(w)
    PROVE  PlacesInv'
<1>1. CASE DequeueExpired(w)
  BY <1>1, HeadTaken DEF DequeueExpired, CanDequeue, Expire
<1>2. CASE DequeueStart(w)
  BY <1>2, HeadTaken DEF DequeueStart, CanDequeue
<1>3. ASSUME NEW final, EndRun(w, final) PROVE PlacesInv'
  BY <1>3, PlacesUnchanged DEF EndRun, callerVars
<1>4. CASE Settle(w)
  BY <1>4, PlacesUnchanged DEF Settle, callerVars, queueVars
<1>5. CASE Return(w)
  BY <1>3, <1>5 DEF Return
<1>6. CASE Raise(w)
  BY <1>3, <1>6 DEF Raise
<1>7. CASE CancelRun(w)
  BY <1>3, <1>7 DEF CancelRun
<1>8. CASE AbsorbCancel(w)
  BY <1>3, <1>8 DEF AbsorbCancel
<1>9. CASE CancelIdle(w)
  BY <1>9, PlacesUnchanged DEF CancelIdle, callerVars, queueVars
<1>10. QED
  BY <1>1, <1>2, <1>4, <1>5, <1>6, <1>7, <1>8, <1>9 DEF WorkerStep

LEMMA SweeperPlaces ==
    ASSUME SchedulerAssumption, TypeInv, PlacesInv, SweeperStep
    PROVE  PlacesInv'
<1>1. CASE SweepBegin
  BY <1>1, PlacesUnchanged DEF SweepBegin, callerVars, queueVars
<1>2. ASSUME sweeper = "rotating", toRotate > 0 PROVE queue # <<>>
  BY <1>2, EmptySeq DEF TypeInv
<1>3. CASE RotateExpired
  BY <1>2, <1>3, HeadTaken DEF RotateExpired, Expire
<1>4. CASE RotateSurvivor
  <2>1. /\ queue \in Seq(Jobs) /\ Distinct(queue) /\ queue # <<>>
        /\ queue' = Append(Tail(queue), Head(queue))
        /\ UNCHANGED <<reservation, caller>>
    BY <1>2, <1>4 DEF RotateSurvivor, callerVars, TypeInv, TypeOK, PlacesInv,
                      ReservationsMatch, Distinct
  <2>2. /\ Elements(Tail(queue)) = Elements(queue) \ {Head(queue)}
        /\ Head(queue) \in Elements(queue) /\ Distinct(Tail(queue))
        /\ Tail(queue) \in Seq(Jobs) /\ Head(queue) \in Jobs
    BY <2>1, TailElements, HeadTailProperties
  <2>3. Elements(queue') = Elements(queue) /\ Distinct(queue')
    <3>1. Head(queue) \notin Elements(Tail(queue))
      BY <2>2
    <3>2. /\ Elements(queue') = Elements(Tail(queue)) \cup {Head(queue)}
          /\ Distinct(queue')
      BY <2>1, <2>2, <3>1, AppendElements
    <3>3. QED
      BY <2>2, <3>2
  <2>4. ReservationsMatch'
    BY <2>1, <2>3 DEF PlacesInv, ReservationsMatch, Distinct
  <2>5. QED
    BY <2>1, <2>4 DEF PlacesInv, PendingBounded, Pending
<1>5. CASE SweepEnd
  BY <1>5, PlacesUnchanged DEF SweepEnd, callerVars, queueVars
<1>6. QED
  BY <1>1, <1>3, <1>4, <1>5 DEF SweeperStep

LEMMA LifetimePlaces ==
    ASSUME SchedulerAssumption, TypeInv, PlacesInv, LifetimeStep
    PROVE  PlacesInv'
<1>1. CASE FlushOne
  BY <1>1, HeadTaken DEF FlushOne
<1>2. CASE ~FlushOne
  BY <1>2, PlacesUnchanged
     DEF LifetimeStep, Start, BeginShutdown, Close, ConsumersGone, FlushEnd,
         ClearHistory, callerVars, queueVars
<1>3. QED
  BY <1>1, <1>2

LEMMA NextPlaces ==
    SchedulerAssumption /\ TypeInv /\ PlacesInv /\ [Next]_vars => PlacesInv'
<1> SUFFICES ASSUME SchedulerAssumption, TypeInv, PlacesInv, [Next]_vars
             PROVE  PlacesInv'
  OBVIOUS
<1>1. CASE Tick
  BY <1>1, PlacesUnchanged DEF Tick, callerVars
<1>2. CASE UNCHANGED vars
  BY <1>2, PlacesUnchanged DEF vars, callerVars, queueVars
<1>3. QED
  BY <1>1, <1>2, CallerPlaces, WorkerPlaces, SweeperPlaces, LifetimePlaces DEF Next

LEMMA InitPlaces == SchedulerAssumption /\ Init => PlacesInv
<1> SUFFICES ASSUME SchedulerAssumption, Init PROVE PlacesInv
  OBVIOUS
<1>1. Pending = {}
  BY DEF Init, Pending
<1>2. IsFiniteSet(Pending) /\ PendingBounded
  BY <1>1, FS_EmptySet DEF PendingBounded, SchedulerAssumption
<1>3. DOMAIN queue = {} /\ Elements(queue) = {}
  BY DEF Init, Elements
<1>4. ReservationsMatch
  BY <1>3 DEF Init, ReservationsMatch
<1>5. QED
  BY <1>2, <1>4 DEF Init, PlacesInv

\* The invariant behind the theorems on places.
LEMMA PlacesInvariant == Spec => [](TypeInv /\ PlacesInv)
<1>1. Init => TypeInv /\ PlacesInv
  BY InitTypeInv, InitPlaces, SchedulerAssumption
<1>2. TypeInv /\ PlacesInv /\ [Next]_vars => (TypeInv /\ PlacesInv)'
  BY NextTyped, NextPlaces, SchedulerAssumption
<1>3. QED
  BY <1>1, <1>2, PTL DEF Spec

\* However many requests arrive, prepare, give up, wait and expire, no more
\* than pending_limit places are out.
THEOREM PendingNeverExceeds == Spec => []PendingBounded
<1>1. PlacesInv => PendingBounded
  BY DEF PlacesInv
<1>2. QED
  BY <1>1, PlacesInvariant, PTL

\* The registry of places, the queue and the handlers always agree, through
\* rotations, expiry, rollback and close().
THEOREM PlacesAgree == Spec => []ReservationsMatch
<1>1. PlacesInv => ReservationsMatch
  BY DEF PlacesInv
<1>2. QED
  BY <1>1, PlacesInvariant, PTL

\* submit() never meets a full queue while its caller holds a reservation:
\* the queued jobs and the caller are different members of Pending.
THEOREM ReservedFindsRoom == Spec => []RoomForReserved
<1>1. ASSUME TypeInv, PlacesInv, NEW j \in Jobs, reservation[j] = "reserved"
      PROVE  Len(queue) < PendingLimit
  <2> DEFINE others == Pending \ {j}
  <2>1. queue \in Seq(Jobs) /\ DOMAIN queue = 1..Len(queue) /\ Len(queue) \in Nat
    BY <1>1, LenProperties DEF TypeInv, TypeOK
  <2>2. j \in Pending
    BY <1>1 DEF Pending
  <2>3. /\ IsFiniteSet(others)
        /\ Cardinality(others) = Cardinality(Pending) - 1
        /\ Cardinality(Pending) \in Nat
    BY <1>1, <2>2, FS_RemoveElement, FS_CardinalityType DEF PlacesInv
  <2>4. \A i \in 1..Len(queue) : queue[i] \in others
    <3>1. SUFFICES ASSUME NEW i \in 1..Len(queue) PROVE queue[i] \in others
      OBVIOUS
    <3>2. queue[i] \in Elements(queue) /\ queue[i] \in Jobs
      BY <2>1, ElementOfSeq DEF Elements
    <3>3. reservation[queue[i]] = "queued"
      BY <1>1, <3>2 DEF PlacesInv, ReservationsMatch
    <3>4. QED
      BY <1>1, <3>2, <3>3 DEF Pending
  <2>5. queue \in Injection(1..Len(queue), others)
    <3>1. queue \in [1..Len(queue) -> others]
      BY <2>1, <2>4, LenProperties
    <3>2. \A a, b \in 1..Len(queue) : queue[a] = queue[b] => a = b
      BY <1>1, <2>1 DEF PlacesInv, ReservationsMatch
    <3>3. QED
      BY <3>1, <3>2 DEF Injection, IsInjective
  <2>6. Cardinality(1..Len(queue)) <= Cardinality(others)
    BY <2>3, <2>5, FS_Injection
  <2>7. Cardinality(1..Len(queue)) = Len(queue)
    BY <2>1, FS_Interval
  <2>8. Cardinality(Pending) <= PendingLimit /\ PendingLimit \in Nat
    BY <1>1, SchedulerAssumption DEF PlacesInv, PendingBounded, SchedulerAssumption
  <2> HIDE DEF others
  <2>9. QED
    BY <2>1, <2>3, <2>6, <2>7, <2>8
<1>2. TypeInv /\ PlacesInv => RoomForReserved
  BY <1>1 DEF RoomForReserved
<1>3. QED
  BY <1>2, PlacesInvariant, PTL

\* The registry of places is sound as a whole: bounded, in agreement with the
\* queue and the handlers, and never the reason of a QueueFull.
THEOREM PlacesAreConsistent == Spec => []PlacesConsistent
<1>1. TypeOK /\ PendingBounded /\ ReservationsMatch /\ RoomForReserved => PlacesConsistent
  BY DEF PlacesConsistent
<1>2. QED
  BY <1>1, TypeCorrect, PendingNeverExceeds, PlacesAgree, ReservedFindsRoom, PTL
----------------------------------------------------------------------------
(* The order of service.                                                   *)

\* Only DequeueStart makes a job run: the head of a queue nobody rotates.
LEMMA StartsAtHead ==
    ASSUME SchedulerAssumption, TypeInv, [Next]_vars, NEW j \in Jobs,
           status[j] = "queued", status'[j] = "running"
    PROVE  LoopFree /\ queue # <<>> /\ j = Head(queue)
<1>1. status' # status /\ status \in [Jobs -> {"none", "queued", "running"} \cup Terminal]
  BY DEF TypeInv, TypeOK
<1>2. ASSUME NEW h, Fail(h) PROVE FALSE
  BY <1>1, <1>2 DEF Fail
<1>3. ASSUME NEW w, NEW final \in Terminal, EndRun(w, final) PROVE FALSE
  <2>1. status' = [status EXCEPT ![workerJob[w]] = final]
    BY <1>3 DEF EndRun
  <2>2. final # "running"
    OBVIOUS
  <2>3. QED
    BY <1>1, <2>1, <2>2
<1>4. CASE \E w \in Workers : DequeueStart(w)
  <2>1. PICK w \in Workers : DequeueStart(w)
    BY <1>4
  <2>2. /\ status' = [status EXCEPT ![Head(queue)] = "running"]
        /\ LoopFree /\ queue # <<>>
    BY <2>1 DEF DequeueStart, CanDequeue
  <2>3. QED
    BY <1>1, <2>2
<1>5. CASE \E i \in Jobs : CallerStep(i)
  <2>1. PICK i \in Jobs : CallerStep(i)
    BY <1>5
  <2>2. status' = [status EXCEPT ![i] = "queued"]
    BY <1>1, <2>1 DEF CallerStep, Reserve, ReserveRefused, PreparationFails,
         CancelRequest, AbandonedEnds, Submit, SubmitRefused, recordVars
  <2>3. QED
    BY <1>1, <2>2
<1>6. CASE \E w \in Workers : WorkerStep(w) /\ ~DequeueStart(w)
  <2>1. PICK w \in Workers : WorkerStep(w) /\ ~DequeueStart(w)
    BY <1>6
  <2>2. CASE DequeueExpired(w)
    BY <1>2, <2>2 DEF DequeueExpired, Expire
  <2>3. CASE Settle(w)
    <3>1. PICK final \in Terminal : status' = [status EXCEPT ![workerJob[w]] = final]
      BY <2>3 DEF Settle
    <3>2. QED
      BY <1>1, <3>1
  <2>4. CASE Return(w) \/ AbsorbCancel(w)
    <3>1. PICK final \in Terminal : EndRun(w, final)
      BY <2>4 DEF Return, AbsorbCancel, Verdict
    <3>2. QED
      BY <1>3, <3>1
  <2>5. CASE Raise(w) \/ CancelRun(w)
    BY <1>3, <2>5 DEF Raise, CancelRun
  <2>6. CASE CancelIdle(w)
    BY <1>1, <2>6 DEF CancelIdle, recordVars
  <2>7. QED
    BY <2>1, <2>2, <2>3, <2>4, <2>5, <2>6 DEF WorkerStep
<1>7. CASE SweeperStep
  BY <1>1, <1>2, <1>7 DEF SweeperStep, SweepBegin, RotateExpired, RotateSurvivor,
                          SweepEnd, Expire, recordVars
<1>8. CASE LifetimeStep
  BY <1>1, <1>2, <1>8 DEF LifetimeStep, Start, BeginShutdown, Close, ConsumersGone,
                          FlushOne, FlushEnd, ClearHistory, recordVars
<1>9. CASE Tick \/ UNCHANGED vars
  BY <1>1, <1>9 DEF Tick, vars, recordVars
<1>10. QED
  BY <1>4, <1>5, <1>6, <1>7, <1>8, <1>9 DEF Next

\* What a step must do with two items that stay: their turns keep their order.
TurnsKept ==
    \A i, k \in DOMAIN queue :
        /\ queue[i] \in Elements(queue') /\ queue[k] \in Elements(queue')
        /\ Turn[i] < Turn[k]
        => \E p, q \in DOMAIN queue' :
               queue'[p] = queue[i] /\ queue'[q] = queue[k] /\ Turn'[p] < Turn'[q]

\* The head leaves, in a rotation or not: everyone else moves up.
LEMMA TurnsHeadLeaves ==
    ASSUME TypeInv, PlacesInv, queue # <<>>, queue' = Tail(queue),
           \/ sweeper # "rotating" /\ sweeper' # "rotating"
           \/ /\ sweeper = "rotating" /\ sweeper' = "rotating"
              /\ toRotate > 0 /\ toRotate' = toRotate - 1
    PROVE  TurnsKept /\ Elements(queue') \subseteq Elements(queue)
<1> DEFINE len == Len(queue)
<1>1. queue \in Seq(Jobs) /\ Distinct(queue)
  BY DEF TypeInv, TypeOK, PlacesInv, ReservationsMatch, Distinct
<1>2. /\ len \in Nat \ {0} /\ DOMAIN queue = 1..len /\ Head(queue) = queue[1]
      /\ queue' \in Seq(Jobs) /\ Len(queue') = len - 1
      /\ \A i \in 1..Len(queue') : queue'[i] = queue[i + 1]
  BY <1>1, HeadTailProperties, EmptySeq, LenProperties
<1>3. DOMAIN queue' = 1..(len - 1)
  BY <1>2, LenProperties
<1>4. Elements(queue') = Elements(queue) \ {queue[1]}
  BY <1>1, <1>2, TailElements
<1>5. sweeper = "rotating" => toRotate \in 1..len
  BY DEF TypeInv
<1> HIDE DEF len
<1>6. ASSUME NEW i \in 1..len, queue[i] \in Elements(queue')
      PROVE  i - 1 \in 1..(len - 1) /\ queue'[i - 1] = queue[i]
  <2>1. i # 1
    BY <1>4, <1>6
  <2>2. i - 1 \in 1..(len - 1) /\ (i - 1) + 1 = i
    BY <1>2, <2>1
  <2>3. QED
    BY <1>2, <2>2
<1>7. ASSUME NEW i \in 2..len, NEW k \in 2..len, Turn[i] < Turn[k]
      PROVE  Turn'[i - 1] < Turn'[k - 1]
  <2>1. len = Len(queue) /\ Len(queue)' = len - 1
    BY <1>2 DEF len
  <2>2. CASE sweeper # "rotating" /\ sweeper' # "rotating"
    BY <1>2, <1>7, <2>2 DEF Turn
  <2>3. CASE sweeper = "rotating"
    <3>1. /\ toRotate' = toRotate - 1 /\ sweeper' = "rotating"
          /\ toRotate \in 1..len
      BY <1>5, <2>3
    <3>2. IF i > toRotate THEN Turn[i] = i - len /\ Turn'[i - 1] = (i - 1) - (len - 1)
                          ELSE Turn[i] = i /\ Turn'[i - 1] = i - 1
      BY <1>2, <2>1, <2>3, <3>1 DEF Turn
    <3>3. IF k > toRotate THEN Turn[k] = k - len /\ Turn'[k - 1] = (k - 1) - (len - 1)
                          ELSE Turn[k] = k /\ Turn'[k - 1] = k - 1
      BY <1>2, <2>1, <2>3, <3>1 DEF Turn
    <3>4. QED
      BY <1>2, <1>7, <3>1, <3>2, <3>3
  <2>4. QED
    BY <2>2, <2>3
<1>8. TurnsKept
  <2>1. SUFFICES ASSUME NEW i \in DOMAIN queue, NEW k \in DOMAIN queue,
                        queue[i] \in Elements(queue'), queue[k] \in Elements(queue'),
                        Turn[i] < Turn[k]
                 PROVE  \E p, q \in DOMAIN queue' :
                            queue'[p] = queue[i] /\ queue'[q] = queue[k] /\ Turn'[p] < Turn'[q]
    BY DEF TurnsKept
  <2>2. i \in 1..len /\ k \in 1..len
    BY <1>2
  <2>3. /\ i - 1 \in 1..(len - 1) /\ queue'[i - 1] = queue[i]
        /\ k - 1 \in 1..(len - 1) /\ queue'[k - 1] = queue[k]
    BY <1>6, <2>1, <2>2
  <2>4. i \in 2..len /\ k \in 2..len
    BY <1>2, <2>2, <2>3
  <2>5. Turn'[i - 1] < Turn'[k - 1]
    BY <1>7, <2>1, <2>4
  <2>6. QED
    BY <1>3, <2>3, <2>5
<1>9. QED
  BY <1>4, <1>8

\* A survivor goes to the back and keeps its turn before all that is left.
LEMMA TurnsHeadRotates ==
    ASSUME TypeInv, PlacesInv, queue # <<>>, queue' = Append(Tail(queue), Head(queue)),
           sweeper = "rotating", sweeper' = "rotating",
           toRotate > 0, toRotate' = toRotate - 1
    PROVE  TurnsKept /\ Elements(queue') \subseteq Elements(queue)
<1> DEFINE len == Len(queue)
<1>1. queue \in Seq(Jobs) /\ Distinct(queue)
  BY DEF TypeInv, TypeOK, PlacesInv, ReservationsMatch, Distinct
<1>2. /\ len \in Nat \ {0} /\ DOMAIN queue = 1..len
      /\ Tail(queue) \in Seq(Jobs) /\ Len(Tail(queue)) = len - 1
      /\ \A i \in 1..Len(Tail(queue)) : Tail(queue)[i] = queue[i + 1]
      /\ Head(queue) = queue[1] /\ Head(queue) \in Jobs
  BY <1>1, HeadTailProperties, EmptySeq, LenProperties
<1>3. /\ queue' \in Seq(Jobs) /\ Len(queue') = Len(Tail(queue)) + 1
      /\ \A i \in 1..Len(Tail(queue)) : queue'[i] = Tail(queue)[i]
      /\ queue'[Len(Tail(queue)) + 1] = Head(queue)
  BY <1>2, AppendProperties
<1>4. Len(queue') = len /\ DOMAIN queue' = 1..Len(queue')
  BY <1>2, <1>3, LenProperties
<1> HIDE DEF len
<1>5. \A i \in 1..(len - 1) : queue'[i] = queue[i + 1]
  BY <1>2, <1>3
<1>6. queue'[len] = queue[1]
  <2>1. Len(Tail(queue)) + 1 = len
    BY <1>2
  <2>2. QED
    BY <1>2, <1>3, <2>1
<1>7. toRotate \in 1..len /\ len = Len(queue) /\ Len(queue)' = len
  BY <1>4 DEF TypeInv, len
<1> DEFINE back == [i \in 1..len |-> IF i = 1 THEN len ELSE i - 1]
<1>8. ASSUME NEW i \in 1..len
      PROVE  /\ back[i] \in 1..len /\ queue'[back[i]] = queue[i]
             /\ Turn[i] \in Int /\ Turn'[back[i]] = Turn[i] - 1
  <2>1. CASE i = 1
    <3>1. Turn[1] = 1 /\ Turn'[len] = 0
      BY <1>2, <1>7 DEF Turn
    <3>2. QED
      BY <1>2, <1>6, <2>1, <3>1
  <2>2. CASE i # 1
    <3>1. i - 1 \in 1..(len - 1) /\ (i - 1) + 1 = i /\ back[i] = i - 1
      BY <1>2, <1>8, <2>2
    <3>2. queue'[i - 1] = queue[i]
      BY <1>5, <3>1
    <3>3. Turn[i] \in Int /\ Turn'[i - 1] = Turn[i] - 1
      BY <1>2, <1>7, <1>8, <2>2 DEF Turn
    <3>4. QED
      BY <1>2, <3>1, <3>2, <3>3
  <2>3. QED
    BY <2>1, <2>2
<1>9. TurnsKept
  <2>1. SUFFICES ASSUME NEW i \in DOMAIN queue, NEW k \in DOMAIN queue, Turn[i] < Turn[k]
                 PROVE  \E p, q \in DOMAIN queue' :
                            queue'[p] = queue[i] /\ queue'[q] = queue[k] /\ Turn'[p] < Turn'[q]
    BY DEF TurnsKept
  <2> HIDE DEF back
  <2>2. /\ back[i] \in 1..len /\ queue'[back[i]] = queue[i]
        /\ Turn[i] \in Int /\ Turn'[back[i]] = Turn[i] - 1
    BY <1>2, <1>8
  <2>3. /\ back[k] \in 1..len /\ queue'[back[k]] = queue[k]
        /\ Turn[k] \in Int /\ Turn'[back[k]] = Turn[k] - 1
    BY <1>2, <1>8
  <2>4. Turn'[back[i]] < Turn'[back[k]]
    BY <2>1, <2>2, <2>3
  <2>5. QED
    BY <1>4, <2>2, <2>3, <2>4
<1>10. Elements(queue') \subseteq Elements(queue)
  <2>1. SUFFICES ASSUME NEW k \in 1..len PROVE queue'[k] \in Elements(queue)
    BY <1>4 DEF Elements
  <2>2. CASE k = len
    BY <1>2, <1>6, <2>2 DEF Elements
  <2>3. CASE k # len
    <3>1. k \in 1..(len - 1) /\ k + 1 \in 1..len
      BY <1>2, <2>3
    <3>2. QED
      BY <1>2, <1>5, <3>1 DEF Elements
  <2>4. QED
    BY <2>2, <2>3
<1>11. QED
  BY <1>9, <1>10

\* Nobody moves; a rotation may begin or end.
LEMMA TurnsUnmoved ==
    ASSUME TypeInv, queue' = queue,
           \/ sweeper' = sweeper /\ toRotate' = toRotate
           \/ sweeper # "rotating" /\ sweeper' # "rotating"
           \/ sweeper # "rotating" /\ sweeper' = "rotating" /\ toRotate' = Len(queue)
           \/ sweeper = "rotating" /\ toRotate = 0 /\ sweeper' # "rotating"
    PROVE  TurnsKept /\ Elements(queue') \subseteq Elements(queue)
<1>1. DOMAIN queue = 1..Len(queue) /\ Len(queue) \in Nat
  BY LenProperties DEF TypeInv, TypeOK
<1>2. ASSUME NEW i \in 1..Len(queue), NEW k \in 1..Len(queue), Turn[i] < Turn[k]
      PROVE  Turn'[i] < Turn'[k]
  BY <1>1, <1>2 DEF Turn
<1>3. QED
  BY <1>1, <1>2 DEF TurnsKept, Elements

\* A new item goes behind all that are there.
LEMMA TurnsSubmit ==
    ASSUME TypeInv, PlacesInv, NEW j \in Jobs, Submit(j)
    PROVE  /\ TurnsKept /\ Elements(queue') = Elements(queue) \cup {j}
           /\ \A a \in Elements(queue) : Ahead(a, j)'
<1> DEFINE len == Len(queue)
<1>1. /\ queue \in Seq(Jobs) /\ Distinct(queue) /\ queue' = Append(queue, j)
      /\ reservation[j] = "reserved" /\ sweeper # "rotating" /\ sweeper' # "rotating"
  BY DEF TypeInv, TypeOK, PlacesInv, ReservationsMatch, Distinct, Submit, LoopFree,
         controlVars
<1>2. /\ len \in Nat /\ DOMAIN queue = 1..len
      /\ queue' \in Seq(Jobs) /\ Len(queue') = len + 1
      /\ \A i \in 1..len : queue'[i] = queue[i]
      /\ queue'[len + 1] = j
  BY <1>1, AppendProperties, LenProperties
<1>3. DOMAIN queue' = 1..(len + 1)
  BY <1>2, LenProperties
<1>4. j \notin Elements(queue)
  BY <1>1 DEF PlacesInv, ReservationsMatch
<1>5. Elements(queue') = Elements(queue) \cup {j}
  BY <1>1, <1>4, AppendElements
<1> HIDE DEF len
<1>6. (\A i \in 1..(len + 1) : Turn'[i] = i) /\ \A i \in 1..len : Turn[i] = i
  BY <1>1, <1>2, <1>3 DEF Turn
<1>7. TurnsKept
  <2>1. \A i \in 1..len : i \in 1..(len + 1)
    BY <1>2
  <2>2. QED
    BY <1>2, <1>3, <1>6, <2>1 DEF TurnsKept
<1>8. ASSUME NEW a \in Elements(queue) PROVE Ahead(a, j)'
  <2>1. PICK i \in 1..len : queue[i] = a
    BY <1>2 DEF Elements
  <2>2. i \in 1..(len + 1) /\ len + 1 \in 1..(len + 1) /\ i < len + 1
    BY <1>2
  <2>3. Turn'[i] < Turn'[len + 1] /\ queue'[i] = a /\ queue'[len + 1] = j
    BY <1>2, <1>6, <2>1, <2>2
  <2>4. QED
    BY <1>3, <2>2, <2>3 DEF Ahead
<1>9. QED
  BY <1>5, <1>7, <1>8

\* Every step keeps the turns, and only a submission brings a new item.
LEMMA NextTurns ==
    ASSUME SchedulerAssumption, TypeInv, PlacesInv, [Next]_vars,
           ~\E j \in Jobs : Submit(j)
    PROVE  TurnsKept /\ Elements(queue') \subseteq Elements(queue)
<1>1. CASE \E j \in Jobs : CallerStep(j)
  <2>1. UNCHANGED <<queue, sweeper, toRotate>>
    BY <1>1 DEF CallerStep, Reserve, ReserveRefused, PreparationFails,
                CancelRequest, AbandonedEnds, SubmitRefused, queueVars, controlVars
  <2>2. QED
    BY <2>1, TurnsUnmoved
<1>2. CASE \E w \in Workers : WorkerStep(w)
  <2>1. PICK w \in Workers : WorkerStep(w)
    BY <1>2
  <2>2. CASE DequeueExpired(w) \/ DequeueStart(w)
    BY <2>2, TurnsHeadLeaves DEF DequeueExpired, DequeueStart, CanDequeue, LoopFree,
                                 controlVars
  <2>3. CASE Settle(w) \/ CancelIdle(w)
    BY <2>3, TurnsUnmoved DEF Settle, CancelIdle, queueVars, controlVars
  <2>4. CASE Return(w) \/ Raise(w) \/ CancelRun(w) \/ AbsorbCancel(w)
    BY <2>4, TurnsUnmoved DEF Return, Raise, CancelRun, AbsorbCancel, EndRun, controlVars
  <2>5. QED
    BY <2>1, <2>2, <2>3, <2>4 DEF WorkerStep
<1>3. CASE SweeperStep
  <2>1. CASE SweepBegin
    BY <2>1, TurnsUnmoved DEF SweepBegin, Rotation, LoopFree, queueVars
  <2>2. ASSUME sweeper = "rotating", toRotate > 0 PROVE queue # <<>>
    BY <2>2, EmptySeq DEF TypeInv
  <2>3. CASE RotateExpired
    BY <2>2, <2>3, TurnsHeadLeaves DEF RotateExpired
  <2>4. CASE RotateSurvivor
    BY <2>2, <2>4, TurnsHeadRotates DEF RotateSurvivor
  <2>5. CASE SweepEnd
    BY <2>5, TurnsUnmoved DEF SweepEnd, queueVars
  <2>6. QED
    BY <1>3, <2>1, <2>3, <2>4, <2>5 DEF SweeperStep
<1>4. CASE LifetimeStep
  <2>1. CASE FlushOne
    BY <2>1, TurnsHeadLeaves DEF FlushOne, controlVars, TypeInv
  <2>2. CASE Start \/ Close
    <3>1. queue' = queue /\ sweeper # "rotating" /\ sweeper' # "rotating"
      BY <2>2 DEF Start, Close, LoopFree, TypeInv, queueVars
    <3>2. QED
      BY <3>1, TurnsUnmoved
  <2>3. CASE BeginShutdown \/ ConsumersGone \/ FlushEnd \/ ClearHistory
    BY <2>3, TurnsUnmoved DEF BeginShutdown, ConsumersGone, FlushEnd, ClearHistory,
                              queueVars
  <2>4. QED
    BY <1>4, <2>1, <2>2, <2>3 DEF LifetimeStep
<1>5. CASE Tick \/ UNCHANGED vars
  BY <1>5, TurnsUnmoved DEF Tick, vars, queueVars, controlVars
<1>6. QED
  BY <1>1, <1>2, <1>3, <1>4, <1>5 DEF Next

\* The queue serves in the order of arrival, whatever requests, consumers and
\* sweeps do between two starts: the order survives every rotation item by item,
\* and the job that starts is the one whose turn is first.
THEOREM ServedInOrder == Spec => FirstComeFirstServed
<1>1. ASSUME TypeInv, PlacesInv, [Next]_vars,
             NEW a \in Elements(queue) \cap Elements(queue'), NEW b \in Elements(queue'),
             a # b, Ahead(a, b) \/ b \notin Elements(queue)
      PROVE  Ahead(a, b)'
  <2>1. TurnsKept /\ Ahead(a, b) => Ahead(a, b)'
    BY <1>1 DEF TurnsKept, Ahead
  <2>2. CASE \E j \in Jobs : Submit(j)
    BY <1>1, <2>1, <2>2, TurnsSubmit
  <2>3. CASE ~\E j \in Jobs : Submit(j)
    BY <1>1, <2>1, <2>3, NextTurns, SchedulerAssumption
  <2>4. QED
    BY <2>2, <2>3
<1>2. ASSUME TypeInv, PlacesInv, [Next]_vars, NEW b \in Jobs,
             status[b] = "queued", status'[b] = "running", NEW a \in Elements(queue)
      PROVE  ~Ahead(a, b)
  <2>1. sweeper # "rotating" /\ queue # <<>> /\ b = Head(queue)
    BY <1>2, StartsAtHead, SchedulerAssumption DEF LoopFree
  <2>2. /\ DOMAIN queue = 1..Len(queue) /\ Len(queue) \in Nat \ {0} /\ b = queue[1]
        /\ Distinct(queue)
    BY <1>2, <2>1, EmptySeq, LenProperties
       DEF TypeInv, TypeOK, PlacesInv, ReservationsMatch, Distinct
  <2>3. \A k \in 1..Len(queue) : queue[k] = b => k = 1
    BY <2>2 DEF Distinct
  <2>4. \A i \in 1..Len(queue) : ~(Turn[i] < Turn[1])
    BY <2>1 DEF Turn
  <2>5. QED
    BY <2>2, <2>3, <2>4 DEF Ahead
<1>3. TypeInv /\ PlacesInv /\ [Next]_vars =>
        [/\ \A a \in Elements(queue) \cap Elements(queue'), b \in Elements(queue') :
                a # b /\ (Ahead(a, b) \/ b \notin Elements(queue)) => Ahead(a, b)'
         /\ \A b \in Jobs : status[b] = "queued" /\ status'[b] = "running"
                                => \A a \in Elements(queue) : ~Ahead(a, b)]_vars
  BY <1>1, <1>2
<1>4. QED
  BY <1>3, PlacesInvariant, PTL DEF Spec, FirstComeFirstServed

----------------------------------------------------------------------------
(* The records: their inductive invariant.                                 *)

\* The jobs the consumers run.
Owned == {workerJob[w] : w \in Busy}

\* The lifetime flags and what is left at each stage of close().
LifetimeInv ==
    /\ accepting <=> phase = "open"
    /\ phase = "new" => \A w \in Workers : worker[w] = "off"
    /\ phase \in {"flushing", "closed", "cleared"} =>
           \A w \in Workers : worker[w] \in {"off", "gone"}
    /\ phase \in {"closed", "cleared"} => queue = <<>>
    /\ phase = "cleared" => history = <<>>

\* What the status of a job says about who has it.
StatusInv ==
    /\ \A j \in Jobs : caller[j] # "accepted" => status[j] = "none" /\ j \notin store
    /\ \A j \in Jobs : caller[j] = "accepted" => status[j] # "none"
    /\ \A j \in Jobs : status[j] = "queued" <=> j \in Elements(queue)
    /\ \A j \in Jobs : status[j] = "running" => j \in Owned
    /\ \A j \in Owned : status[j] \in {"running", "completed", "failed"}

\* running and unfinished count what they should, and a job has one consumer.
SlotsInv ==
    /\ running = Cardinality(Busy)
    /\ unfinished = running + Len(queue)
    /\ \A v, w \in Busy : workerJob[v] = workerJob[w] => v = w

\* Later records are no older.
Aged(records, age) ==
    \A i, k \in DOMAIN records : i < k => age[records[i]] >= age[records[k]]

\* The history holds finished jobs that nobody owns, oldest first.
HistoryInv ==
    /\ Len(history) <= HistoryCapacity
    /\ Distinct(history)
    /\ \A j \in Elements(history) : status[j] \in Terminal /\ j \notin Owned
    /\ Aged(history, recordAge)

\* How many items at the front of the queue the rotation in progress has not
\* looked at: all of them when there is none.
Unrotated == IF sweeper = "rotating" THEN toRotate ELSE Len(queue)

\* Those items are in arrival order, the survivors behind them too, and a
\* survivor arrived before every item in front of it.
QueueInv ==
    \A i, k \in DOMAIN queue :
        i < k => IF i <= Unrotated /\ Unrotated < k
                 THEN waited[queue[k]] >= waited[queue[i]]
                 ELSE waited[queue[i]] >= waited[queue[k]]

\* Inductive together with TypeInv and PlacesInv.
RecordsInv == StatusInv /\ SlotsInv /\ RecordsOwned /\ HistoryInv

SchedulerInv == TypeInv /\ PlacesInv /\ LifetimeInv /\ RecordsInv /\ QueueInv

----------------------------------------------------------------------------
(* prune() and remember().                                                 *)

\* The positions prune() pops are a prefix: they are closed downwards, so
\* each of them is at most their number.
LEMMA PrunablePrefix ==
    ASSUME NEW S, NEW records \in Seq(S), NEW age
    PROVE  Prunable(records, age) = 1..Cardinality(Prunable(records, age))
<1> DEFINE P == Prunable(records, age)
           n == Cardinality(P)
<1>1. IsFiniteSet(P) /\ n \in Nat
  BY PrunableCount
<1>2. DOMAIN records = 1..Len(records) /\ Len(records) \in Nat
  BY LenProperties
<1>3. ASSUME NEW i \in P PROVE i \in 1..n
  <2>1. i \in 1..Len(records)
    BY <1>2 DEF Prunable
  <2>2. 1..i \subseteq P
    <3>1. SUFFICES ASSUME NEW m \in 1..i PROVE m \in P
      OBVIOUS
    <3>2. m \in DOMAIN records /\ 1..m \subseteq 1..i
      BY <1>2, <2>1
    <3>3. QED
      BY <1>3, <3>2 DEF Prunable
  <2>3. Cardinality(1..i) = i
    BY <2>1, FS_Interval
  <2>4. Cardinality(1..i) <= n
    BY <1>1, <2>2, FS_Subset
  <2> HIDE DEF n
  <2>5. QED
    BY <1>1, <2>1, <2>3, <2>4
<1>4. IsFiniteSet(1..n) /\ Cardinality(1..n) = n
  BY <1>1, FS_Interval
<1>5. P \in SUBSET (1..n)
  BY <1>3
<1>6. QED
  BY <1>4, <1>5, FS_Subset

\* What prune() leaves is a suffix within the capacity; what it pops leaves
\* the stores together with its route context.
LEMMA PruneSplits ==
    ASSUME SchedulerAssumption, TypeOK,
           NEW records \in Seq(Jobs), NEW age \in [Jobs -> 0..HistoryTtl], NEW kept,
           Distinct(records), Aged(records, age), Prune(records, age, kept)
    PROVE  /\ Len(history') <= HistoryCapacity
           /\ Distinct(history')
           /\ Aged(history', recordAge')
           /\ Elements(history') \subseteq Elements(records)
           /\ store' = store \ (Elements(records) \ Elements(history'))
           /\ contexts' = kept \ (Elements(records) \ Elements(history'))
<1> DEFINE n == Cardinality(Prunable(records, age))
           len == Len(records)
           gone == {records[i] : i \in Prunable(records, age)}
<1>1. n \in 0..len
  BY PrunableCount
<1>2. len \in Nat /\ DOMAIN records = 1..len
  BY LenProperties
<1>3. Prunable(records, age) = 1..n
  BY PrunablePrefix
<1>4. /\ history' = SubSeq(records, n + 1, len)
      /\ recordAge' = age /\ store' = store \ gone /\ contexts' = kept \ gone
  BY DEF Prune
<1>5. gone = {records[i] : i \in 1..n}
  BY <1>3
<1>6. \A i \in (n + 1)..len : records[i] \in Jobs
  BY <1>1, <1>2, ElementOfSeq
<1>7. /\ SubSeq(records, n + 1, len) \in Seq(Jobs)
      /\ Len(SubSeq(records, n + 1, len)) = IF n + 1 <= len THEN len - (n + 1) + 1 ELSE 0
      /\ \A i \in 1..(len - (n + 1) + 1) :
            SubSeq(records, n + 1, len)[i] = records[(n + 1) + i - 1]
  <2>1. n + 1 \in Int /\ len \in Int
    BY <1>1, <1>2
  <2> HIDE DEF n, len
  <2>2. QED
    BY <1>6, <2>1, SubSeqProperties
<1>8. /\ history' \in Seq(Jobs) /\ Len(history') = len - n
      /\ \A i \in 1..(len - n) : history'[i] = records[n + i]
  <2> HIDE DEF n, len
  <2>1. IF n + 1 <= len THEN len - (n + 1) + 1 = len - n ELSE len - n = 0
    BY <1>1, <1>2
  <2>2. 1..(len - (n + 1) + 1) = 1..(len - n)
    BY <1>1, <1>2
  <2>3. \A i \in 1..(len - n) : (n + 1) + i - 1 = n + i
    BY <1>1, <1>2
  <2>4. QED
    BY <1>4, <1>7, <2>1, <2>2, <2>3
<1>9. DOMAIN history' = 1..(len - n)
  BY <1>8, LenProperties
<1>10. Len(history') <= HistoryCapacity
  <2>1. SUFFICES ASSUME len - n > HistoryCapacity PROVE FALSE
    BY <1>1, <1>2, <1>8 DEF SchedulerAssumption
  <2>2. n + 1 \in DOMAIN records
    BY <1>1, <1>2, <2>1 DEF SchedulerAssumption
  <2>3. ASSUME NEW k \in 1..(n + 1)
        PROVE  age[records[k]] >= HistoryTtl \/ Len(records) - k + 1 > HistoryCapacity
    <3>1. CASE k = n + 1
      <4>1. Len(records) - k + 1 = len - n
        BY <1>1, <1>2, <3>1
      <4>2. QED
        BY <2>1, <4>1
    <3>2. CASE k # n + 1
      <4>1. k \in 1..n
        BY <1>1, <3>2
      <4>2. k \in Prunable(records, age)
        BY <1>3, <4>1, Zenon
      <4>3. k \in 1..k
        BY <1>1, <4>1
      <4>4. QED
        BY <4>2, <4>3 DEF Prunable
    <3>3. QED
      BY <3>1, <3>2
  <2>4. n + 1 \in Prunable(records, age)
    BY <2>2, <2>3 DEF Prunable
  <2>5. QED
    BY <1>1, <1>3, <2>4
<1> HIDE DEF n, len
<1>11. \A i \in 1..(len - n) : n + i \in 1..len
  BY <1>1, <1>2
<1>12. Distinct(history')
  <2>1. SUFFICES ASSUME NEW i \in 1..(len - n), NEW k \in 1..(len - n),
                        history'[i] = history'[k]
                 PROVE  i = k
    BY <1>9 DEF Distinct
  <2>2. records[n + i] = records[n + k]
    BY <1>8, <2>1
  <2>3. n + i = n + k
    BY <1>2, <1>11, <2>2 DEF Distinct
  <2>4. QED
    BY <1>1, <1>2, <2>3
<1>13. Aged(history', recordAge')
  <2>1. SUFFICES ASSUME NEW i \in 1..(len - n), NEW k \in 1..(len - n), i < k
                 PROVE  recordAge'[history'[i]] >= recordAge'[history'[k]]
    BY <1>9 DEF Aged
  <2> DEFINE a == n + i
             b == n + k
  <2>2. a < b /\ a \in DOMAIN records /\ b \in DOMAIN records
    BY <1>1, <1>2, <1>11, <2>1
  <2>3. history'[i] = records[a] /\ history'[k] = records[b]
    BY <1>8
  <2> HIDE DEF a, b
  <2>4. age[records[a]] >= age[records[b]]
    BY <2>2 DEF Aged
  <2>5. QED
    BY <1>4, <2>3, <2>4
<1>14. gone \in SUBSET Elements(records)
  <2>1. Prunable(records, age) \subseteq DOMAIN records
    BY DEF Prunable
  <2>2. QED
    BY <2>1, Zenon DEF Elements
<1>15. Elements(history') = Elements(records) \ gone
  <2>1. ASSUME NEW e \in Elements(history') PROVE e \in Elements(records) \ gone
    <3>1. PICK i \in 1..(len - n) : e = records[n + i]
      BY <1>8, <1>9, <2>1 DEF Elements
    <3>2. n + i \in 1..len
      BY <1>11
    <3>3. \A m \in 1..n : m \in 1..len /\ m # n + i
      BY <1>1, <1>2
    <3>4. \A m \in 1..n : records[m] # records[n + i]
      BY <1>2, <3>2, <3>3 DEF Distinct
    <3>5. QED
      BY <1>2, <1>5, <3>1, <3>2, <3>4 DEF Elements
  <2>2. ASSUME NEW e \in Elements(records) \ gone PROVE e \in Elements(history')
    <3>1. PICK i \in 1..len : e = records[i]
      BY <1>2, <2>2 DEF Elements
    <3>2. i \notin 1..n
      BY <1>5, <2>2, <3>1
    <3>3. i - n \in 1..(len - n) /\ n + (i - n) = i
      BY <1>1, <1>2, <3>1, <3>2
    <3>4. history'[i - n] = e
      BY <1>8, <3>1, <3>3
    <3>5. QED
      BY <1>9, <3>3, <3>4 DEF Elements
  <2>3. QED
    BY <2>1, <2>2
<1>16. gone = Elements(records) \ Elements(history')
  BY <1>14, <1>15
<1> HIDE DEF gone
<1>17. QED
  BY <1>4, <1>10, <1>12, <1>13, <1>15, <1>16

\* remember() of a job whose record is stored and not yet in the history.
LEMMA Remembered ==
    ASSUME SchedulerAssumption, TypeOK, HistoryInv,
           NEW j \in store, j \notin Elements(history),
           NEW final \in Terminal, NEW kept, Remember(j, final, kept)
    PROVE  /\ Len(history') <= HistoryCapacity
           /\ Distinct(history')
           /\ Aged(history', recordAge')
           /\ Elements(history') \subseteq Elements(history) \cup {j}
           /\ store' = store \ ((Elements(history) \cup {j}) \ Elements(history'))
           /\ contexts' = kept \ ((Elements(history) \cup {j}) \ Elements(history'))
<1> DEFINE records == Append(history, j)
           age == [recordAge EXCEPT ![j] = 0]
           len == Len(history)
<1>1. history \in Seq(Jobs) /\ j \in Jobs /\ recordAge \in [Jobs -> 0..HistoryTtl]
  BY DEF TypeOK
<1>2. Prune(records, age, kept)
  BY DEF Remember
<1>3. age \in [Jobs -> 0..HistoryTtl]
  BY <1>1 DEF SchedulerAssumption
<1>4. Elements(records) = Elements(history) \cup {j} /\ Distinct(records)
  BY <1>1, AppendElements DEF HistoryInv
<1>5. /\ records \in Seq(Jobs) /\ Len(records) = len + 1
      /\ \A i \in 1..len : records[i] = history[i]
      /\ records[len + 1] = j
  BY <1>1, AppendProperties
<1>6. len \in Nat /\ DOMAIN history = 1..len /\ DOMAIN records = 1..(len + 1)
  BY <1>1, <1>5, LenProperties
<1>7. \A i \in 1..len : history[i] \in Jobs /\ history[i] # j
  <2>1. \A i \in 1..len : history[i] \in Jobs
    BY <1>1, ElementOfSeq
  <2>2. \A i \in 1..len : history[i] \in Elements(history)
    BY <1>6, Zenon DEF Elements
  <2>3. QED
    BY <2>1, <2>2
<1>8. Aged(records, age)
  <2> HIDE DEF records, len
  <2>1. SUFFICES ASSUME NEW i \in 1..(len + 1), NEW k \in 1..(len + 1), i < k
                 PROVE  age[records[i]] >= age[records[k]]
    BY <1>6 DEF Aged
  <2>2. i \in 1..len
    BY <1>6, <2>1
  <2>3. age[records[i]] = recordAge[history[i]] /\ recordAge[history[i]] \in 0..HistoryTtl
    BY <1>1, <1>5, <1>7, <2>2
  <2>4. CASE k = len + 1
    <3>1. age[records[k]] = 0
      BY <1>1, <1>5, <2>4
    <3>2. QED
      BY <2>3, <3>1 DEF SchedulerAssumption
  <2>5. CASE k # len + 1
    <3>1. k \in 1..len
      BY <1>6, <2>1, <2>5
    <3>2. age[records[k]] = recordAge[history[k]]
      BY <1>1, <1>5, <1>7, <3>1
    <3>3. recordAge[history[i]] >= recordAge[history[k]]
      BY <1>6, <2>1, <2>2, <3>1 DEF HistoryInv, Aged
    <3>4. QED
      BY <2>3, <3>2, <3>3
  <2>6. QED
    BY <2>4, <2>5
<1> HIDE DEF records, age
<1>9. QED
  BY <1>2, <1>3, <1>4, <1>5, <1>8, PruneSplits

----------------------------------------------------------------------------
(* The steps that move a job.                                              *)

LEMMA BusyFinite == SchedulerAssumption => IsFiniteSet(Busy) /\ Cardinality(Busy) \in Nat
<1>1. Busy \in SUBSET Workers
  BY DEF Busy
<1>2. QED
  BY <1>1, FS_Subset, FS_CardinalityType DEF SchedulerAssumption

\* The head of the queue is stored, and neither owned nor finished.
LEMMA HeadRecord ==
    ASSUME TypeInv, PlacesInv, RecordsInv, queue # <<>>
    PROVE  /\ Head(queue) \in Elements(queue) \cap Jobs \cap store
           /\ status[Head(queue)] = "queued" /\ caller[Head(queue)] = "accepted"
           /\ Head(queue) \notin Owned /\ Head(queue) \notin Elements(history)
           /\ Elements(Tail(queue)) = Elements(queue) \ {Head(queue)}
           /\ Len(Tail(queue)) = Len(queue) - 1 /\ Len(queue) \in Nat \ {0}
<1>1. queue \in Seq(Jobs) /\ Distinct(queue)
  BY DEF TypeInv, TypeOK, PlacesInv, ReservationsMatch, Distinct
<1>2. /\ Head(queue) \in Elements(queue)
      /\ Elements(Tail(queue)) = Elements(queue) \ {Head(queue)}
  BY <1>1, TailElements
<1>3. /\ Head(queue) \in Jobs
      /\ Len(Tail(queue)) = Len(queue) - 1 /\ Len(queue) \in Nat \ {0}
  BY HeadOfQueue DEF TypeInv
<1>4. status[Head(queue)] = "queued" /\ Head(queue) \in store
  BY <1>2, <1>3 DEF RecordsInv, StatusInv, RecordsOwned
<1>5. caller[Head(queue)] = "accepted"
  BY <1>3, <1>4 DEF RecordsInv, StatusInv
<1>6. Head(queue) \notin Owned /\ Head(queue) \notin Elements(history)
  BY <1>4 DEF RecordsInv, StatusInv, HistoryInv
<1>7. QED
  BY <1>2, <1>3, <1>4, <1>5, <1>6

\* A queued job lapses: in a consumer's hands, in a rotation, in close().
LEMMA HeadLapses ==
    ASSUME SchedulerAssumption, TypeInv, PlacesInv, RecordsInv,
           queue # <<>>, queue' = Tail(queue), Fail(Head(queue)), TaskDone(unfinished),
           Remember(Head(queue), "failed", contexts), UNCHANGED <<caller, workerVars>>
    PROVE  RecordsInv'
<1> DEFINE h == Head(queue)
<1>1. /\ h \in Elements(queue) \cap Jobs \cap store
      /\ status[h] = "queued" /\ caller[h] = "accepted"
      /\ h \notin Owned /\ h \notin Elements(history)
      /\ Elements(queue') = Elements(queue) \ {h}
      /\ Len(queue') = Len(queue) - 1 /\ Len(queue) \in Nat \ {0}
  BY HeadRecord
<1>2. status' = [status EXCEPT ![h] = "failed"]
  BY DEF Fail
<1>3. Busy' = Busy /\ Owned' = Owned
  BY DEF Busy, Owned, workerVars
<1>4. TypeOK /\ HistoryInv /\ StatusInv /\ SlotsInv /\ RecordsOwned
  BY DEF TypeInv, RecordsInv
<1>5. /\ Elements(history') \subseteq Elements(history) \cup {h}
      /\ store' = store \ ((Elements(history) \cup {h}) \ Elements(history'))
      /\ contexts' = contexts \ ((Elements(history) \cup {h}) \ Elements(history'))
  BY <1>1, <1>4, Remembered
<1>6. Len(history') <= HistoryCapacity /\ Distinct(history') /\ Aged(history', recordAge')
  BY <1>1, <1>4, Remembered
<1>7. status \in [Jobs -> {"none", "queued", "running"} \cup Terminal]
  BY <1>4 DEF TypeOK
<1> HIDE DEF h
<1>8. StatusInv'
  <2>1. \A j \in Jobs : caller'[j] # "accepted" => status'[j] = "none" /\ j \notin store'
    BY <1>1, <1>2, <1>4, <1>5, <1>7 DEF StatusInv
  <2>2. \A j \in Jobs : caller'[j] = "accepted" => status'[j] # "none"
    BY <1>1, <1>2, <1>4, <1>7 DEF StatusInv
  <2>3. \A j \in Jobs : status'[j] = "queued" <=> j \in Elements(queue')
    BY <1>1, <1>2, <1>4, <1>7 DEF StatusInv
  <2>4. \A j \in Jobs : status'[j] = "running" => j \in Owned'
    BY <1>1, <1>2, <1>3, <1>4, <1>7 DEF StatusInv
  <2>5. \A j \in Owned' : status'[j] \in {"running", "completed", "failed"}
    BY <1>1, <1>2, <1>3, <1>4, <1>7 DEF StatusInv
  <2>6. QED
    BY <2>1, <2>2, <2>3, <2>4, <2>5 DEF StatusInv
<1>9. SlotsInv'
  <2>1. running' = running /\ workerJob' = workerJob /\ unfinished' = unfinished - 1
    BY DEF workerVars, TaskDone
  <2>2. running' = Cardinality(Busy') /\ unfinished' = running' + Len(queue')
    BY <1>1, <1>3, <1>4, <2>1 DEF SlotsInv, TypeOK
  <2>3. QED
    BY <1>3, <1>4, <2>1, <2>2 DEF SlotsInv
<1>10. RecordsOwned'
  <2>1. store = Elements(queue) \cup Owned \cup Elements(history) /\ contexts \subseteq store
    BY <1>4 DEF RecordsOwned, Owned
  <2>2. \A j \in Elements(history) : j \notin Elements(queue) /\ j \notin Owned
    <3>1. Elements(history) \subseteq Jobs
      BY <1>4, <2>1 DEF TypeOK
    <3>2. QED
      BY <1>4, <3>1 DEF HistoryInv, StatusInv
  <2>3. store' = Elements(queue') \cup Owned' \cup Elements(history')
    BY <1>1, <1>3, <1>5, <2>1, <2>2
  <2>4. contexts' \subseteq store'
    BY <1>5, <2>1
  <2>5. QED
    BY <2>3, <2>4 DEF RecordsOwned, Owned
<1>11. HistoryInv'
  <2>1. \A j \in Elements(history') : status'[j] \in Terminal /\ j \notin Owned'
    BY <1>1, <1>2, <1>3, <1>4, <1>5, <1>7 DEF HistoryInv
  <2>2. QED
    BY <1>6, <2>1 DEF HistoryInv
<1>12. QED
  BY <1>8, <1>9, <1>10, <1>11 DEF RecordsInv

\* The job of a busy consumer is stored, and neither queued nor finished.
LEMMA OwnedRecord ==
    ASSUME TypeInv, RecordsInv, NEW w \in Busy
    PROVE  /\ workerJob[w] \in Owned \cap Jobs \cap store
           /\ status[workerJob[w]] \in {"running"} \cup Terminal
           /\ caller[workerJob[w]] = "accepted"
           /\ workerJob[w] \notin Elements(queue)
           /\ workerJob[w] \notin Elements(history)
<1>1. workerJob[w] \in Owned \cap Jobs
  BY DEF Owned, TypeInv
<1>2. workerJob[w] \in store
  BY DEF RecordsInv, RecordsOwned
<1>3. status[workerJob[w]] \in {"running"} \cup Terminal
  BY <1>1 DEF RecordsInv, StatusInv
<1>4. caller[workerJob[w]] = "accepted" /\ workerJob[w] \notin Elements(queue)
  BY <1>1, <1>3 DEF RecordsInv, StatusInv
<1>5. workerJob[w] \notin Elements(history)
  BY <1>1 DEF RecordsInv, HistoryInv
<1>6. QED
  BY <1>1, <1>2, <1>3, <1>4, <1>5

\* When a run ends its consumer lets go of its job, and of no other.
LEMMA RunReleases ==
    ASSUME TypeInv, RecordsInv, NEW w \in Workers, worker[w] = "running",
           workerJob' = [workerJob EXCEPT ![w] = NoJob],
           NEW next \in {"waiting", "gone"}, worker' = [worker EXCEPT ![w] = next]
    PROVE  /\ Busy' = Busy \ {w}
           /\ \A v \in Busy' : workerJob'[v] = workerJob[v] /\ workerJob[v] # workerJob[w]
           /\ Owned' = Owned \ {workerJob[w]}
<1> DEFINE h == workerJob[w]
<1>1. TypeOK /\ SlotsInv /\ w \in Busy
  BY DEF TypeInv, RecordsInv, Busy
<1>2. Busy' = Busy \ {w}
  BY <1>1 DEF Busy, TypeOK
<1>3. \A v \in Busy' : workerJob'[v] = workerJob[v] /\ workerJob[v] # h
  BY <1>1, <1>2 DEF TypeOK, Busy, SlotsInv
<1>4. \A j \in Owned' : j \in Owned \ {h}
  BY <1>2, <1>3 DEF Owned
<1>5. ASSUME NEW j \in Owned \ {h} PROVE j \in Owned'
  <2>1. PICK v \in Busy : j = workerJob[v]
    BY <1>5 DEF Owned
  <2>2. v \in Busy'
    BY <1>2, <1>5, <2>1
  <2>3. QED
    BY <1>3, <2>1, <2>2 DEF Owned
<1>6. QED
  BY <1>2, <1>3, <1>4, <1>5

\* A consumer that takes a job owns it besides what was owned.
LEMMA RunTakes ==
    ASSUME TypeInv, NEW w \in Workers, worker[w] = "waiting", NEW h,
           worker' = [worker EXCEPT ![w] = "running"],
           workerJob' = [workerJob EXCEPT ![w] = h]
    PROVE  /\ Busy' = Busy \cup {w} /\ w \notin Busy
           /\ workerJob'[w] = h /\ \A v \in Busy : workerJob'[v] = workerJob[v]
           /\ Owned' = Owned \cup {h}
<1>1. TypeOK
  BY DEF TypeInv
<1>2. Busy' = Busy \cup {w} /\ w \notin Busy
  BY <1>1 DEF Busy, TypeOK
<1>3. workerJob'[w] = h /\ \A v \in Busy : workerJob'[v] = workerJob[v]
  BY <1>1, <1>2 DEF Busy, TypeOK
<1>4. Owned' = {workerJob'[v] : v \in Busy \cup {w}}
  BY <1>2 DEF Owned
<1>5. {workerJob'[v] : v \in Busy \cup {w}} = {workerJob'[v] : v \in Busy} \cup {h}
  BY <1>3
<1>6. {workerJob'[v] : v \in Busy} = Owned
  BY <1>3 DEF Owned
<1>7. QED
  BY <1>2, <1>3, <1>4, <1>5, <1>6

\* A run ends: Return, Raise, CancelRun and AbsorbCancel.
LEMMA RunEnds ==
    ASSUME SchedulerAssumption, TypeInv, PlacesInv, RecordsInv,
           NEW w \in Workers, worker[w] = "running",
           NEW final \in Terminal, EndRun(w, final),
           NEW next \in {"waiting", "gone"}, worker' = [worker EXCEPT ![w] = next]
    PROVE  RecordsInv'
<1> DEFINE h == workerJob[w]
<1>1. w \in Busy
  BY DEF Busy
<1>2. /\ h \in Owned \cap Jobs \cap store
      /\ status[h] \in {"running"} \cup Terminal /\ caller[h] = "accepted"
      /\ h \notin Elements(queue) /\ h \notin Elements(history)
  BY <1>1, OwnedRecord
<1>3. TypeOK /\ HistoryInv /\ StatusInv /\ SlotsInv /\ RecordsOwned
  BY DEF TypeInv, RecordsInv
<1>4. /\ status' = [status EXCEPT ![h] = final]
      /\ running' = running - 1 /\ unfinished' = unfinished - 1
      /\ workerJob' = [workerJob EXCEPT ![w] = NoJob]
      /\ queue' = queue /\ caller' = caller
  BY DEF EndRun, TaskDone, callerVars
<1>5. PICK kept \in ContextsAfter(h) : Remember(h, final, kept)
  BY DEF EndRun
<1>6. Busy' = Busy \ {w}
  BY <1>4, RunReleases
<1>7. \A v \in Busy' : workerJob'[v] = workerJob[v] /\ workerJob[v] # h
  BY <1>4, RunReleases
<1>8. Owned' = Owned \ {h}
  BY <1>4, RunReleases
<1>9. /\ Elements(history') \subseteq Elements(history) \cup {h}
      /\ store' = store \ ((Elements(history) \cup {h}) \ Elements(history'))
      /\ contexts' = kept \ ((Elements(history) \cup {h}) \ Elements(history'))
      /\ Len(history') <= HistoryCapacity
      /\ Distinct(history')
      /\ Aged(history', recordAge')
  BY <1>2, <1>3, <1>5, Remembered
<1>10. status \in [Jobs -> {"none", "queued", "running"} \cup Terminal]
  BY <1>3 DEF TypeOK
<1>11. kept \subseteq contexts \cup {h}
  BY DEF ContextsAfter
<1> HIDE DEF h
<1>12. StatusInv'
  <2>1. \A j \in Jobs : caller'[j] # "accepted" => status'[j] = "none" /\ j \notin store'
    BY <1>2, <1>3, <1>4, <1>9, <1>10 DEF StatusInv
  <2>2. \A j \in Jobs : caller'[j] = "accepted" => status'[j] # "none"
    BY <1>2, <1>3, <1>4, <1>10 DEF StatusInv
  <2>3. \A j \in Jobs : status'[j] = "queued" <=> j \in Elements(queue')
    BY <1>2, <1>3, <1>4, <1>10 DEF StatusInv
  <2>4. \A j \in Jobs : status'[j] = "running" => j \in Owned'
    BY <1>2, <1>3, <1>4, <1>8, <1>10 DEF StatusInv
  <2>5. \A j \in Owned' : status'[j] \in {"running", "completed", "failed"}
    BY <1>2, <1>3, <1>4, <1>8, <1>10 DEF StatusInv
  <2>6. QED
    BY <2>1, <2>2, <2>3, <2>4, <2>5 DEF StatusInv
<1>13. SlotsInv'
  <2>1. IsFiniteSet(Busy) /\ Cardinality(Busy) \in Nat
    BY BusyFinite
  <2>2. Cardinality(Busy') = Cardinality(Busy) - 1
    BY <1>1, <1>6, <2>1, FS_RemoveElement
  <2>3. Len(queue) \in Nat
    BY <1>3, LenProperties DEF TypeOK
  <2>4. running' = Cardinality(Busy') /\ unfinished' = running' + Len(queue')
    BY <1>3, <1>4, <2>1, <2>2, <2>3 DEF SlotsInv, TypeOK
  <2>5. \A u, v \in Busy' : workerJob'[u] = workerJob'[v] => u = v
    BY <1>3, <1>6, <1>7 DEF SlotsInv
  <2>6. QED
    BY <2>4, <2>5 DEF SlotsInv
<1>14. RecordsOwned'
  <2>1. store = Elements(queue) \cup Owned \cup Elements(history) /\ contexts \subseteq store
    BY <1>3 DEF RecordsOwned, Owned
  <2>2. \A j \in Elements(history) : j \notin Elements(queue) /\ j \notin Owned
    <3>1. Elements(history) \subseteq Jobs
      BY <1>3, <2>1 DEF TypeOK
    <3>2. QED
      BY <1>3, <3>1 DEF HistoryInv, StatusInv
  <2>3. store' = Elements(queue') \cup Owned' \cup Elements(history')
    BY <1>2, <1>4, <1>8, <1>9, <2>1, <2>2
  <2>4. contexts' \subseteq store'
    BY <1>2, <1>9, <1>11, <2>1
  <2>5. QED
    BY <2>3, <2>4 DEF RecordsOwned, Owned
<1>15. HistoryInv'
  <2>1. \A j \in Elements(history') : status'[j] \in Terminal /\ j \notin Owned'
    BY <1>2, <1>3, <1>4, <1>8, <1>9, <1>10 DEF HistoryInv
  <2>2. QED
    BY <1>9, <2>1 DEF HistoryInv
<1>16. QED
  BY <1>12, <1>13, <1>14, <1>15 DEF RecordsInv

\* Steps that leave the jobs and their records where they are; the items of
\* the queue may change places.
LEMMA RecordsUnmoved ==
    ASSUME RecordsInv, UNCHANGED <<recordVars, running, unfinished, workerJob>>,
           Busy' = Busy, Elements(queue') = Elements(queue), Len(queue') = Len(queue),
           caller' = caller
    PROVE  RecordsInv'
<1>1. Owned' = Owned
  BY DEF Owned
<1>2. Elements(history') = Elements(history)
  BY DEF recordVars
<1>3. StatusInv' /\ SlotsInv'
  BY <1>1 DEF RecordsInv, StatusInv, SlotsInv, recordVars
<1>4. RecordsOwned'
  BY <1>1, <1>2 DEF RecordsInv, RecordsOwned, Owned, recordVars
<1>5. HistoryInv'
  BY <1>1, <1>2 DEF RecordsInv, HistoryInv, recordVars
<1>6. QED
  BY <1>3, <1>4, <1>5 DEF RecordsInv

\* Only submit() makes a job known; the handlers' other steps keep it unknown.
LEMMA CallerRecords ==
    ASSUME SchedulerAssumption, TypeInv, PlacesInv, RecordsInv,
           NEW j \in Jobs, CallerStep(j)
    PROVE  RecordsInv'
<1>1. CASE Submit(j)
  <2>1. /\ caller[j] = "preparing" /\ reservation[j] = "reserved"
        /\ queue' = Append(queue, j) /\ unfinished' = unfinished + 1
        /\ store' = store \cup {j}
        /\ status' = [status EXCEPT ![j] = "queued"]
        /\ caller' = [caller EXCEPT ![j] = "accepted"]
        /\ UNCHANGED <<workerVars, history, recordAge, contexts>>
    BY <1>1 DEF Submit
  <2>2. TypeOK /\ HistoryInv /\ StatusInv /\ SlotsInv /\ RecordsOwned
    BY DEF TypeInv, RecordsInv
  <2>3. status[j] = "none" /\ j \notin store
    BY <2>1, <2>2 DEF StatusInv
  <2>4. j \notin Elements(queue) /\ j \notin Owned /\ j \notin Elements(history)
    BY <2>2, <2>3 DEF RecordsOwned, Owned
  <2>5. Elements(queue') = Elements(queue) \cup {j} /\ Len(queue') = Len(queue) + 1
    <3>1. queue \in Seq(Jobs) /\ Distinct(queue)
      BY DEF TypeInv, TypeOK, PlacesInv, ReservationsMatch, Distinct
    <3>2. QED
      BY <2>1, <2>4, <3>1, AppendElements, AppendProperties
  <2>6. Busy' = Busy /\ Owned' = Owned /\ running' = running /\ workerJob' = workerJob
    BY <2>1 DEF Busy, Owned, workerVars
  <2>7. Elements(history') = Elements(history)
    BY <2>1
  <2>8. /\ status \in [Jobs -> {"none", "queued", "running"} \cup Terminal]
        /\ caller \in [Jobs -> {"idle", "preparing", "abandoned", "accepted", "refused"}]
    BY <2>2 DEF TypeOK
  <2>9. StatusInv'
    <3>1. \A i \in Jobs : caller'[i] # "accepted" => status'[i] = "none" /\ i \notin store'
      BY <2>1, <2>2, <2>8 DEF StatusInv
    <3>2. \A i \in Jobs : caller'[i] = "accepted" => status'[i] # "none"
      BY <2>1, <2>2, <2>8 DEF StatusInv
    <3>3. \A i \in Jobs : status'[i] = "queued" <=> i \in Elements(queue')
      BY <2>1, <2>2, <2>5, <2>8 DEF StatusInv
    <3>4. \A i \in Jobs : status'[i] = "running" => i \in Owned'
      BY <2>1, <2>2, <2>6, <2>8 DEF StatusInv
    <3>5. \A i \in Owned' : status'[i] \in {"running", "completed", "failed"}
      BY <2>1, <2>2, <2>4, <2>6, <2>8 DEF StatusInv
    <3>6. QED
      BY <3>1, <3>2, <3>3, <3>4, <3>5 DEF StatusInv
  <2>10. SlotsInv'
    <3>1. Len(queue) \in Nat
      BY <2>2, LenProperties DEF TypeOK
    <3>2. unfinished' = running' + Len(queue')
      BY <2>1, <2>2, <2>5, <2>6, <3>1 DEF SlotsInv, TypeOK
    <3>3. QED
      BY <2>2, <2>6, <3>2 DEF SlotsInv
  <2>11. RecordsOwned'
    <3>1. store = Elements(queue) \cup Owned \cup Elements(history) /\ contexts \subseteq store
      BY <2>2 DEF RecordsOwned, Owned
    <3>2. store' = Elements(queue') \cup Owned' \cup Elements(history')
      BY <2>1, <2>5, <2>6, <2>7, <3>1
    <3>3. contexts' \subseteq store'
      BY <2>1, <3>1
    <3>4. QED
      BY <3>2, <3>3 DEF RecordsOwned, Owned
  <2>12. HistoryInv'
    <3>1. \A i \in Elements(history') : status'[i] \in Terminal /\ i \notin Owned'
      BY <2>1, <2>2, <2>4, <2>6, <2>7, <2>8 DEF HistoryInv
    <3>2. QED
      BY <2>1, <2>2, <3>1 DEF HistoryInv
  <2>13. QED
    BY <2>9, <2>10, <2>11, <2>12 DEF RecordsInv
<1>2. CASE ~Submit(j)
  <2>1. /\ caller[j] # "accepted"
        /\ \E c \in {"preparing", "abandoned", "refused"} :
              caller' = [caller EXCEPT ![j] = c]
        /\ UNCHANGED <<queueVars, workerVars, status, history, recordAge, contexts>>
    BY <1>2 DEF CallerStep, Reserve, ReserveRefused, PreparationFails, CancelRequest,
                AbandonedEnds, SubmitRefused, recordVars
  <2>2. store' = store \/ store' = store \ {j}
    BY <1>2 DEF CallerStep, Reserve, ReserveRefused, PreparationFails, CancelRequest,
                AbandonedEnds, SubmitRefused, recordVars
  <2>3. TypeOK /\ HistoryInv /\ StatusInv /\ SlotsInv /\ RecordsOwned
    BY DEF TypeInv, RecordsInv
  <2>4. j \notin store
    BY <2>1, <2>3 DEF StatusInv
  <2>5. store' = store
    BY <2>2, <2>4
  <2>6. Busy' = Busy /\ Owned' = Owned
    BY <2>1 DEF Busy, Owned, workerVars
  <2>7. StatusInv'
    BY <2>1, <2>3, <2>5, <2>6 DEF StatusInv, TypeOK, queueVars
  <2>8. SlotsInv' /\ RecordsOwned' /\ HistoryInv'
    BY <2>1, <2>3, <2>5, <2>6
       DEF SlotsInv, RecordsOwned, Owned, HistoryInv, queueVars, workerVars
  <2>9. QED
    BY <2>7, <2>8 DEF RecordsInv
<1>3. QED
  BY <1>1, <1>2

LEMMA WorkerRecords ==
    ASSUME SchedulerAssumption, TypeInv, PlacesInv, RecordsInv,
           NEW w \in Workers, WorkerStep(w)
    PROVE  RecordsInv'
<1>0. TypeOK /\ HistoryInv /\ StatusInv /\ SlotsInv /\ RecordsOwned
  BY DEF TypeInv, RecordsInv
<1>1. CASE DequeueExpired(w)
  BY <1>1, HeadLapses DEF DequeueExpired, CanDequeue, Expire
<1>2. CASE DequeueStart(w)
  <2> DEFINE h == Head(queue)
  <2>1. /\ worker[w] = "waiting" /\ queue # <<>>
        /\ queue' = Tail(queue) /\ running' = running + 1
        /\ worker' = [worker EXCEPT ![w] = "running"]
        /\ workerJob' = [workerJob EXCEPT ![w] = h]
        /\ status' = [status EXCEPT ![h] = "running"]
        /\ UNCHANGED <<caller, unfinished, store, history, recordAge, contexts>>
    BY <1>2 DEF DequeueStart, CanDequeue
  <2>2. /\ h \in Elements(queue) \cap Jobs \cap store
        /\ status[h] = "queued" /\ caller[h] = "accepted"
        /\ h \notin Owned /\ h \notin Elements(history)
        /\ Elements(queue') = Elements(queue) \ {h}
        /\ Len(queue') = Len(queue) - 1 /\ Len(queue) \in Nat \ {0}
    BY <2>1, HeadRecord
  <2> HIDE DEF h
  <2>3. Busy' = Busy \cup {w} /\ w \notin Busy
    BY <2>1, RunTakes
  <2>4. workerJob'[w] = h /\ \A v \in Busy : workerJob'[v] = workerJob[v]
    BY <2>1, RunTakes
  <2>5. Owned' = Owned \cup {h}
    BY <2>1, RunTakes
  <2>6. Elements(history') = Elements(history)
    BY <2>1
  <2>7. status \in [Jobs -> {"none", "queued", "running"} \cup Terminal]
    BY <1>0 DEF TypeOK
  <2>8. StatusInv'
    <3>1. \A j \in Jobs : caller'[j] # "accepted" => status'[j] = "none" /\ j \notin store'
      BY <1>0, <2>1, <2>2, <2>7 DEF StatusInv
    <3>2. \A j \in Jobs : caller'[j] = "accepted" => status'[j] # "none"
      BY <1>0, <2>1, <2>7 DEF StatusInv
    <3>3. \A j \in Jobs : status'[j] = "queued" <=> j \in Elements(queue')
      BY <1>0, <2>1, <2>2, <2>7 DEF StatusInv
    <3>4. \A j \in Jobs : status'[j] = "running" => j \in Owned'
      BY <1>0, <2>1, <2>5, <2>7 DEF StatusInv
    <3>5. \A j \in Owned' : status'[j] \in {"running", "completed", "failed"}
      BY <1>0, <2>1, <2>2, <2>5, <2>7 DEF StatusInv
    <3>6. QED
      BY <3>1, <3>2, <3>3, <3>4, <3>5 DEF StatusInv
  <2>9. SlotsInv'
    <3>1. IsFiniteSet(Busy) /\ Cardinality(Busy) \in Nat
      BY BusyFinite
    <3>2. Cardinality(Busy') = Cardinality(Busy) + 1
      BY <2>3, <3>1, FS_AddElement
    <3>3. running' = Cardinality(Busy') /\ unfinished' = running' + Len(queue')
      BY <1>0, <2>1, <2>2, <3>1, <3>2 DEF SlotsInv, TypeOK
    <3>4. \A v \in Busy : workerJob[v] # h
      BY <2>2 DEF Owned
    <3>5. \A u, v \in Busy' : workerJob'[u] = workerJob'[v] => u = v
      BY <1>0, <2>3, <2>4, <3>4 DEF SlotsInv
    <3>6. QED
      BY <3>3, <3>5 DEF SlotsInv
  <2>10. RecordsOwned'
    <3>1. store = Elements(queue) \cup Owned \cup Elements(history) /\ contexts \subseteq store
      BY <1>0 DEF RecordsOwned, Owned
    <3>2. store' = Elements(queue') \cup Owned' \cup Elements(history')
      BY <2>1, <2>2, <2>5, <2>6, <3>1
    <3>3. contexts' \subseteq store'
      BY <2>1, <3>1
    <3>4. QED
      BY <3>2, <3>3 DEF RecordsOwned, Owned
  <2>11. HistoryInv'
    <3>1. \A j \in Elements(history') : status'[j] \in Terminal /\ j \notin Owned'
      BY <1>0, <2>1, <2>2, <2>5, <2>6, <2>7 DEF HistoryInv
    <3>2. QED
      BY <1>0, <2>1, <3>1 DEF HistoryInv
  <2>12. QED
    BY <2>8, <2>9, <2>10, <2>11 DEF RecordsInv
<1>3. CASE Settle(w)
  <2>1. PICK final \in Terminal : status' = [status EXCEPT ![workerJob[w]] = final]
    BY <1>3 DEF Settle
  <2>2. /\ UNCHANGED <<callerVars, queueVars, workerVars, store, history, recordAge, contexts>>
        /\ w \in Busy
    BY <1>3 DEF Settle, Busy
  <2> DEFINE h == workerJob[w]
  <2>3. /\ h \in Owned \cap Jobs \cap store
        /\ status[h] \in {"running"} \cup Terminal /\ caller[h] = "accepted"
        /\ h \notin Elements(queue) /\ h \notin Elements(history)
    BY <2>2, OwnedRecord
  <2>4. status' = [status EXCEPT ![h] = final]
    BY <2>1
  <2>5. Busy' = Busy /\ Owned' = Owned
    BY <2>2 DEF Busy, Owned, workerVars
  <2>6. Elements(queue') = Elements(queue) /\ Elements(history') = Elements(history)
    BY <2>2 DEF queueVars
  <2>7. caller' = caller /\ store' = store
    BY <2>2 DEF callerVars
  <2> HIDE DEF h
  <2>8. StatusInv'
    BY <1>0, <2>3, <2>4, <2>5, <2>6, <2>7 DEF StatusInv
  <2>9. SlotsInv'
    BY <1>0, <2>2, <2>5 DEF SlotsInv, queueVars, workerVars
  <2>10. RecordsOwned'
    BY <1>0, <2>2, <2>5, <2>6 DEF RecordsOwned, Owned
  <2>11. HistoryInv'
    BY <1>0, <2>2, <2>3, <2>4, <2>5, <2>6 DEF HistoryInv
  <2>12. QED
    BY <2>8, <2>9, <2>10, <2>11 DEF RecordsInv
<1>4. CASE Return(w) \/ AbsorbCancel(w)
  <2>1. PICK final \in Terminal : EndRun(w, final)
    BY <1>4 DEF Return, AbsorbCancel, Verdict
  <2>2. worker[w] = "running" /\ worker' = [worker EXCEPT ![w] = "waiting"]
    BY <1>4 DEF Return, AbsorbCancel
  <2>3. QED
    BY <2>1, <2>2, RunEnds
<1>5. CASE Raise(w)
  BY <1>5, RunEnds DEF Raise
<1>6. CASE CancelRun(w)
  BY <1>6, RunEnds DEF CancelRun
<1>7. CASE CancelIdle(w)
  <2>1. Busy' = Busy
    BY <1>7 DEF CancelIdle, Busy
  <2>2. /\ UNCHANGED <<recordVars, running, unfinished, workerJob>>
        /\ queue' = queue /\ caller' = caller
    BY <1>7 DEF CancelIdle, callerVars, queueVars
  <2>3. Elements(queue') = Elements(queue) /\ Len(queue') = Len(queue)
    BY <2>2
  <2>4. QED
    BY <2>1, <2>2, <2>3, RecordsUnmoved
<1>8. QED
  BY <1>1, <1>2, <1>3, <1>4, <1>5, <1>6, <1>7 DEF WorkerStep

LEMMA SweeperRecords ==
    ASSUME SchedulerAssumption, TypeInv, PlacesInv, RecordsInv, SweeperStep
    PROVE  RecordsInv'
<1>0. TypeOK /\ HistoryInv /\ StatusInv /\ SlotsInv /\ RecordsOwned
  BY DEF TypeInv, RecordsInv
<1>1. CASE SweepBegin
  <2>1. UNCHANGED <<recordVars, running, unfinished, workerJob, worker, queue, caller>>
    BY <1>1 DEF SweepBegin, callerVars, queueVars, workerVars
  <2>2. Busy' = Busy /\ Elements(queue') = Elements(queue) /\ Len(queue') = Len(queue)
    BY <2>1 DEF Busy
  <2>3. QED
    BY <2>1, <2>2, RecordsUnmoved
<1>2. ASSUME sweeper = "rotating", toRotate > 0 PROVE queue # <<>>
  BY <1>2, EmptySeq DEF TypeInv
<1>3. CASE RotateExpired
  BY <1>2, <1>3, HeadLapses DEF RotateExpired, Expire
<1>4. CASE RotateSurvivor
  <2>1. /\ queue \in Seq(Jobs) /\ Distinct(queue) /\ queue # <<>>
        /\ queue' = Append(Tail(queue), Head(queue))
        /\ UNCHANGED <<recordVars, running, workerJob, worker, caller>>
    BY <1>2, <1>4 DEF RotateSurvivor, callerVars, workerVars, TypeInv, TypeOK, PlacesInv,
                      ReservationsMatch, Distinct
  <2>2. unfinished' = unfinished
    BY <1>0, <1>4 DEF RotateSurvivor, TaskDone, TypeOK
  <2>3. /\ Head(queue) \in Elements(queue) /\ Head(queue) \in Jobs
        /\ Elements(Tail(queue)) = Elements(queue) \ {Head(queue)}
        /\ Tail(queue) \in Seq(Jobs) /\ Distinct(Tail(queue))
        /\ Len(Tail(queue)) = Len(queue) - 1 /\ Len(queue) \in Nat
    BY <1>0, <2>1, TailElements, HeadOfQueue
  <2>4. Elements(queue') = Elements(Tail(queue)) \cup {Head(queue)}
    BY <2>1, <2>3, AppendElements
  <2>5. Elements(queue') = Elements(queue)
    BY <2>3, <2>4
  <2>6. Len(queue') = Len(queue)
    BY <2>1, <2>3, AppendProperties
  <2>7. Busy' = Busy
    BY <2>1 DEF Busy
  <2>8. QED
    BY <2>1, <2>2, <2>5, <2>6, <2>7, RecordsUnmoved
<1>5. CASE SweepEnd
  <2>1. /\ Prune(history, recordAge, contexts)
        /\ UNCHANGED <<callerVars, queueVars, workerVars, status>>
    BY <1>5 DEF SweepEnd
  <2>2. /\ Len(history') <= HistoryCapacity
        /\ Distinct(history') /\ Aged(history', recordAge')
        /\ Elements(history') \subseteq Elements(history)
        /\ store' = store \ (Elements(history) \ Elements(history'))
        /\ contexts' = contexts \ (Elements(history) \ Elements(history'))
    BY <1>0, <2>1, PruneSplits DEF TypeOK, HistoryInv
  <2>3. Busy' = Busy /\ Owned' = Owned
    BY <2>1 DEF Busy, Owned, workerVars
  <2>4. /\ Elements(queue') = Elements(queue) /\ queue' = queue
        /\ caller' = caller /\ status' = status
    BY <2>1 DEF queueVars, callerVars
  <2>5. StatusInv'
    BY <1>0, <2>2, <2>3, <2>4 DEF StatusInv
  <2>6. SlotsInv'
    BY <1>0, <2>1, <2>3 DEF SlotsInv, queueVars, workerVars
  <2>7. RecordsOwned'
    <3>1. store = Elements(queue) \cup Owned \cup Elements(history) /\ contexts \subseteq store
      BY <1>0 DEF RecordsOwned, Owned
    <3>2. \A j \in Elements(history) : j \notin Elements(queue) /\ j \notin Owned
      <4>1. Elements(history) \subseteq Jobs
        BY <1>0, <3>1 DEF TypeOK
      <4>2. QED
        BY <1>0, <4>1 DEF HistoryInv, StatusInv
    <3>3. store' = Elements(queue') \cup Owned' \cup Elements(history')
      BY <2>2, <2>3, <2>4, <3>1, <3>2
    <3>4. contexts' \subseteq store'
      BY <2>2, <3>1
    <3>5. QED
      BY <3>3, <3>4 DEF RecordsOwned, Owned
  <2>8. HistoryInv'
    BY <1>0, <2>2, <2>3, <2>4 DEF HistoryInv
  <2>9. QED
    BY <2>5, <2>6, <2>7, <2>8 DEF RecordsInv
<1>6. QED
  BY <1>1, <1>3, <1>4, <1>5 DEF SweeperStep

LEMMA LifetimeRecords ==
    ASSUME SchedulerAssumption, TypeInv, PlacesInv, LifetimeInv, RecordsInv, LifetimeStep
    PROVE  RecordsInv'
<1>0. TypeOK /\ HistoryInv /\ StatusInv /\ SlotsInv /\ RecordsOwned
  BY DEF TypeInv, RecordsInv
<1>1. CASE FlushOne
  BY <1>1, HeadLapses DEF FlushOne
<1>2. CASE ClearHistory
  <2>1. /\ history' = <<>> /\ store' = store \ Elements(history) /\ contexts' = {}
        /\ UNCHANGED <<callerVars, queueVars, workerVars, status, recordAge>>
    BY <1>2 DEF ClearHistory
  <2>2. Busy' = Busy /\ Owned' = Owned
    BY <2>1 DEF Busy, Owned, workerVars
  <2>3. /\ Elements(queue') = Elements(queue) /\ queue' = queue
        /\ caller' = caller /\ status' = status
    BY <2>1 DEF queueVars, callerVars
  <2>4. DOMAIN history' = {} /\ Len(history') = 0
    BY <2>1
  <2>5. Elements(history') = {}
    BY <2>4 DEF Elements
  <2>6. StatusInv'
    BY <1>0, <2>1, <2>2, <2>3 DEF StatusInv
  <2>7. SlotsInv'
    BY <1>0, <2>1, <2>2 DEF SlotsInv, queueVars, workerVars
  <2>8. RecordsOwned'
    <3>1. store = Elements(queue) \cup Owned \cup Elements(history)
      BY <1>0 DEF RecordsOwned, Owned
    <3>2. \A j \in Elements(history) : j \notin Elements(queue) /\ j \notin Owned
      <4>1. Elements(history) \subseteq Jobs
        BY <1>0, <3>1 DEF TypeOK
      <4>2. QED
        BY <1>0, <4>1 DEF HistoryInv, StatusInv
    <3>3. store' = Elements(queue') \cup Owned' \cup Elements(history')
      BY <2>1, <2>2, <2>3, <2>5, <3>1, <3>2
    <3>4. contexts' \subseteq store'
      BY <2>1
    <3>5. QED
      BY <3>3, <3>4 DEF RecordsOwned, Owned
  <2>9. HistoryInv'
    <3>1. Distinct(history') /\ Aged(history', recordAge')
      BY <2>4 DEF Distinct, Aged
    <3>2. QED
      BY <2>4, <2>5, <3>1 DEF HistoryInv, SchedulerAssumption
  <2>10. QED
    BY <2>6, <2>7, <2>8, <2>9 DEF RecordsInv
<1>3. CASE Start \/ BeginShutdown \/ Close \/ ConsumersGone \/ FlushEnd
  <2>1. UNCHANGED <<recordVars, running, unfinished, workerJob, queue, caller>>
    BY <1>3 DEF Start, BeginShutdown, Close, ConsumersGone, FlushEnd, callerVars,
                queueVars, workerVars
  <2>2. Busy' = Busy
    BY <1>3 DEF Start, BeginShutdown, Close, ConsumersGone, FlushEnd, workerVars, Busy,
                LifetimeInv
  <2>3. Elements(queue') = Elements(queue) /\ Len(queue') = Len(queue)
    BY <2>1
  <2>4. QED
    BY <2>1, <2>2, <2>3, RecordsUnmoved
<1>4. QED
  BY <1>1, <1>2, <1>3 DEF LifetimeStep

\* Ages grow alike until they meet their cap, so that order is kept.
LEMMA CappedOrder ==
    ASSUME NEW cap \in Nat, NEW a \in 0..cap, NEW b \in 0..cap, a >= b
    PROVE  CappedNext(a, cap) >= CappedNext(b, cap)
BY DEF CappedNext

LEMMA TickRecords ==
    ASSUME SchedulerAssumption, TypeInv, RecordsInv, Tick
    PROVE  RecordsInv'
<1>0. TypeOK /\ HistoryInv /\ StatusInv /\ SlotsInv /\ RecordsOwned
  BY DEF TypeInv, RecordsInv
<1>1. /\ recordAge' = [j \in Jobs |-> IF j \in Elements(history)
                                      THEN CappedNext(recordAge[j], HistoryTtl)
                                      ELSE recordAge[j]]
      /\ UNCHANGED <<callerVars, queue, unfinished, workerVars, status, store, history,
                     contexts>>
  BY DEF Tick
<1>2. Busy' = Busy /\ Owned' = Owned
  BY <1>1 DEF Busy, Owned, workerVars
<1>3. /\ Elements(queue') = Elements(queue) /\ Elements(history') = Elements(history)
      /\ caller' = caller
  BY <1>1 DEF callerVars
<1>4. Aged(history', recordAge')
  <2>1. SUFFICES ASSUME NEW i \in DOMAIN history, NEW k \in DOMAIN history, i < k
                 PROVE  recordAge'[history[i]] >= recordAge'[history[k]]
    BY <1>1 DEF Aged
  <2>2. \A m \in DOMAIN history : history[m] \in Jobs /\ history[m] \in Elements(history)
    BY <1>0, ElementOfSeq, LenProperties DEF TypeOK, Elements
  <2>3. \A m \in DOMAIN history :
           /\ recordAge'[history[m]] = CappedNext(recordAge[history[m]], HistoryTtl)
           /\ recordAge[history[m]] \in 0..HistoryTtl
    BY <1>0, <1>1, <2>2 DEF TypeOK
  <2>4. recordAge[history[i]] >= recordAge[history[k]]
    BY <1>0, <2>1 DEF HistoryInv, Aged
  <2>5. HistoryTtl \in Nat
    BY DEF SchedulerAssumption
  <2>6. QED
    BY <2>3, <2>4, <2>5, CappedOrder
<1>5. StatusInv'
  BY <1>0, <1>1, <1>2, <1>3 DEF StatusInv
<1>6. SlotsInv' /\ RecordsOwned'
  BY <1>0, <1>1, <1>2, <1>3 DEF SlotsInv, RecordsOwned, Owned, workerVars
<1>7. HistoryInv'
  BY <1>0, <1>1, <1>2, <1>3, <1>4 DEF HistoryInv
<1>8. QED
  BY <1>5, <1>6, <1>7 DEF RecordsInv

LEMMA NextRecords ==
    ASSUME SchedulerAssumption, TypeInv, PlacesInv, LifetimeInv, RecordsInv, [Next]_vars
    PROVE  RecordsInv'
<1>1. CASE UNCHANGED vars
  <2>1. UNCHANGED <<recordVars, running, unfinished, workerJob, worker, queue, caller>>
    BY <1>1 DEF vars, callerVars, queueVars, workerVars, recordVars
  <2>2. Busy' = Busy /\ Elements(queue') = Elements(queue) /\ Len(queue') = Len(queue)
    BY <2>1 DEF Busy
  <2>3. QED
    BY <2>1, <2>2, RecordsUnmoved
<1>2. QED
  BY <1>1, CallerRecords, WorkerRecords, SweeperRecords, LifetimeRecords, TickRecords
     DEF Next

----------------------------------------------------------------------------
(* The lifetime of the scheduler.                                          *)

LEMMA NextLifetime ==
    ASSUME SchedulerAssumption, TypeInv, LifetimeInv, [Next]_vars
    PROVE  LifetimeInv'
<1> USE DEF LifetimeInv
<1>1. worker \in [Workers -> {"off", "waiting", "running", "gone"}]
  BY DEF TypeInv, TypeOK
<1>2. ASSUME UNCHANGED <<phase, accepting, worker, history>>,
             \/ queue' = queue
             \/ phase \notin {"closed", "cleared"}
      PROVE  LifetimeInv'
  BY <1>2
<1>3. CASE \E j \in Jobs : CallerStep(j)
  <2>1. PICK j \in Jobs : CallerStep(j)
    BY <1>3
  <2>2. CASE Submit(j)
    BY <1>2, <2>2 DEF Submit, CanSubmit, controlVars, workerVars
  <2>3. CASE ~Submit(j)
    BY <1>2, <2>1, <2>3
       DEF CallerStep, Reserve, ReserveRefused, PreparationFails, CancelRequest,
           AbandonedEnds, SubmitRefused, controlVars, queueVars, workerVars, recordVars
  <2>4. QED
    BY <2>2, <2>3
<1>4. CASE \E w \in Workers : WorkerStep(w)
  <2>1. PICK w \in Workers : WorkerStep(w)
    BY <1>4
  <2>2. UNCHANGED <<phase, accepting>>
    BY <2>1 DEF WorkerStep, DequeueExpired, DequeueStart, Settle, Return, Raise, CancelRun,
                AbsorbCancel, CancelIdle, EndRun, controlVars
  <2>3. worker[w] \in {"waiting", "running"}
    BY <2>1 DEF WorkerStep, DequeueExpired, DequeueStart, CanDequeue, Settle, Return, Raise,
                CancelRun, AbsorbCancel, CancelIdle
  <2>4. QED
    BY <2>2, <2>3
<1>5. CASE SweeperStep
  <2>1. UNCHANGED <<phase, accepting, worker>>
    BY <1>5 DEF SweeperStep, SweepBegin, RotateExpired, RotateSurvivor, SweepEnd, workerVars
  <2>2. phase \in {"open", "draining"}
    BY <1>5 DEF SweeperStep, SweepBegin, RotateExpired, RotateSurvivor, SweepEnd, TypeInv
  <2>3. QED
    BY <2>1, <2>2
<1>6. CASE Start
  BY <1>6 DEF Start
<1>7. CASE BeginShutdown
  BY <1>7 DEF BeginShutdown
<1>8. CASE Close
  BY <1>8 DEF Close
<1>9. CASE ConsumersGone
  BY <1>9 DEF ConsumersGone, workerVars
<1>10. CASE FlushOne
  BY <1>10 DEF FlushOne, controlVars, workerVars
<1>11. CASE FlushEnd
  BY <1>11 DEF FlushEnd, queueVars, workerVars
<1>12. CASE ClearHistory
  BY <1>12 DEF ClearHistory, queueVars, workerVars
<1>13. CASE Tick
  BY <1>13 DEF Tick, controlVars, workerVars
<1>14. CASE UNCHANGED vars
  BY <1>14 DEF vars, controlVars, queueVars, workerVars, recordVars
<1>15. QED
  BY <1>3, <1>4, <1>5, <1>6, <1>7, <1>8, <1>9, <1>10, <1>11, <1>12, <1>13, <1>14
     DEF Next, LifetimeStep

----------------------------------------------------------------------------
(* The order of the queue.                                                 *)

\* The head leaves, in a rotation or not.
LEMMA OrderHeadLeaves ==
    ASSUME TypeInv, QueueInv, queue # <<>>, queue' = Tail(queue), waited' = waited,
           Unrotated \in Int, Unrotated' = Unrotated - 1
    PROVE  QueueInv'
<1> DEFINE U == Unrotated
<1>1. queue \in Seq(Jobs)
  BY DEF TypeInv, TypeOK
<1>2. /\ Len(queue) \in Nat \ {0} /\ DOMAIN queue = 1..Len(queue)
      /\ queue' \in Seq(Jobs) /\ Len(queue') = Len(queue) - 1
      /\ \A i \in 1..Len(queue') : queue'[i] = queue[i + 1]
  BY <1>1, HeadTailProperties, EmptySeq, LenProperties
<1>3. DOMAIN queue' = 1..(Len(queue) - 1)
  BY <1>2, LenProperties
<1>4. SUFFICES ASSUME NEW i \in DOMAIN queue', NEW k \in DOMAIN queue', i < k
               PROVE  IF i <= U - 1 /\ U - 1 < k
                      THEN waited[queue'[k]] >= waited[queue'[i]]
                      ELSE waited[queue'[i]] >= waited[queue'[k]]
  BY DEF QueueInv
<1> DEFINE a == i + 1
           b == k + 1
<1>5. /\ a \in DOMAIN queue /\ b \in DOMAIN queue /\ a < b
      /\ (i <= U - 1 /\ U - 1 < k) <=> (a <= U /\ U < b)
  BY <1>2, <1>3, <1>4
<1>6. queue'[i] = queue[a] /\ queue'[k] = queue[b]
  BY <1>2, <1>3
<1> HIDE DEF a, b
<1>7. IF a <= U /\ U < b THEN waited[queue[b]] >= waited[queue[a]]
                         ELSE waited[queue[a]] >= waited[queue[b]]
  BY <1>5 DEF QueueInv
<1>8. QED
  BY <1>5, <1>6, <1>7

\* A survivor goes to the back: it is older than all that is left in front,
\* and no older than the survivors that went before it.
LEMMA OrderHeadRotates ==
    ASSUME TypeInv, QueueInv, queue # <<>>, queue' = Append(Tail(queue), Head(queue)),
           waited' = waited, Unrotated \in 1..Len(queue), Unrotated' = Unrotated - 1
    PROVE  QueueInv'
<1> DEFINE U == Unrotated
           len == Len(queue)
<1>1. queue \in Seq(Jobs)
  BY DEF TypeInv, TypeOK
<1>2. /\ len \in Nat \ {0} /\ DOMAIN queue = 1..len
      /\ Tail(queue) \in Seq(Jobs) /\ Len(Tail(queue)) = len - 1
      /\ \A i \in 1..Len(Tail(queue)) : Tail(queue)[i] = queue[i + 1]
      /\ Head(queue) = queue[1] /\ Head(queue) \in Jobs
  BY <1>1, HeadTailProperties, EmptySeq, LenProperties
<1>3. /\ queue' \in Seq(Jobs) /\ Len(queue') = Len(Tail(queue)) + 1
      /\ \A i \in 1..Len(Tail(queue)) : queue'[i] = Tail(queue)[i]
      /\ queue'[Len(Tail(queue)) + 1] = Head(queue)
  BY <1>2, AppendProperties
<1>4. DOMAIN queue' = 1..Len(queue')
  BY <1>3, LenProperties
<1> HIDE DEF len
<1>5. DOMAIN queue' = 1..len
  <2>1. Len(queue') = len
    BY <1>2, <1>3
  <2>2. QED
    BY <1>4, <2>1
<1>6. \A i \in 1..(len - 1) : queue'[i] = queue[i + 1]
  BY <1>2, <1>3
<1>7. queue'[len] = queue[1]
  <2>1. Len(Tail(queue)) + 1 = len
    BY <1>2
  <2>2. QED
    BY <1>2, <1>3, <2>1
<1>8. U \in 1..len
  BY DEF len
<1>9. \A i, k \in 1..len :
         i < k => IF i <= U /\ U < k THEN waited[queue[k]] >= waited[queue[i]]
                                     ELSE waited[queue[i]] >= waited[queue[k]]
  BY <1>2 DEF QueueInv
<1>10. SUFFICES ASSUME NEW i \in 1..len, NEW k \in 1..len, i < k
                PROVE  IF i <= U - 1 /\ U - 1 < k
                       THEN waited[queue'[k]] >= waited[queue'[i]]
                       ELSE waited[queue'[i]] >= waited[queue'[k]]
  BY <1>5 DEF QueueInv
<1> DEFINE a == i + 1
           b == k + 1
<1>11. /\ i \in 1..(len - 1) /\ a \in 1..len /\ 1 < a /\ 1 \in 1..len
       /\ i <= U - 1 <=> a <= U
  BY <1>2, <1>8, <1>10
<1>12. queue'[i] = queue[a]
  BY <1>6, <1>11
<1> HIDE DEF U
<1>13. CASE k = len
  <2>1. queue'[k] = queue[1]
    BY <1>7, <1>13
  <2>2. U - 1 < k /\ 1 <= U
    BY <1>2, <1>8, <1>13
  <2> HIDE DEF a
  <2>3. IF U < a THEN waited[queue[a]] >= waited[queue[1]]
                 ELSE waited[queue[1]] >= waited[queue[a]]
    BY <1>9, <1>11, <2>2
  <2>4. (U < a) <=> ~(a <= U)
    BY <1>8, <1>11
  <2>5. QED
    BY <1>11, <1>12, <2>1, <2>2, <2>3, <2>4
<1>14. CASE k # len
  <2>1. /\ k \in 1..(len - 1) /\ b \in 1..len /\ a < b
        /\ (U - 1 < k) <=> (U < b)
    BY <1>2, <1>8, <1>10, <1>14
  <2>2. queue'[k] = queue[b]
    BY <1>6, <2>1
  <2> HIDE DEF a, b
  <2>3. IF a <= U /\ U < b THEN waited[queue[b]] >= waited[queue[a]]
                           ELSE waited[queue[a]] >= waited[queue[b]]
    BY <1>9, <1>11, <2>1
  <2>4. QED
    BY <1>11, <1>12, <2>1, <2>2, <2>3
<1>15. QED
  BY <1>13, <1>14

\* A new item goes behind older ones.
LEMMA OrderSubmit ==
    ASSUME SchedulerAssumption, TypeInv, PlacesInv, QueueInv, NEW j \in Jobs, Submit(j)
    PROVE  QueueInv'
<1> DEFINE len == Len(queue)
<1>1. /\ queue \in Seq(Jobs) /\ waited \in [Jobs -> 0..QueueTimeout]
      /\ queue' = Append(queue, j) /\ waited' = [waited EXCEPT ![j] = 0]
      /\ reservation[j] = "reserved" /\ sweeper # "rotating" /\ sweeper' = sweeper
  BY DEF TypeInv, TypeOK, Submit, LoopFree, controlVars
<1>2. /\ len \in Nat /\ DOMAIN queue = 1..len
      /\ queue' \in Seq(Jobs) /\ Len(queue') = len + 1
      /\ \A i \in 1..len : queue'[i] = queue[i]
      /\ queue'[len + 1] = j
  BY <1>1, AppendProperties, LenProperties
<1>3. DOMAIN queue' = 1..(len + 1)
  BY <1>2, LenProperties
<1>4. Unrotated = len /\ Unrotated' = len + 1
  BY <1>1, <1>2 DEF Unrotated
<1>5. \A i \in 1..len : queue[i] \in Jobs /\ queue[i] # j
  <2>1. \A i \in 1..len : queue[i] \in Jobs
    BY <1>1, ElementOfSeq
  <2>2. j \notin Elements(queue)
    BY <1>1 DEF PlacesInv, ReservationsMatch
  <2>3. QED
    BY <1>2, <2>1, <2>2 DEF Elements
<1> HIDE DEF len
<1>6. SUFFICES ASSUME NEW i \in 1..(len + 1), NEW k \in 1..(len + 1), i < k
               PROVE  waited'[queue'[i]] >= waited'[queue'[k]]
  <2>1. \A k \in 1..(len + 1) : ~(len + 1 < k)
    BY <1>2
  <2>2. QED
    BY <1>3, <1>4, <2>1 DEF QueueInv
<1>7. i \in 1..len
  BY <1>2, <1>6
<1>8. waited'[queue'[i]] = waited[queue[i]] /\ waited[queue[i]] \in 0..QueueTimeout
  BY <1>1, <1>2, <1>5, <1>7
<1>9. CASE k = len + 1
  <2>1. waited'[queue'[k]] = 0
    BY <1>1, <1>2, <1>9
  <2>2. QED
    BY <1>8, <2>1 DEF SchedulerAssumption
<1>10. CASE k # len + 1
  <2>1. k \in 1..len
    BY <1>2, <1>6, <1>10
  <2>2. waited'[queue'[k]] = waited[queue[k]]
    BY <1>1, <1>2, <1>5, <2>1
  <2>3. ~(len < k)
    BY <1>2, <2>1
  <2>4. waited[queue[i]] >= waited[queue[k]]
    BY <1>2, <1>4, <1>6, <1>7, <2>1, <2>3 DEF QueueInv
  <2>5. QED
    BY <1>8, <2>2, <2>4
<1>11. QED
  BY <1>9, <1>10

\* All waits grow alike.
LEMMA OrderTick ==
    ASSUME SchedulerAssumption, TypeInv, PlacesInv, QueueInv, Tick
    PROVE  QueueInv'
<1>1. /\ queue \in Seq(Jobs) /\ waited \in [Jobs -> 0..QueueTimeout] /\ queue' = queue
      /\ waited' = [j \in Jobs |-> IF reservation[j] = "queued"
                                   THEN CappedNext(waited[j], QueueTimeout)
                                   ELSE waited[j]]
      /\ Unrotated' = Unrotated
  BY DEF TypeInv, TypeOK, Tick, Unrotated, controlVars
<1>2. \A i \in DOMAIN queue : queue[i] \in Jobs /\ queue[i] \in Elements(queue)
  BY <1>1, ElementOfSeq, LenProperties DEF Elements
<1>3. \A i \in DOMAIN queue : reservation[queue[i]] = "queued"
  BY <1>2 DEF PlacesInv, ReservationsMatch
<1>4. \A i \in DOMAIN queue :
         /\ waited'[queue[i]] = CappedNext(waited[queue[i]], QueueTimeout)
         /\ waited[queue[i]] \in 0..QueueTimeout
  BY <1>1, <1>2, <1>3
<1>5. QueueTimeout \in Nat
  BY DEF SchedulerAssumption
<1>6. \A i, k \in DOMAIN queue :
         waited[queue[i]] >= waited[queue[k]] => waited'[queue[i]] >= waited'[queue[k]]
  BY <1>4, <1>5, CappedOrder
<1>7. QED
  BY <1>1, <1>6 DEF QueueInv

LEMMA OrderUnmoved ==
    ASSUME QueueInv, UNCHANGED <<queue, waited>>, Unrotated' = Unrotated
    PROVE  QueueInv'
BY DEF QueueInv

LEMMA NextOrder ==
    ASSUME SchedulerAssumption, TypeInv, PlacesInv, QueueInv, [Next]_vars
    PROVE  QueueInv'
<1>1. Len(queue) \in Nat
  BY LenProperties DEF TypeInv, TypeOK
<1>2. ASSUME LoopFree, queue # <<>>, queue' = Tail(queue),
             UNCHANGED <<waited, sweeper>>
      PROVE  QueueInv'
  <2>1. Len(queue') = Len(queue) - 1
    BY <1>2, HeadOfQueue DEF TypeInv
  <2>2. Unrotated \in Int /\ Unrotated' = Unrotated - 1
    BY <1>1, <1>2, <2>1 DEF Unrotated, LoopFree
  <2>3. QED
    BY <1>2, <2>2, OrderHeadLeaves
<1>3. CASE \E j \in Jobs : CallerStep(j)
  <2>1. PICK j \in Jobs : CallerStep(j)
    BY <1>3
  <2>2. CASE ~Submit(j)
    <3>1. UNCHANGED <<queue, waited, sweeper, toRotate>>
      BY <2>1, <2>2 DEF CallerStep, Reserve, ReserveRefused, PreparationFails,
                        CancelRequest, AbandonedEnds, SubmitRefused, queueVars, controlVars
    <3>2. QED
      BY <3>1, OrderUnmoved DEF Unrotated
  <2>3. QED
    BY <2>2, OrderSubmit
<1>4. CASE \E w \in Workers : WorkerStep(w)
  <2>1. PICK w \in Workers : WorkerStep(w)
    BY <1>4
  <2>2. CASE DequeueExpired(w) \/ DequeueStart(w)
    BY <1>2, <2>2 DEF DequeueExpired, DequeueStart, CanDequeue, controlVars
  <2>3. CASE Settle(w) \/ CancelIdle(w)
    <3>1. UNCHANGED <<queue, waited, sweeper, toRotate>>
      BY <2>3 DEF Settle, CancelIdle, queueVars, controlVars
    <3>2. QED
      BY <3>1, OrderUnmoved DEF Unrotated
  <2>4. CASE Return(w) \/ Raise(w) \/ CancelRun(w) \/ AbsorbCancel(w)
    <3>1. UNCHANGED <<queue, waited, sweeper, toRotate>>
      BY <2>4 DEF Return, Raise, CancelRun, AbsorbCancel, EndRun, controlVars
    <3>2. QED
      BY <3>1, OrderUnmoved DEF Unrotated
  <2>5. QED
    BY <2>1, <2>2, <2>3, <2>4 DEF WorkerStep
<1>5. CASE SweepBegin
  <2>1. UNCHANGED <<queue, waited>> /\ Unrotated' = Unrotated
    BY <1>5 DEF SweepBegin, Rotation, Unrotated, queueVars
  <2>2. QED
    BY <2>1, OrderUnmoved
<1>6. ASSUME sweeper = "rotating", sweeper' = "rotating",
             toRotate > 0, toRotate' = toRotate - 1
      PROVE  /\ queue # <<>> /\ Unrotated \in Int /\ Unrotated \in 1..Len(queue)
             /\ Unrotated' = Unrotated - 1
  <2>1. toRotate \in 0..Len(queue)
    BY <1>6 DEF TypeInv
  <2>2. Len(queue) # 0
    BY <1>1, <1>6, <2>1
  <2>3. queue # <<>>
    BY <2>2, EmptySeq
  <2>4. QED
    BY <1>1, <1>6, <2>1, <2>3 DEF Unrotated
<1>7. CASE RotateExpired
  BY <1>6, <1>7, OrderHeadLeaves DEF RotateExpired
<1>8. CASE RotateSurvivor
  BY <1>6, <1>8, OrderHeadRotates DEF RotateSurvivor
<1>9. CASE SweepEnd
  <2>1. /\ UNCHANGED <<queue, waited>>
        /\ Unrotated = 0 /\ Unrotated' = Len(queue)
    BY <1>9 DEF SweepEnd, Unrotated, queueVars
  <2>2. DOMAIN queue = 1..Len(queue)
    BY LenProperties DEF TypeInv, TypeOK
  <2>3. \A i, k \in 1..Len(queue) : ~(i <= 0) /\ ~(Len(queue) < k)
    BY <1>1
  <2>4. QED
    BY <2>1, <2>2, <2>3 DEF QueueInv
<1>10. CASE FlushOne
  <2>1. /\ queue # <<>> /\ queue' = Tail(queue)
        /\ UNCHANGED <<waited, sweeper>> /\ phase = "flushing"
    BY <1>10 DEF FlushOne, controlVars
  <2>2. Len(queue') = Len(queue) - 1
    BY <2>1, HeadOfQueue DEF TypeInv
  <2>3. Unrotated \in Int /\ Unrotated' = Unrotated - 1
    BY <1>1, <2>1, <2>2 DEF Unrotated, TypeInv
  <2>4. QED
    BY <2>1, <2>3, OrderHeadLeaves
<1>11. CASE Start \/ Close
  <2>1. UNCHANGED <<queue, waited>>
    BY <1>11 DEF Start, Close, queueVars
  <2>2. sweeper # "rotating" /\ sweeper' # "rotating"
    BY <1>11 DEF Start, Close, LoopFree, TypeInv
  <2>3. QED
    BY <2>1, <2>2, OrderUnmoved DEF Unrotated
<1>12. CASE BeginShutdown \/ ConsumersGone \/ FlushEnd \/ ClearHistory \/ UNCHANGED vars
  <2>1. UNCHANGED <<queue, waited, sweeper, toRotate>>
    BY <1>12 DEF BeginShutdown, ConsumersGone, FlushEnd, ClearHistory, vars, queueVars,
                 controlVars
  <2>2. QED
    BY <2>1, OrderUnmoved DEF Unrotated
<1>13. QED
  BY <1>3, <1>4, <1>5, <1>7, <1>8, <1>9, <1>10, <1>11, <1>12, OrderTick
     DEF Next, SweeperStep, LifetimeStep

----------------------------------------------------------------------------
(* The theorems.                                                           *)

LEMMA InitScheduler == SchedulerAssumption /\ Init => SchedulerInv
<1> SUFFICES ASSUME SchedulerAssumption, Init PROVE SchedulerInv
  OBVIOUS
<1>1. TypeInv /\ PlacesInv
  BY InitTypeInv, InitPlaces
<1>2. Busy = {} /\ Owned = {}
  BY DEF Init, Busy, Owned
<1>3. /\ queue = <<>> /\ history = <<>> /\ Len(queue) = 0 /\ Len(history) = 0
      /\ DOMAIN queue = {} /\ DOMAIN history = {}
  BY DEF Init
<1>4. Elements(queue) = {} /\ Elements(history) = {}
  BY <1>3 DEF Elements
<1>5. LifetimeInv
  BY DEF Init, LifetimeInv
<1>6. StatusInv
  BY <1>2, <1>4 DEF Init, StatusInv
<1>7. SlotsInv
  <2>1. Cardinality(Busy) = 0
    BY <1>2, FS_EmptySet
  <2>2. QED
    BY <1>2, <1>3, <2>1 DEF Init, SlotsInv
<1>8. RecordsOwned
  BY <1>2, <1>4 DEF Init, RecordsOwned
<1>9. HistoryInv
  <2>1. Distinct(history) /\ Aged(history, recordAge)
    BY <1>3 DEF Distinct, Aged
  <2>2. QED
    BY <1>3, <1>4, <2>1 DEF HistoryInv, SchedulerAssumption
<1>10. QueueInv
  BY <1>3 DEF QueueInv
<1>11. QED
  BY <1>1, <1>5, <1>6, <1>7, <1>8, <1>9, <1>10 DEF SchedulerInv, RecordsInv

LEMMA NextScheduler == SchedulerAssumption /\ SchedulerInv /\ [Next]_vars => SchedulerInv'
<1> SUFFICES ASSUME SchedulerAssumption, SchedulerInv, [Next]_vars PROVE SchedulerInv'
  OBVIOUS
<1>1. TypeInv /\ PlacesInv /\ LifetimeInv /\ RecordsInv /\ QueueInv
  BY DEF SchedulerInv
<1>2. TypeInv' /\ PlacesInv'
  BY <1>1, NextTyped, NextPlaces
<1>3. LifetimeInv' /\ RecordsInv' /\ QueueInv'
  BY <1>1, NextLifetime, NextRecords, NextOrder
<1>4. QED
  BY <1>2, <1>3 DEF SchedulerInv

LEMMA SchedulerInvariant == Spec => []SchedulerInv
<1>1. Init => SchedulerInv
  BY InitScheduler, SchedulerAssumption
<1>2. SchedulerInv /\ [Next]_vars => SchedulerInv'
  BY NextScheduler, SchedulerAssumption
<1>3. QED
  BY <1>1, <1>2, PTL DEF Spec

\* Slots, stores, history and order agree at every moment: whatever mix of
\* expiry, cancellation, retention and shutdown a job meets, its record is kept
\* exactly while it is queued, running or retained, and close() leaves nothing.
THEOREM RecordsStayConsistent == Spec => []RecordsConsistent
<1>1. ASSUME SchedulerInv PROVE RecordsConsistent
  <2>1. TypeInv /\ PlacesInv /\ LifetimeInv /\ QueueInv
    BY <1>1 DEF SchedulerInv
  <2>2. StatusInv /\ SlotsInv /\ RecordsOwned /\ HistoryInv
    BY <1>1 DEF SchedulerInv, RecordsInv
  <2>3. SlotsMatch
    <3>1. \A w \in Busy : workerJob[w] \in Jobs \ Elements(queue)
      BY <1>1, OwnedRecord DEF SchedulerInv
    <3>2. QED
      BY <2>2, <3>1 DEF SlotsInv, SlotsMatch
  <2>4. AgesInOrder
    <3>1. \A i \in DOMAIN history : status[history[i]] \in Terminal
      BY <2>2 DEF HistoryInv, Elements
    <3>2. \A i, k \in DOMAIN history :
             i < k => /\ history[i] # history[k]
                      /\ recordAge[history[i]] >= recordAge[history[k]]
      <4>1. SUFFICES ASSUME NEW i \in DOMAIN history, NEW k \in DOMAIN history, i < k
                     PROVE  /\ history[i] # history[k]
                            /\ recordAge[history[i]] >= recordAge[history[k]]
        OBVIOUS
      <4>2. i # k
        BY <2>1, <4>1, LenProperties DEF TypeInv, TypeOK
      <4>3. QED
        BY <2>2, <4>1, <4>2 DEF HistoryInv, Distinct, Aged
    <3>3. ASSUME LoopFree, NEW i \in DOMAIN queue, NEW k \in DOMAIN queue, i < k
          PROVE  waited[queue[i]] >= waited[queue[k]]
      <4>1. k \in 1..Len(queue) /\ Len(queue) \in Nat
        BY <2>1, <3>3, LenProperties DEF TypeInv, TypeOK
      <4>2. Unrotated = Len(queue) /\ ~(Len(queue) < k)
        BY <3>3, <4>1 DEF LoopFree, Unrotated
      <4>3. QED
        BY <2>1, <3>3, <4>2 DEF QueueInv
    <3>4. QED
      BY <2>2, <3>1, <3>2, <3>3 DEF AgesInOrder, HistoryInv
  <2>5. ASSUME phase \in {"closed", "cleared"}
        PROVE  /\ queue = <<>> /\ unfinished = 0 /\ running = 0
               /\ \A j \in Jobs : reservation[j] # "queued"
               /\ \A j \in Jobs : caller[j] = "accepted" => status[j] \in Terminal
    <3>1. queue = <<>> /\ \A w \in Workers : worker[w] # "running"
      BY <2>1, <2>5 DEF LifetimeInv
    <3>2. Busy = {} /\ Owned = {}
      BY <3>1 DEF Busy, Owned
    <3>3. Len(queue) = 0 /\ DOMAIN queue = {}
      BY <3>1
    <3>4. Elements(queue) = {}
      BY <3>3 DEF Elements
    <3>5. running = 0
      BY <2>2, <3>2, FS_EmptySet DEF SlotsInv
    <3>6. unfinished = 0
      BY <2>2, <3>3, <3>5 DEF SlotsInv
    <3>7. \A j \in Jobs : reservation[j] # "queued"
      BY <2>1, <3>4 DEF PlacesInv, ReservationsMatch
    <3>8. \A j \in Jobs : caller[j] = "accepted" => status[j] \in Terminal
      <4>1. status \in [Jobs -> {"none", "queued", "running"} \cup Terminal]
        BY <2>1 DEF TypeInv, TypeOK
      <4>2. QED
        BY <2>2, <3>2, <3>4, <4>1 DEF StatusInv
    <3>9. QED
      BY <3>1, <3>5, <3>6, <3>7, <3>8
  <2>6. ASSUME phase = "cleared" PROVE store = {} /\ contexts = {}
    <3>1. queue = <<>> /\ history = <<>> /\ \A w \in Workers : worker[w] # "running"
      BY <2>1, <2>6 DEF LifetimeInv
    <3>2. Elements(queue) = {} /\ Elements(history) = {}
      BY <3>1 DEF Elements
    <3>3. {workerJob[w] : w \in Busy} = {}
      BY <3>1 DEF Busy
    <3>4. QED
      BY <2>2, <3>2, <3>3 DEF RecordsOwned
  <2>7. ClosedIsEmpty
    BY <2>5, <2>6 DEF ClosedIsEmpty
  <2>8. QED
    BY <2>2, <2>3, <2>4, <2>7 DEF RecordsConsistent
<1>2. QED
  BY <1>1, SchedulerInvariant, PTL

\* join() is released only by the last task_done(): the count it waits on is
\* the number of queued and running jobs, before and after every step.
THEOREM JoinIsHonest == Spec => JoinHonest
<1>1. ASSUME SchedulerInv, SchedulerInv', [Next]_vars,
             join = "waiting", join' = "released"
      PROVE  queue' = <<>> /\ \A w \in Workers : worker'[w] # "running"
  <2>1. join' # join
    BY <1>1
  <2>2. unfinished' = 0
    <3>1. ASSUME NEW n \in Int, TaskDone(n) PROVE unfinished' = 0
      BY <1>1, <3>1 DEF TaskDone
    <3>2. unfinished \in Int /\ unfinished + 1 \in Int
      BY <1>1 DEF SchedulerInv, TypeInv, TypeOK
    <3>3. CASE \E j \in Jobs : CallerStep(j)
      BY <2>1, <3>3 DEF CallerStep, Reserve, ReserveRefused, PreparationFails,
                        CancelRequest, AbandonedEnds, Submit, SubmitRefused, queueVars
    <3>4. CASE \E w \in Workers : WorkerStep(w)
      <4>1. TaskDone(unfinished)
        BY <2>1, <3>4 DEF WorkerStep, DequeueExpired, DequeueStart, Settle, Return, Raise,
                          CancelRun, AbsorbCancel, CancelIdle, EndRun, queueVars
      <4>2. QED
        BY <3>1, <3>2, <4>1
    <3>5. CASE SweeperStep
      <4>1. TaskDone(unfinished) \/ TaskDone(unfinished + 1)
        BY <2>1, <3>5 DEF SweeperStep, SweepBegin, RotateExpired, RotateSurvivor, SweepEnd,
                          queueVars
      <4>2. QED
        BY <3>1, <3>2, <4>1
    <3>6. CASE BeginShutdown
      BY <1>1, <2>1, <3>6 DEF BeginShutdown
    <3>7. CASE FlushOne
      BY <3>1, <3>2, <3>7 DEF FlushOne
    <3>8. CASE Start \/ Close \/ ConsumersGone \/ FlushEnd \/ ClearHistory \/ Tick
      BY <2>1, <3>8 DEF Start, Close, ConsumersGone, FlushEnd, ClearHistory, Tick, queueVars
    <3>9. UNCHANGED vars => join' = join
      BY DEF vars, queueVars
    <3>10. QED
      BY <1>1, <2>1, <3>3, <3>4, <3>5, <3>6, <3>7, <3>8, <3>9 DEF Next, LifetimeStep
  <2>3. /\ running' = Cardinality(Busy') /\ unfinished' = running' + Len(queue')
        /\ queue' \in Seq(Jobs)
    BY <1>1 DEF SchedulerInv, RecordsInv, SlotsInv, TypeInv, TypeOK
  <2>4. IsFiniteSet(Busy') /\ Cardinality(Busy') \in Nat
    <3>1. Busy' \in SUBSET Workers
      BY DEF Busy
    <3>2. QED
      BY <3>1, SchedulerAssumption, FS_Subset, FS_CardinalityType DEF SchedulerAssumption
  <2>5. Len(queue') \in Nat
    BY <2>3, LenProperties
  <2>6. Cardinality(Busy') = 0 /\ Len(queue') = 0
    BY <2>2, <2>3, <2>4, <2>5
  <2>7. Busy' = {}
    BY <2>4, <2>6, FS_EmptySet
  <2>8. queue' = <<>>
    BY <2>3, <2>6, EmptySeq
  <2>9. QED
    BY <2>7, <2>8 DEF Busy
<1>2. SchedulerInv /\ SchedulerInv' /\ [Next]_vars =>
        [join = "waiting" /\ join' = "released"
             => queue' = <<>> /\ \A w \in Workers : worker'[w] # "running"]_vars
  BY <1>1
<1>3. Init => SchedulerInv
  BY InitScheduler, SchedulerAssumption
<1>4. SchedulerInv /\ [Next]_vars => SchedulerInv'
  BY NextScheduler, SchedulerAssumption
<1>5. QED
  BY <1>2, <1>3, <1>4, PTL DEF Spec, JoinHonest

\* What a step may do to statuses: only of jobs that are queued, owned or new.
LEMMA StatusMoves ==
    ASSUME SchedulerInv, [Next]_vars, NEW j \in Jobs,
           status[j] \in Terminal, j \notin Owned
    PROVE  status'[j] = status[j] /\ (j \in store' => j \in store)
<1>1. TypeInv /\ PlacesInv /\ LifetimeInv /\ RecordsInv
  BY DEF SchedulerInv
<1>2. status \in [Jobs -> {"none", "queued", "running"} \cup Terminal]
  BY <1>1 DEF TypeInv, TypeOK
<1>3. ASSUME queue # <<>> PROVE Head(queue) # j
  BY <1>1, <1>3, HeadRecord
<1>4. ASSUME NEW final, NEW records, NEW age, NEW kept, Prune(records, age, kept)
      PROVE  store' \subseteq store
  BY <1>4 DEF Prune
<1>5. ASSUME NEW h, NEW final, NEW kept, Remember(h, final, kept)
      PROVE  store' \subseteq store
  BY <1>4, <1>5 DEF Remember
<1>6. ASSUME queue # <<>>, Fail(Head(queue)), Remember(Head(queue), "failed", contexts)
      PROVE  status'[j] = status[j] /\ store' \subseteq store
  BY <1>2, <1>3, <1>5, <1>6 DEF Fail
<1>7. ASSUME NEW w \in Workers, worker[w] = "running", NEW final, EndRun(w, final)
      PROVE  status'[j] = status[j] /\ store' \subseteq store
  <2>1. workerJob[w] # j
    BY <1>7 DEF Owned, Busy
  <2>2. status' = [status EXCEPT ![workerJob[w]] = final] /\ store' \subseteq store
    BY <1>5, <1>7 DEF EndRun
  <2>3. QED
    BY <1>2, <2>1, <2>2
<1>8. CASE \E i \in Jobs : CallerStep(i)
  <2>1. PICK i \in Jobs : CallerStep(i)
    BY <1>8
  <2>2. CASE Submit(i)
    <3>1. /\ caller[i] = "preparing" /\ store' = store \cup {i}
          /\ status' = [status EXCEPT ![i] = "queued"]
      BY <2>2 DEF Submit
    <3>2. status[i] = "none"
      BY <1>1, <3>1 DEF RecordsInv, StatusInv
    <3>3. QED
      BY <1>2, <3>1, <3>2
  <2>3. CASE ~Submit(i)
    BY <2>1, <2>3 DEF CallerStep, Reserve, ReserveRefused, PreparationFails, CancelRequest,
                      AbandonedEnds, SubmitRefused, recordVars
  <2>4. QED
    BY <2>2, <2>3
<1>9. CASE \E w \in Workers : WorkerStep(w)
  <2>1. PICK w \in Workers : WorkerStep(w)
    BY <1>9
  <2>2. CASE DequeueExpired(w)
    BY <1>6, <2>2 DEF DequeueExpired, CanDequeue, Expire
  <2>3. CASE DequeueStart(w)
    BY <1>2, <1>3, <2>3 DEF DequeueStart, CanDequeue
  <2>4. CASE Settle(w)
    <3>1. workerJob[w] # j
      BY <2>4 DEF Settle, Owned, Busy
    <3>2. PICK final \in Terminal : status' = [status EXCEPT ![workerJob[w]] = final]
      BY <2>4 DEF Settle
    <3>3. store' = store
      BY <2>4 DEF Settle
    <3>4. QED
      BY <1>2, <3>1, <3>2, <3>3
  <2>5. CASE Return(w) \/ Raise(w) \/ CancelRun(w) \/ AbsorbCancel(w)
    BY <1>7, <2>5 DEF Return, Raise, CancelRun, AbsorbCancel
  <2>6. CASE CancelIdle(w)
    BY <2>6 DEF CancelIdle, recordVars
  <2>7. QED
    BY <2>1, <2>2, <2>3, <2>4, <2>5, <2>6 DEF WorkerStep
<1>10. CASE SweeperStep
  <2>1. CASE RotateExpired
    <3>1. queue # <<>>
      BY <1>1, <2>1, EmptySeq DEF RotateExpired, TypeInv
    <3>2. QED
      BY <1>6, <2>1, <3>1 DEF RotateExpired, Expire
  <2>2. CASE SweepEnd
    BY <1>4, <2>2 DEF SweepEnd
  <2>3. CASE SweepBegin \/ RotateSurvivor
    BY <2>3 DEF SweepBegin, RotateSurvivor, recordVars
  <2>4. QED
    BY <1>10, <2>1, <2>2, <2>3 DEF SweeperStep
<1>11. CASE FlushOne
  BY <1>6, <1>11 DEF FlushOne
<1>12. CASE ClearHistory
  BY <1>12 DEF ClearHistory
<1>13. CASE \/ Start \/ BeginShutdown \/ Close \/ ConsumersGone \/ FlushEnd \/ Tick
            \/ UNCHANGED vars
  BY <1>13 DEF Start, BeginShutdown, Close, ConsumersGone, FlushEnd, Tick, vars, recordVars
<1>14. QED
  BY <1>8, <1>9, <1>10, <1>11, <1>12, <1>13 DEF Next, LifetimeStep

\* An outcome is final: after the run has let go of it a record neither changes
\* its status nor comes back to the stores.
THEOREM FinishedStaysFinal == Spec => FinishedIsFinal
<1>1. SchedulerInv /\ [Next]_vars =>
        [\A j \in Jobs :
            status[j] \in Terminal /\ (\A w \in Busy : workerJob[w] # j)
                => /\ status'[j] = status[j]
                   /\ j \in store' => j \in store]_vars
  <2>1. ASSUME NEW j, \A w \in Busy : workerJob[w] # j PROVE j \notin Owned
    BY <2>1 DEF Owned
  <2>2. QED
    BY <2>1, StatusMoves
<1>2. Init => SchedulerInv
  BY InitScheduler, SchedulerAssumption
<1>3. SchedulerInv /\ [Next]_vars => SchedulerInv'
  BY NextScheduler, SchedulerAssumption
<1>4. QED
  BY <1>1, <1>2, <1>3, PTL DEF Spec, FinishedIsFinal

----------------------------------------------------------------------------
(* Scheduler, callers and history implement AnalysisService.               *)

EndedJobs == {j \in Jobs : status[j] \in Terminal /\ \A w \in Busy : workerJob[w] # j}
RefusedJobs == {j \in Jobs : caller[j] = "refused"}

\* A step that changes nothing a caller can see is a stutter of the service.
LEMMA SameView ==
    ASSUME UNCHANGED <<accepting, store>>, Pending' = Pending, Owned' = Owned,
           EndedJobs' = EndedJobs, RefusedJobs' = RefusedJobs
    PROVE  UNCHANGED Service!svcVars
BY DEF Service!svcVars, Owned, EndedJobs, RefusedJobs

\* AnalysisService's instance of FiniteSets counts like ours.
LEMMA SameCount == \A S : Service!Cardinality(S) = Cardinality(S)
BY DEF Service!Cardinality, Cardinality, Service!IsFiniteSet, IsFiniteSet

\* The request of an idle or preparing handler is unknown to everyone else.
LEMMA UnknownRequest ==
    ASSUME SchedulerInv, NEW j \in Jobs, caller[j] # "accepted"
    PROVE  /\ status[j] = "none" /\ j \notin store /\ j \notin Owned
           /\ reservation[j] # "queued"
<1>1. status[j] = "none" /\ j \notin store
  BY DEF SchedulerInv, RecordsInv, StatusInv
<1>2. QED
  BY <1>1 DEF SchedulerInv, RecordsInv, StatusInv, PlacesInv

LEMMA CallerImplements ==
    ASSUME SchedulerAssumption, SchedulerInv, NEW j \in Jobs, CallerStep(j)
    PROVE  Service!Next \/ UNCHANGED Service!svcVars
<1>0. /\ reservation \in [Jobs -> {"none", "reserved", "queued"}]
      /\ caller \in [Jobs -> {"idle", "preparing", "abandoned", "accepted", "refused"}]
      /\ status \in [Jobs -> {"none", "queued", "running"} \cup Terminal]
      /\ \A i \in Jobs : (reservation[i] = "reserved")
                             <=> (caller[i] \in {"preparing", "abandoned"})
      /\ IsFiniteSet(Pending) /\ Cardinality(Pending) \in Nat
  BY FS_CardinalityType
     DEF SchedulerInv, TypeInv, TypeOK, PlacesInv, ReservationsMatch
<1>1. caller[j] # "accepted"
  BY DEF CallerStep, Reserve, ReserveRefused, PreparationFails, CancelRequest, AbandonedEnds,
         Submit, SubmitRefused
<1>2. /\ status[j] = "none" /\ j \notin store /\ j \notin Owned
      /\ reservation[j] # "queued"
  BY <1>1, UnknownRequest
<1>3. Busy' = Busy /\ Owned' = Owned
  BY DEF CallerStep, Reserve, ReserveRefused, PreparationFails, CancelRequest, AbandonedEnds,
         Submit, SubmitRefused, workerVars, Busy, Owned
<1>4. EndedJobs' = EndedJobs
  <2>1. status' = status \/ status' = [status EXCEPT ![j] = "queued"]
    BY DEF CallerStep, Reserve, ReserveRefused, PreparationFails, CancelRequest,
           AbandonedEnds, Submit, SubmitRefused, recordVars
  <2>2. \A i \in Jobs : status'[i] \in Terminal <=> status[i] \in Terminal
    BY <1>0, <1>2, <2>1
  <2>3. QED
    BY <1>3, <2>2 DEF EndedJobs, Owned
<1>5. accepting' = accepting
  BY DEF CallerStep, Reserve, ReserveRefused, PreparationFails, CancelRequest, AbandonedEnds,
         Submit, SubmitRefused, controlVars
<1>6. CASE Reserve(j)
  <2>1. /\ caller[j] = "idle" /\ accepting /\ Cardinality(Pending) < PendingLimit
        /\ reservation' = [reservation EXCEPT ![j] = "reserved"]
        /\ caller' = [caller EXCEPT ![j] = "preparing"]
        /\ store' = store
    BY <1>6 DEF Reserve, HasPlace, recordVars
  <2>2. Pending' = Pending \cup {j} /\ RefusedJobs' = RefusedJobs
    BY <1>0, <2>1 DEF Pending, RefusedJobs
  <2>3. j \notin Pending \cup Owned \cup EndedJobs \cup RefusedJobs
    BY <1>0, <1>2, <2>1 DEF Pending, RefusedJobs, EndedJobs
  <2>4. Service!Admit(j)
    BY <1>3, <1>4, <1>5, <2>1, <2>2, <2>3, SameCount
       DEF Service!Admit, Service!Fresh, Owned, EndedJobs, RefusedJobs
  <2>5. QED
    BY <2>4 DEF Service!Next, Service!RequestStep
<1>7. CASE ReserveRefused(j)
  <2>1. /\ caller[j] = "idle"
        /\ ~accepting \/ ~(Cardinality(Pending) < PendingLimit)
        /\ caller' = [caller EXCEPT ![j] = "refused"]
        /\ reservation' = reservation /\ store' = store
    BY <1>7 DEF ReserveRefused, HasPlace, recordVars
  <2>2. Pending' = Pending /\ RefusedJobs' = RefusedJobs \cup {j}
    BY <1>0, <2>1 DEF Pending, RefusedJobs
  <2>3. j \notin Pending \cup Owned \cup EndedJobs \cup RefusedJobs
    BY <1>0, <1>2, <2>1 DEF Pending, RefusedJobs, EndedJobs
  <2>4. ~accepting \/ Cardinality(Pending) >= PendingLimit
    BY <1>0, <2>1 DEF SchedulerAssumption
  <2>5. Service!TurnAway(j)
    BY <1>3, <1>4, <1>5, <2>1, <2>2, <2>3, <2>4, SameCount
       DEF Service!TurnAway, Service!Fresh, Owned, EndedJobs, RefusedJobs
  <2>6. QED
    BY <2>5 DEF Service!Next, Service!RequestStep
<1>8. CASE PreparationFails(j) \/ AbandonedEnds(j) \/ SubmitRefused(j)
  <2>1. /\ caller[j] \in {"preparing", "abandoned"}
        /\ Release(j)
        /\ caller' = [caller EXCEPT ![j] = "refused"]
        /\ store' = store \/ store' = store \ {j}
    BY <1>8 DEF PreparationFails, AbandonedEnds, SubmitRefused, recordVars
  <2>2. store' = store
    BY <1>2, <2>1
  <2>3. reservation[j] = "reserved" /\ reservation' = [reservation EXCEPT ![j] = "none"]
    BY <1>0, <2>1 DEF Release
  <2>4. /\ Pending' = Pending \ {j} /\ j \in Pending
        /\ RefusedJobs' = RefusedJobs \cup {j}
    BY <1>0, <2>1, <2>3 DEF Pending, RefusedJobs
  <2>5. Service!Withdraw(j)
    BY <1>2, <1>3, <1>4, <1>5, <2>2, <2>4
       DEF Service!Withdraw, Owned, EndedJobs, RefusedJobs
  <2>6. QED
    BY <2>5 DEF Service!Next, Service!RequestStep
<1>9. CASE CancelRequest(j)
  <2>1. /\ caller[j] = "preparing" /\ caller' = [caller EXCEPT ![j] = "abandoned"]
        /\ reservation' = reservation /\ store' = store
    BY <1>9 DEF CancelRequest, recordVars
  <2>2. Pending' = Pending /\ RefusedJobs' = RefusedJobs
    BY <1>0, <2>1 DEF Pending, RefusedJobs
  <2>3. QED
    BY <1>3, <1>4, <1>5, <2>1, <2>2, SameView
<1>10. CASE Submit(j)
  <2>1. /\ caller[j] = "preparing" /\ reservation[j] = "reserved" /\ accepting
        /\ reservation' = [reservation EXCEPT ![j] = "queued"]
        /\ caller' = [caller EXCEPT ![j] = "accepted"]
        /\ store' = store \cup {j}
    BY <1>10 DEF Submit, CanSubmit, Enqueued
  <2>2. Pending' = Pending /\ j \in Pending /\ RefusedJobs' = RefusedJobs
    BY <1>0, <2>1 DEF Pending, RefusedJobs
  <2>3. Service!Accept(j)
    BY <1>2, <1>3, <1>4, <1>5, <2>1, <2>2
       DEF Service!Accept, Owned, EndedJobs, RefusedJobs
  <2>4. QED
    BY <2>3 DEF Service!Next, Service!RequestStep
<1>11. QED
  BY <1>6, <1>7, <1>8, <1>9, <1>10 DEF CallerStep

\* A queued job that lapses has ended for its caller; what prune() drops with
\* it had ended before.
LEMMA LapseImplements ==
    ASSUME SchedulerAssumption, SchedulerInv,
           queue # <<>>, queue' = Tail(queue), ReleaseQueued(Head(queue)),
           Fail(Head(queue)), Remember(Head(queue), "failed", contexts),
           UNCHANGED <<caller, workerVars, accepting>>
    PROVE  Service!Next
<1> DEFINE h == Head(queue)
<1>1. TypeInv /\ PlacesInv /\ RecordsInv
  BY DEF SchedulerInv
<1>2. /\ h \in Elements(queue) \cap Jobs \cap store
      /\ status[h] = "queued" /\ h \notin Owned /\ h \notin Elements(history)
  BY <1>1, HeadRecord
<1>3. TypeOK /\ HistoryInv
  BY <1>1 DEF TypeInv, RecordsInv
<1>4. /\ store' = store \ ((Elements(history) \cup {h}) \ Elements(history'))
      /\ Elements(history') \subseteq Elements(history) \cup {h}
  BY <1>2, <1>3, Remembered
<1>5. /\ status' = [status EXCEPT ![h] = "failed"]
      /\ reservation' = [reservation EXCEPT ![h] = "none"]
  BY DEF Fail, ReleaseQueued
<1>6. /\ status \in [Jobs -> {"none", "queued", "running"} \cup Terminal]
      /\ reservation \in [Jobs -> {"none", "reserved", "queued"}]
      /\ store \subseteq Jobs
  BY <1>3 DEF TypeOK
<1>7. reservation[h] = "queued"
  BY <1>1, <1>2 DEF PlacesInv, ReservationsMatch
<1> HIDE DEF h
<1>8. Pending' = Pending \ {h} /\ h \in Pending
  BY <1>2, <1>5, <1>6, <1>7 DEF Pending
<1>9. Busy' = Busy /\ Owned' = Owned
  BY DEF workerVars, Busy, Owned
<1>10. RefusedJobs' = RefusedJobs
  BY DEF RefusedJobs
<1>11. EndedJobs = {j \in Jobs : status[j] \in Terminal /\ j \notin Owned}
  BY DEF EndedJobs, Owned
<1>12. EndedJobs' = {j \in Jobs : status'[j] \in Terminal /\ j \notin Owned'}
  BY DEF EndedJobs, Owned
<1>13. EndedJobs' = EndedJobs \cup {h}
  BY <1>2, <1>5, <1>6, <1>9, <1>11, <1>12
<1>14. store' \subseteq store /\ store \ store' \subseteq EndedJobs'
  <2>1. \A j \in Elements(history) : j \in store /\ status[j] \in Terminal /\ j \notin Owned
    BY <1>1, <1>3 DEF RecordsInv, RecordsOwned, HistoryInv
  <2>2. Elements(history) \subseteq EndedJobs
    BY <1>6, <1>11, <2>1
  <2>3. QED
    BY <1>4, <1>13, <2>2
<1>15. Owned' = Owned \ {h}
  BY <1>2, <1>9
<1>16. PICK r \in Jobs : r = h
  BY <1>2
<1>17. Service!End(r)
  BY <1>2, <1>8, <1>10, <1>13, <1>14, <1>15, <1>16
     DEF Service!End, Service!Forgetting, Owned, EndedJobs, RefusedJobs
<1>18. QED
  BY <1>17 DEF Service!Next, Service!RequestStep

\* The end of a run ends its analysis.
LEMMA RunEndImplements ==
    ASSUME SchedulerAssumption, SchedulerInv, NEW w \in Workers, worker[w] = "running",
           NEW final \in Terminal, EndRun(w, final),
           NEW next \in {"waiting", "gone"}, worker' = [worker EXCEPT ![w] = next]
    PROVE  Service!Next
<1> DEFINE h == workerJob[w]
<1>1. TypeInv /\ PlacesInv /\ RecordsInv /\ w \in Busy
  BY DEF SchedulerInv, Busy
<1>2. /\ h \in Owned \cap Jobs \cap store /\ h \notin Elements(queue)
      /\ caller[h] = "accepted" /\ h \notin Elements(history)
  BY <1>1, OwnedRecord
<1>3. TypeOK /\ HistoryInv
  BY <1>1 DEF TypeInv, RecordsInv
<1>4. PICK kept \in ContextsAfter(h) : Remember(h, final, kept)
  BY DEF EndRun
<1>5. /\ store' = store \ ((Elements(history) \cup {h}) \ Elements(history'))
      /\ Elements(history') \subseteq Elements(history) \cup {h}
  BY <1>2, <1>3, <1>4, Remembered
<1>6. /\ status' = [status EXCEPT ![h] = final]
      /\ workerJob' = [workerJob EXCEPT ![w] = NoJob]
      /\ UNCHANGED <<reservation, caller, accepting>>
  BY DEF EndRun, callerVars, controlVars
<1>7. Owned' = Owned \ {h}
  BY <1>1, <1>6, RunReleases
<1>8. /\ status \in [Jobs -> {"none", "queued", "running"} \cup Terminal]
      /\ store \subseteq Jobs
  BY <1>3 DEF TypeOK
<1> HIDE DEF h
<1>9. h \notin Pending
  <2>1. reservation[h] # "queued"
    BY <1>1, <1>2 DEF PlacesInv, ReservationsMatch
  <2>2. reservation[h] # "reserved"
    BY <1>1, <1>2 DEF PlacesInv, ReservationsMatch
  <2>3. reservation[h] \in {"none", "reserved", "queued"}
    BY <1>2, <1>3 DEF TypeOK
  <2>4. QED
    BY <2>1, <2>2, <2>3 DEF Pending
<1>10. Pending' = Pending \ {h}
  BY <1>6, <1>9 DEF Pending
<1>11. RefusedJobs' = RefusedJobs
  BY <1>6 DEF RefusedJobs
<1>12. EndedJobs = {j \in Jobs : status[j] \in Terminal /\ j \notin Owned}
  BY DEF EndedJobs, Owned
<1>13. EndedJobs' = {j \in Jobs : status'[j] \in Terminal /\ j \notin Owned'}
  BY DEF EndedJobs, Owned
<1>14. EndedJobs' = EndedJobs \cup {h}
  BY <1>2, <1>6, <1>7, <1>8, <1>12, <1>13
<1>15. store' \subseteq store /\ store \ store' \subseteq EndedJobs'
  <2>1. \A j \in Elements(history) : j \in store /\ status[j] \in Terminal /\ j \notin Owned
    BY <1>1, <1>3 DEF RecordsInv, RecordsOwned, HistoryInv
  <2>2. Elements(history) \subseteq EndedJobs
    BY <1>8, <1>12, <2>1
  <2>3. QED
    BY <1>5, <1>14, <2>2
<1>16. PICK r \in Jobs : r = h
  BY <1>2
<1>17. Service!End(r)
  BY <1>2, <1>6, <1>7, <1>10, <1>11, <1>14, <1>15, <1>16
     DEF Service!End, Service!Forgetting, Owned, EndedJobs, RefusedJobs
<1>18. QED
  BY <1>17 DEF Service!Next, Service!RequestStep

\* A consumer that starts a job gives it the slot that it is itself.
LEMMA StartImplements ==
    ASSUME SchedulerAssumption, SchedulerInv, NEW w \in Workers, DequeueStart(w)
    PROVE  Service!Next
<1> DEFINE h == Head(queue)
<1>1. TypeInv /\ PlacesInv /\ RecordsInv
  BY DEF SchedulerInv
<1>2. /\ worker[w] = "waiting" /\ queue # <<>>
      /\ reservation' = [reservation EXCEPT ![h] = "none"]
      /\ worker' = [worker EXCEPT ![w] = "running"]
      /\ workerJob' = [workerJob EXCEPT ![w] = h]
      /\ status' = [status EXCEPT ![h] = "running"]
      /\ UNCHANGED <<caller, store, accepting>>
  BY DEF DequeueStart, CanDequeue, ReleaseQueued, controlVars
<1>3. /\ h \in Elements(queue) \cap Jobs \cap store
      /\ status[h] = "queued" /\ h \notin Owned
  BY <1>1, <1>2, HeadRecord
<1>4. /\ status \in [Jobs -> {"none", "queued", "running"} \cup Terminal]
      /\ reservation \in [Jobs -> {"none", "reserved", "queued"}]
  BY <1>1 DEF TypeInv, TypeOK
<1>5. reservation[h] = "queued"
  BY <1>1, <1>3 DEF PlacesInv, ReservationsMatch
<1> HIDE DEF h
<1>6. Pending' = Pending \ {h} /\ h \in Pending
  BY <1>2, <1>3, <1>4, <1>5 DEF Pending
<1>7. Owned' = Owned \cup {h}
  BY <1>1, <1>2, RunTakes
<1>8. EndedJobs' = EndedJobs
  <2>1. EndedJobs = {j \in Jobs : status[j] \in Terminal /\ j \notin Owned}
    BY DEF EndedJobs, Owned
  <2>2. EndedJobs' = {j \in Jobs : status'[j] \in Terminal /\ j \notin Owned'}
    BY DEF EndedJobs, Owned
  <2>3. QED
    BY <1>2, <1>3, <1>4, <1>7, <2>1, <2>2
<1>9. RefusedJobs' = RefusedJobs
  BY <1>2 DEF RefusedJobs
<1>10. Cardinality(Owned) < Cardinality(Workers)
  <2> DEFINE f == [v \in Busy |-> workerJob[v]]
  <2>1. IsFiniteSet(Busy) /\ Cardinality(Busy) \in Nat
    BY BusyFinite
  <2>2. f \in Surjection(Busy, Owned)
    BY DEF Surjection, Owned
  <2>3. IsFiniteSet(Owned) /\ Cardinality(Owned) <= Cardinality(Busy)
    BY <2>1, <2>2, FS_Surjection
  <2>4. Busy \in SUBSET (Workers \ {w})
    BY <1>2 DEF Busy
  <2>5. /\ IsFiniteSet(Workers \ {w}) /\ Cardinality(Workers) \in Nat
        /\ Cardinality(Workers \ {w}) = Cardinality(Workers) - 1
    BY FS_RemoveElement, FS_CardinalityType DEF SchedulerAssumption
  <2>6. Cardinality(Busy) <= Cardinality(Workers \ {w})
    BY <2>4, <2>5, FS_Subset
  <2>7. Cardinality(Owned) \in Nat
    BY <2>3, FS_CardinalityType
  <2>8. QED
    BY <2>1, <2>3, <2>5, <2>6, <2>7
<1>11. PICK r \in Jobs : r = h
  BY <1>3
<1>12. Service!Begin(r)
  BY <1>2, <1>3, <1>6, <1>7, <1>8, <1>9, <1>10, <1>11, SameCount
     DEF Service!Begin, Owned, EndedJobs, RefusedJobs
<1>13. QED
  BY <1>12 DEF Service!Next, Service!RequestStep

\* Records that go without a job going had ended before.
LEMMA ForgetImplements ==
    ASSUME SchedulerInv, UNCHANGED <<accepting, reservation, caller, status>>, Busy' = Busy,
           workerJob' = workerJob, store' \subseteq store,
           store \ store' \subseteq Elements(history)
    PROVE  Service!Next \/ UNCHANGED Service!svcVars
<1>1. /\ Pending' = Pending /\ Owned' = Owned /\ EndedJobs' = EndedJobs
      /\ RefusedJobs' = RefusedJobs
  BY DEF Pending, Owned, EndedJobs, RefusedJobs
<1>2. Elements(history) \cap store \subseteq EndedJobs'
  <2>1. \A j \in Elements(history) : status[j] \in Terminal /\ j \notin Owned
    BY DEF SchedulerInv, RecordsInv, HistoryInv
  <2>2. EndedJobs = {j \in Jobs : status[j] \in Terminal /\ j \notin Owned}
    BY DEF EndedJobs, Owned
  <2>3. store \subseteq Jobs
    BY DEF SchedulerInv, TypeInv, TypeOK
  <2>4. QED
    BY <1>1, <2>1, <2>2, <2>3
<1>3. CASE store' = store
  BY <1>1, <1>3, SameView
<1>4. CASE store' # store
  <2>1. Service!Forget
    BY <1>1, <1>2, <1>4
       DEF Service!Forget, Service!Forgetting, Owned, EndedJobs, RefusedJobs
  <2>2. QED
    BY <2>1 DEF Service!Next
<1>5. QED
  BY <1>3, <1>4

LEMMA StepImplements ==
    ASSUME SchedulerAssumption, SchedulerInv, [Next]_vars
    PROVE  Service!Next \/ UNCHANGED Service!svcVars
<1>1. TypeInv /\ PlacesInv /\ LifetimeInv /\ RecordsInv
  BY DEF SchedulerInv
<1>2. ASSUME UNCHANGED <<accepting, reservation, caller, status, store, workerJob>>,
             Busy' = Busy
      PROVE  UNCHANGED Service!svcVars
  <2>1. /\ Pending' = Pending /\ Owned' = Owned /\ EndedJobs' = EndedJobs
        /\ RefusedJobs' = RefusedJobs
    BY <1>2 DEF Pending, Owned, EndedJobs, RefusedJobs
  <2>2. QED
    BY <1>2, <2>1, SameView
<1>3. CASE \E w \in Workers : WorkerStep(w)
  <2>1. PICK w \in Workers : WorkerStep(w)
    BY <1>3
  <2>2. CASE DequeueExpired(w)
    BY <2>2, LapseImplements DEF DequeueExpired, CanDequeue, Expire, controlVars
  <2>3. CASE DequeueStart(w)
    BY <2>3, StartImplements
  <2>4. CASE Settle(w)
    <3>1. PICK final \in Terminal : status' = [status EXCEPT ![workerJob[w]] = final]
      BY <2>4 DEF Settle
    <3>2. /\ UNCHANGED <<callerVars, workerVars, store, accepting>>
          /\ w \in Busy
      BY <2>4 DEF Settle, Busy, controlVars
    <3>3. Busy' = Busy /\ Owned' = Owned /\ Pending' = Pending /\ RefusedJobs' = RefusedJobs
      BY <3>2 DEF Busy, Owned, Pending, RefusedJobs, workerVars, callerVars
    <3>4. workerJob[w] \in Owned
      BY <3>2 DEF Owned
    <3>5. EndedJobs' = EndedJobs
      <4>1. EndedJobs = {j \in Jobs : status[j] \in Terminal /\ j \notin Owned}
        BY DEF EndedJobs, Owned
      <4>2. EndedJobs' = {j \in Jobs : status'[j] \in Terminal /\ j \notin Owned'}
        BY DEF EndedJobs, Owned
      <4>3. \A j \in Jobs \ Owned : status'[j] = status[j]
        BY <1>1, <3>1, <3>4 DEF TypeInv, TypeOK
      <4>4. QED
        BY <3>3, <4>1, <4>2, <4>3
    <3>6. QED
      BY <3>2, <3>3, <3>5, SameView
  <2>5. CASE Return(w) \/ AbsorbCancel(w)
    <3>1. PICK final \in Terminal : EndRun(w, final)
      BY <2>5 DEF Return, AbsorbCancel, Verdict
    <3>2. worker[w] = "running" /\ worker' = [worker EXCEPT ![w] = "waiting"]
      BY <2>5 DEF Return, AbsorbCancel
    <3>3. QED
      BY <3>1, <3>2, RunEndImplements
  <2>6. CASE Raise(w)
    BY <2>6, RunEndImplements DEF Raise
  <2>7. CASE CancelRun(w)
    BY <2>7, RunEndImplements DEF CancelRun
  <2>8. CASE CancelIdle(w)
    <3>1. Busy' = Busy
      BY <2>8 DEF CancelIdle, Busy
    <3>2. QED
      BY <1>2, <2>8, <3>1 DEF CancelIdle, callerVars, recordVars, controlVars
  <2>9. QED
    BY <2>1, <2>2, <2>3, <2>4, <2>5, <2>6, <2>7, <2>8 DEF WorkerStep
<1>4. CASE SweeperStep
  <2>1. CASE RotateExpired
    <3>1. queue # <<>>
      BY <1>1, <2>1, EmptySeq DEF RotateExpired, TypeInv
    <3>2. QED
      BY <2>1, <3>1, LapseImplements DEF RotateExpired, Expire
  <2>2. CASE SweepBegin \/ RotateSurvivor
    <3>1. UNCHANGED <<accepting, callerVars, workerVars, recordVars>>
      BY <2>2 DEF SweepBegin, RotateSurvivor
    <3>2. Busy' = Busy
      BY <3>1 DEF Busy, workerVars
    <3>3. QED
      BY <1>2, <3>1, <3>2 DEF callerVars, workerVars, recordVars
  <2>3. CASE SweepEnd
    <3>1. Prune(history, recordAge, contexts)
          /\ UNCHANGED <<accepting, callerVars, workerVars, status>>
      BY <2>3 DEF SweepEnd
    <3>2. Busy' = Busy
      BY <3>1 DEF Busy, workerVars
    <3>3. TypeOK /\ HistoryInv
      BY <1>1 DEF TypeInv, RecordsInv
    <3>4. store' = store \ (Elements(history) \ Elements(history'))
      BY <3>1, <3>3, PruneSplits DEF TypeOK, HistoryInv
    <3>5. store' \subseteq store /\ store \ store' \subseteq Elements(history)
      BY <3>4
    <3>6. QED
      BY <3>1, <3>2, <3>5, ForgetImplements DEF callerVars, workerVars
  <2>4. QED
    BY <1>4, <2>1, <2>2, <2>3 DEF SweeperStep
<1>5. CASE LifetimeStep
  <2>1. CASE FlushOne
    BY <2>1, LapseImplements DEF FlushOne, controlVars
  <2>2. CASE ClearHistory
    <3>1. /\ store' = store \ Elements(history)
          /\ UNCHANGED <<accepting, callerVars, workerVars, status>>
      BY <2>2 DEF ClearHistory
    <3>2. Busy' = Busy
      BY <3>1 DEF Busy, workerVars
    <3>3. store' \subseteq store /\ store \ store' \subseteq Elements(history)
      BY <3>1
    <3>4. QED
      BY <3>1, <3>2, <3>3, ForgetImplements DEF callerVars, workerVars
  <2>3. CASE Start \/ BeginShutdown
    <3>1. /\ UNCHANGED <<callerVars, recordVars, workerJob>>
          /\ \/ ~accepting /\ accepting' = TRUE
             \/ accepting' = FALSE
      BY <1>1, <2>3 DEF Start, BeginShutdown, workerVars, LifetimeInv
    <3>2. Busy' = Busy
      BY <1>1, <2>3 DEF Start, BeginShutdown, workerVars, Busy, LifetimeInv
    <3>3. /\ Pending' = Pending /\ Owned' = Owned /\ EndedJobs' = EndedJobs
          /\ RefusedJobs' = RefusedJobs /\ store' = store
      BY <3>1, <3>2 DEF Pending, Owned, EndedJobs, RefusedJobs, callerVars, recordVars
    <3>4. accepting \in BOOLEAN
      BY <1>1 DEF TypeInv, TypeOK
    <3>5. CASE accepting' = accepting
      BY <3>3, <3>5, SameView
    <3>6. CASE ~accepting /\ accepting' = TRUE
      <4>1. Service!OpenAdmission
        BY <3>3, <3>6 DEF Service!OpenAdmission, Owned, EndedJobs, RefusedJobs
      <4>2. QED
        BY <4>1 DEF Service!Next
    <3>7. CASE accepting /\ accepting' = FALSE
      <4>1. Service!StopAdmission
        BY <3>3, <3>7 DEF Service!StopAdmission, Owned, EndedJobs, RefusedJobs
      <4>2. QED
        BY <4>1 DEF Service!Next
    <3>8. QED
      BY <3>1, <3>4, <3>5, <3>6, <3>7
  <2>4. CASE Close \/ ConsumersGone \/ FlushEnd
    <3>1. UNCHANGED <<accepting, callerVars, worker, workerJob, recordVars>>
      BY <2>4 DEF Close, ConsumersGone, FlushEnd, workerVars
    <3>2. Busy' = Busy
      BY <3>1 DEF Busy
    <3>3. QED
      BY <1>2, <3>1, <3>2 DEF callerVars, recordVars
  <2>5. QED
    BY <1>5, <2>1, <2>2, <2>3, <2>4 DEF LifetimeStep
<1>6. CASE Tick \/ UNCHANGED vars
  <2>1. UNCHANGED <<accepting, callerVars, workerVars, status, store>>
    BY <1>6 DEF Tick, vars, controlVars, recordVars
  <2>2. Busy' = Busy
    BY <2>1 DEF Busy, workerVars
  <2>3. QED
    BY <1>2, <2>1, <2>2 DEF callerVars, workerVars
<1>7. QED
  BY <1>3, <1>4, <1>5, <1>6, CallerImplements DEF Next

LEMMA InitImplements == SchedulerAssumption /\ Init => Service!Init
<1> SUFFICES ASSUME SchedulerAssumption, Init PROVE Service!Init
  OBVIOUS
<1>1. Pending = {} /\ Busy = {} /\ store = {} /\ accepting = FALSE
  BY DEF Init, Pending, Busy
<1>2. {workerJob[w] : w \in Busy} = {} /\ EndedJobs = {} /\ RefusedJobs = {}
  BY <1>1 DEF Init, EndedJobs, RefusedJobs
<1>3. QED
  BY <1>1, <1>2 DEF Service!Init, EndedJobs, RefusedJobs

\* Reservations, queue, consumers, sweeper, history and close() together keep
\* the promise of AnalysisService: at most PendingLimit requests prepare or
\* wait, each runs at most once and on one of the consumers, and a record is
\* visible from acceptance until after its analysis has ended.
THEOREM SchedulerImplementsService == Spec => ImplementsService
<1>1. Init => Service!Init
  BY InitImplements, SchedulerAssumption
<1>2. SchedulerInv /\ [Next]_vars => [Service!Next]_(Service!svcVars)
  BY StepImplements, SchedulerAssumption
<1>3. QED
  BY <1>1, <1>2, SchedulerInvariant, PTL DEF Spec, ImplementsService, Service!Spec

----------------------------------------------------------------------------
(* The application-wide shutdown.                                          *)

\* The lemmas about the runtime stand with those about the engine's other layers,
\* which the shutdown does not see: nothing proved of those is used, and any values
\* will do for their parameters and states.
RP == INSTANCE EngineLayers_proofs
          WITH phase <- rtPhase, Calls <- Jobs \cup DirectCalls, Admitted <- Jobs,
               Invocations <- {}, MaxCancels <- 0, RpcCalls <- {}, Graphs <- {},
               None <- 0, Torn <- 1, GateCapacity <- 1, MaxExports <- 0,
               MaxServices <- 0, MaxApps <- 0, Layers <- {},
               process <- 0, artifact <- 0, companion <- 0, exporter <- 0, exports <- 0,
               service <- 0, handler <- 0, app <- 0, rpc <- 0, boots <- 0, layer <- 0

\* Both owners are where the coordinator has brought them, and an early end of
\* the drain is followed by the closes.
PhasesAgree ==
    /\ rtPhase = "open" <=> phase \in {"new", "open"}
    /\ rtPhase = "draining" <=> phase = "draining"
    /\ phase = "cleared" => rtPhase = "closed"
    /\ deadline \in {"ahead", "past", "met"}
    /\ deadline = "met" => rtPhase \notin {"open", "draining"}
    /\ deadline = "ahead" => rtPhase \in {"open", "draining"}

\* A consumer awaits the engine call of its job.
CallsOwned == \A j \in Jobs : j \in R!Active(call) => j \in Owned

\* join() is called after the last admission; what it has waited for stays true.
JoinedForGood ==
    /\ join # "none" => phase \notin {"new", "open"}
    /\ join = "released" => unfinished = 0

\* The closes come before the deadline only when every submitted job is done.
MetIsDone == deadline = "met" => join = "released"

\* After the runtime was idle in the drain only jobs call it.
IdleForOthers ==
    idleSeen => /\ rtPhase # "open"
                /\ rtPhase = "draining" => /\ R!Active(call) \subseteq Jobs
                                           /\ \A p \in Checkers : ~R!Alive(probe[p])

ShutdownInv ==
    /\ PhasesAgree /\ CallsOwned /\ JoinedForGood /\ MetIsDone
    /\ IdleForOthers /\ GracefulCancelsNothing

ServiceInv == SchedulerInv /\ RP!RuntimeInv /\ ShutdownInv

----------------------------------------------------------------------------
(* The runtime in the composition is the one the lemmas are about.         *)

LEMMA RuntimeParameters == ASSUME ServiceAssumption PROVE RP!RuntimeAssumption
BY DEF ServiceAssumption, RP!RuntimeAssumption

LEMMA SameTerms ==
    /\ \A calls : R!Active(calls) = RP!Active(calls)
    /\ \A task : R!Alive(task) <=> RP!Alive(task)
    /\ R!callVars = RP!callVars /\ R!checkVars = RP!checkVars /\ R!probeVars = RP!probeVars
    /\ R!vars = RP!vars
BY DEF R!Active, RP!Active, R!Waiting, RP!Waiting, R!Owning, RP!Owning, R!Alive, RP!Alive,
       R!callVars, RP!callVars, R!checkVars, RP!checkVars, R!probeVars, RP!probeVars,
       R!vars, RP!vars

LEMMA SameSync == R!SyncIdle <=> RP!SyncIdle
BY DEF R!SyncIdle, RP!SyncIdle, R!Active, RP!Active, R!Waiting, RP!Waiting,
       R!Owning, RP!Owning, R!Alive, RP!Alive

LEMMA SameCallStep ==
    ASSUME NEW c
    PROVE  /\ R!MayCall(c) <=> RP!MayCall(c)
           /\ R!CallRefused(c) <=> RP!CallRefused(c)
           /\ R!CallStarts(c) <=> RP!CallStarts(c)
           /\ R!CallWaits(c) <=> RP!CallWaits(c)
           /\ R!CallResumes(c) <=> RP!CallResumes(c)
           /\ R!CancelCall(c) <=> RP!CancelCall(c)
           /\ R!CancelledLeaves(c) <=> RP!CancelledLeaves(c)
           /\ R!CallEnds(c) <=> RP!CallEnds(c)
           /\ R!CallStep(c) <=> RP!CallStep(c)
<1> USE SameSync DEF R!checkVars, RP!checkVars, R!probeVars, RP!probeVars,
                     R!Locked, RP!Locked, R!MayCall, RP!MayCall, R!Serve, RP!Serve
<1>1. R!CallRefused(c) <=> RP!CallRefused(c)
  BY DEF R!CallRefused, RP!CallRefused
<1>2. R!CallStarts(c) <=> RP!CallStarts(c)
  BY DEF R!CallStarts, RP!CallStarts
<1>3. R!CallWaits(c) <=> RP!CallWaits(c)
  BY DEF R!CallWaits, RP!CallWaits
<1>4. R!CallResumes(c) <=> RP!CallResumes(c)
  BY DEF R!CallResumes, RP!CallResumes, R!Closing, RP!Closing
<1>5. R!CancelCall(c) <=> RP!CancelCall(c)
  BY DEF R!CancelCall, RP!CancelCall, R!AfterCancel, RP!AfterCancel, R!Without, RP!Without
<1>6. R!CancelledLeaves(c) <=> RP!CancelledLeaves(c)
  BY DEF R!CancelledLeaves, RP!CancelledLeaves
<1>7. R!CallEnds(c) <=> RP!CallEnds(c)
  BY DEF R!CallEnds, RP!CallEnds
<1>8. R!MayCall(c) <=> RP!MayCall(c)
  OBVIOUS
<1>9. R!CallStep(c) <=> RP!CallStep(c)
  BY <1>1, <1>2, <1>3, <1>4, <1>5, <1>6, <1>7 DEF R!CallStep, RP!CallStep
<1>10. QED
  BY <1>1, <1>2, <1>3, <1>4, <1>5, <1>6, <1>7, <1>8, <1>9

LEMMA SameCheckStep ==
    ASSUME NEW h
    PROVE  /\ R!CheckStep(h) <=> RP!CheckStep(h)
           /\ R!ProbeStep(h) <=> RP!ProbeStep(h)
<1> USE SameSync DEF R!callVars, RP!callVars, R!checkVars, RP!checkVars, R!probeVars, RP!probeVars,
                     R!Asking, RP!Asking, R!Retiring, RP!Retiring, R!Kept, RP!Kept,
                     R!Alive, RP!Alive, R!Closing, RP!Closing
<1>1. R!Ask(h) <=> RP!Ask(h)
  <2>1. R!CheckRefused(h) <=> RP!CheckRefused(h)
    BY DEF R!CheckRefused, RP!CheckRefused
  <2>2. R!CheckRetries(h) <=> RP!CheckRetries(h)
    BY DEF R!CheckRetries, RP!CheckRetries
  <2>3. R!CheckCached(h) <=> RP!CheckCached(h)
    BY DEF R!CheckCached, RP!CheckCached
  <2>4. R!CheckJoins(h) <=> RP!CheckJoins(h)
    BY DEF R!CheckJoins, RP!CheckJoins
  <2>5. R!CheckStarts(h) <=> RP!CheckStarts(h)
    BY DEF R!CheckStarts, RP!CheckStarts
  <2>6. QED
    BY <2>1, <2>2, <2>3, <2>4, <2>5 DEF R!Ask, RP!Ask
<1>2. R!LeaveProbe(h) <=> RP!LeaveProbe(h)
  BY DEF R!LeaveProbe, RP!LeaveProbe, R!WaitersOf, RP!WaitersOf, R!BeginRetirement, RP!BeginRetirement
<1>3. (R!CheckResumes(h) <=> RP!CheckResumes(h)) /\ (R!CancelCheck(h) <=> RP!CancelCheck(h))
  BY <1>2 DEF R!CheckResumes, RP!CheckResumes, R!CancelCheck, RP!CancelCheck
<1>4. (R!CheckFinishes(h) <=> RP!CheckFinishes(h)) /\ (R!CancelRetry(h) <=> RP!CancelRetry(h))
  BY DEF R!CheckFinishes, RP!CheckFinishes, R!CancelRetry, RP!CancelRetry
<1>5. R!CheckStep(h) <=> RP!CheckStep(h)
  BY <1>1, <1>3, <1>4 DEF R!CheckStep, RP!CheckStep
<1>6. R!ProbeStep(h) <=> RP!ProbeStep(h)
  BY DEF R!ProbeStep, RP!ProbeStep, R!ProbeAnswers, RP!ProbeAnswers,
         R!ProbeCancelled, RP!ProbeCancelled, R!Retire, RP!Retire
<1>7. QED
  BY <1>5, <1>6

LEMMA SamePhases ==
    /\ R!Init <=> RP!Init
    /\ R!CacheExpires <=> RP!CacheExpires
    /\ R!BeginDrain <=> RP!BeginDrain
    /\ R!CloseBegins <=> RP!CloseBegins
    /\ R!CloseCancels <=> RP!CloseCancels
    /\ R!CloseEnds <=> RP!CloseEnds
<1> USE DEF R!callVars, RP!callVars, R!checkVars, RP!checkVars, R!probeVars, RP!probeVars
<1>1. R!Init <=> RP!Init
  BY DEF R!Init, RP!Init
<1>2. R!CacheExpires <=> RP!CacheExpires
  BY DEF R!CacheExpires, RP!CacheExpires
<1>3. (R!BeginDrain <=> RP!BeginDrain) /\ (R!CloseBegins <=> RP!CloseBegins)
  BY DEF R!BeginDrain, RP!BeginDrain, R!CloseBegins, RP!CloseBegins
<1>4. R!CloseCancels <=> RP!CloseCancels
  BY DEF R!CloseCancels, RP!CloseCancels, R!AfterCancel, RP!AfterCancel,
         R!BeginRetirement, RP!BeginRetirement
<1>5. R!CloseEnds <=> RP!CloseEnds
  BY SameTerms DEF R!CloseEnds, RP!CloseEnds
<1>6. QED
  BY <1>1, <1>2, <1>3, <1>4, <1>5

\* The steps of the composition are steps of its parts.
LEMMA SameNext == [R!Next]_(R!vars) => [RP!Next]_(RP!vars)
<1>1. R!Next => RP!Next
  BY SameCallStep, SameCheckStep, SamePhases DEF R!Next, RP!Next
<1>2. R!vars' = R!vars => RP!vars' = RP!vars
  BY DEF R!vars, RP!vars, R!callVars, RP!callVars, R!checkVars, RP!checkVars,
         R!probeVars, RP!probeVars
<1>3. QED
  BY <1>1, <1>2

LEMMA RuntimeAlone == UNCHANGED runtimeVars => UNCHANGED R!vars
BY DEF runtimeVars, R!vars, R!callVars, R!checkVars, R!probeVars

LEMMA StepsOfOwners ==
    ASSUME SchedulerInv, [ServiceNext]_systemVars
    PROVE  [Next]_vars /\ [R!Next]_(R!vars)
<1>1. CASE SchedulerAlone
  BY <1>1, RuntimeAlone DEF SchedulerAlone, Next, WorkerStep, LifetimeStep
<1>2. CASE \E w \in Workers : JobGoesOn(w)
  BY <1>2, RuntimeAlone DEF JobGoesOn, Next, WorkerStep
<1>3. CASE \E w \in Workers : JobCalls(w) \/ JobCallCancelled(w)
  <2>1. PICK w \in Workers : JobCalls(w) \/ JobCallCancelled(w)
    BY <1>3
  <2>2. UNCHANGED vars
    BY <2>1 DEF JobCalls, JobCallCancelled
  <2>3. R!CallStep(workerJob[w])
    BY <2>1 DEF JobCalls, JobCallCancelled, R!CallStep
  <2>4. workerJob[w] \in Jobs \cup DirectCalls
    BY <2>1 DEF JobCalls, JobCallCancelled, SchedulerInv, TypeInv, Busy
  <2>5. QED
    BY <2>2, <2>3, <2>4 DEF R!Next
<1>4. CASE CallsGoOn
  BY <1>4 DEF CallsGoOn, R!Next, R!CallStep
<1>5. CASE ChecksGoOn
  BY <1>5 DEF ChecksGoOn, R!Next
<1>6. CASE RuntimeCloses
  BY <1>6 DEF RuntimeCloses, R!Next
<1>7. CASE BeginShutdownOfBoth \/ CloseBoth
  BY <1>7 DEF BeginShutdownOfBoth, CloseBoth, Next, LifetimeStep, R!Next
<1>8. CASE DeadlinePasses
  BY <1>8, RuntimeAlone DEF DeadlinePasses
<1>9. CASE ClearWhenBothClosed
  BY <1>9, RuntimeAlone DEF ClearWhenBothClosed, Next, LifetimeStep
<1>10. CASE UNCHANGED systemVars
  BY <1>10, RuntimeAlone DEF systemVars
<1>11. QED
  BY <1>1, <1>2, <1>3, <1>4, <1>5, <1>6, <1>7, <1>8, <1>9, <1>10 DEF ServiceNext

----------------------------------------------------------------------------
(* The scheduler during a shutdown.                                        *)

\* The queue's count is the work there is.
LEMMA NothingLeft ==
    ASSUME SchedulerAssumption, SchedulerInv, unfinished = 0
    PROVE  queue = <<>> /\ Busy = {}
<1>1. IsFiniteSet(Busy) /\ Cardinality(Busy) \in Nat
  BY BusyFinite
<1>2. queue \in Seq(Jobs) /\ Len(queue) \in Nat
  BY LenProperties DEF SchedulerInv, TypeInv, TypeOK
<1>3. unfinished = Cardinality(Busy) + Len(queue)
  BY DEF SchedulerInv, RecordsInv, SlotsInv
<1>4. Cardinality(Busy) = 0 /\ Len(queue) = 0
  BY <1>1, <1>2, <1>3
<1>5. QED
  BY <1>1, <1>2, <1>4, FS_EmptySet, EmptySeq

\* Without work and without admission there will be no work.
LEMMA QuietStays ==
    ASSUME SchedulerInv, [Next]_vars,
           queue = <<>>, Busy = {}, phase \notin {"new", "open"}
    PROVE  queue' = <<>> /\ Busy' = {} /\ UNCHANGED <<unfinished, join>>
<1>1. /\ worker \in [Workers -> {"off", "waiting", "running", "gone"}]
      /\ ~accepting
      /\ sweeper = "rotating" => toRotate \in 0..0
      /\ \A w \in Workers : worker[w] # "running"
  BY DEF SchedulerInv, TypeInv, TypeOK, LifetimeInv, Busy
<1>2. CASE Tick \/ UNCHANGED vars
  BY <1>2 DEF Tick, vars, queueVars, workerVars, Busy
<1>3. CASE \E j \in Jobs : CallerStep(j)
  BY <1>1, <1>3 DEF CallerStep, Reserve, ReserveRefused, PreparationFails, CancelRequest,
                    AbandonedEnds, Submit, CanSubmit, SubmitRefused, queueVars, workerVars, Busy
<1>4. CASE \E w \in Workers : WorkerStep(w)
  <2>1. PICK w \in Workers : CancelIdle(w)
    BY <1>1, <1>4 DEF WorkerStep, DequeueExpired, DequeueStart, CanDequeue, Settle, Return, Raise,
                      CancelRun, AbsorbCancel
  <2>2. QED
    BY <1>1, <2>1 DEF CancelIdle, queueVars, Busy
<1>5. CASE SweeperStep
  <2>1. SweepBegin \/ SweepEnd
    BY <1>1, <1>5 DEF SweeperStep, RotateExpired, RotateSurvivor
  <2>2. QED
    BY <2>1 DEF SweepBegin, SweepEnd, queueVars, workerVars, Busy
<1>6. CASE LifetimeStep
  <2>1. Close \/ ConsumersGone \/ FlushEnd \/ ClearHistory
    BY <1>6 DEF LifetimeStep, Start, BeginShutdown, FlushOne
  <2>2. QED
    BY <2>1 DEF Close, ConsumersGone, FlushEnd, ClearHistory, queueVars, workerVars, Busy
<1>7. QED
  BY <1>2, <1>3, <1>4, <1>5, <1>6 DEF Next

\* How join() moves, and the stages of the lifetime.
LEMMA JoinMoves ==
    ASSUME [Next]_vars
    PROVE  \/ join' = join /\ (phase' \in {"new", "open"} => phase \in {"new", "open"})
           \/ join = "waiting" /\ join' = "released" /\ unfinished' = 0 /\ phase' = phase
           \/ BeginShutdown
<1>1. CASE Tick \/ UNCHANGED vars
  BY <1>1 DEF Tick, vars, controlVars, queueVars
<1>2. CASE \E j \in Jobs : CallerStep(j)
  BY <1>2 DEF CallerStep, Reserve, ReserveRefused, PreparationFails, CancelRequest,
              AbandonedEnds, Submit, SubmitRefused, controlVars, queueVars
<1>3. CASE \E w \in Workers : WorkerStep(w)
  BY <1>3 DEF WorkerStep, DequeueExpired, DequeueStart, Settle, Return, Raise, CancelRun,
              AbsorbCancel, CancelIdle, EndRun, TaskDone, controlVars, queueVars
<1>4. CASE SweeperStep
  BY <1>4 DEF SweeperStep, SweepBegin, RotateExpired, RotateSurvivor, SweepEnd, TaskDone, queueVars
<1>5. CASE LifetimeStep
  BY <1>5 DEF LifetimeStep, Start, Close, ConsumersGone, FlushOne, FlushEnd, ClearHistory,
              TaskDone, controlVars, queueVars
<1>6. QED
  BY <1>1, <1>2, <1>3, <1>4, <1>5 DEF Next

LEMMA JoinKept ==
    ASSUME SchedulerAssumption, SchedulerInv, [Next]_vars, JoinedForGood
    PROVE  JoinedForGood'
<1>1. CASE join = "released"
  <2>1. queue = <<>> /\ Busy = {} /\ unfinished = 0 /\ phase \notin {"new", "open"}
    BY <1>1, NothingLeft DEF JoinedForGood
  <2>2. UNCHANGED <<unfinished, join>>
    BY <2>1, QuietStays
  <2>3. phase' \notin {"new", "open"}
    BY <1>1, <2>1, JoinMoves DEF BeginShutdown
  <2>4. QED
    BY <2>1, <2>2, <2>3 DEF JoinedForGood
<1>2. CASE join # "released"
  BY <1>2, JoinMoves DEF JoinedForGood, BeginShutdown
<1>3. QED
  BY <1>1, <1>2

----------------------------------------------------------------------------
(* The runtime during a shutdown.                                          *)

ServiceCalls == Jobs \cup DirectCalls

\* A call's step activates at most that call, which has been admitted.
LEMMA CallMoves ==
    ASSUME ServiceAssumption, RP!RuntimeInv,
           NEW c \in ServiceCalls, R!CallStep(c), NEW d \in ServiceCalls
    PROVE  /\ d \in R!Active(call') => d \in R!Active(call) \/ (d = c /\ R!MayCall(c))
           /\ call[d] = "new" /\ call'[d] = "stopped" => d = c /\ R!CallRefused(d)
           /\ UNCHANGED <<rtPhase, probe>>
<1>1. RP!CallStep(c) /\ RP!RuntimeAssumption
  BY SameCallStep, RuntimeParameters
<1>2. /\ d \in RP!Active(call') => d \in RP!Active(call) \/ (d = c /\ RP!MayCall(c))
      /\ call[d] = "new" /\ call'[d] = "stopped" => d = c /\ RP!CallRefused(c)
  BY <1>1, RP!CallStepMoves DEF ServiceCalls
<1>3. UNCHANGED <<rtPhase, probe>>
  BY DEF R!CallStep, R!CallRefused, R!CallStarts, R!CallWaits, R!CallResumes, R!CancelCall,
         R!CancelledLeaves, R!CallEnds, R!probeVars
<1>4. QED
  BY <1>2, <1>3, SameTerms, SameCallStep

\* A check's step activates no call, and no probe once the drain has begun.
LEMMA CheckMoves ==
    ASSUME ServiceAssumption, RP!RuntimeInv, ChecksGoOn
    PROVE  /\ UNCHANGED <<rtPhase, call>>
           /\ \A p \in Checkers : R!Alive(probe'[p]) => R!Alive(probe[p]) \/ rtPhase = "open"
<1>1. CASE Checkers = {}
  BY <1>1 DEF ChecksGoOn, R!CacheExpires, R!callVars
<1>2. CASE Checkers # {}
  <2>1. PICK h \in Checkers : RP!CheckStep(h) \/ RP!ProbeStep(h) \/ RP!CacheExpires
    BY <1>2, SameCheckStep, SamePhases DEF ChecksGoOn
  <2>2. \A p \in Checkers :
            /\ UNCHANGED <<rtPhase, RP!callVars>>
            /\ RP!Alive(probe'[p]) => RP!Alive(probe[p]) \/ rtPhase = "open"
    BY <2>1, RuntimeParameters, RP!ProbeMoves
  <2>3. QED
    BY <1>2, <2>2, SameTerms DEF RP!callVars
<1>3. QED
  BY <1>1, <1>2

\* The closes begin no call and no probe.
LEMMA CloseMoves ==
    ASSUME RP!RuntimeInv, RuntimeCloses
    PROVE  /\ rtPhase \in {"closing", "cancelling"} /\ rtPhase' \in {"cancelling", "closed"}
           /\ \A d \in ServiceCalls : /\ d \in R!Active(call') => d \in R!Active(call)
                                      /\ call[d] = "new" => call'[d] = "new"
           /\ \A p \in Checkers : R!Alive(probe'[p]) => R!Alive(probe[p])
<1>1. probe \in [Checkers -> {"none", "running", "cancelling", "done"}]
  BY DEF RP!RuntimeInv, RP!TypeOK
<1>2. CASE R!CloseCancels
  <2>1. /\ rtPhase = "closing" /\ rtPhase' = "cancelling"
        /\ \A d \in ServiceCalls : call'[d] = R!AfterCancel(call[d])
    BY <1>2 DEF R!CloseCancels, ServiceCalls
  <2>2. \/ probe' = probe
        \/ probe' = [probe EXCEPT ![current] = IF @ = "running" THEN "cancelling" ELSE @]
    BY <1>2 DEF R!CloseCancels, R!BeginRetirement
  <2>3. \A d \in ServiceCalls : d \in R!Active(call') => d \in R!Active(call)
    BY <2>1 DEF R!Active, R!AfterCancel, R!Waiting, R!Owning, ServiceCalls
  <2>4. \A p \in Checkers : R!Alive(probe'[p]) => R!Alive(probe[p])
    BY <1>1, <2>2 DEF R!Alive
  <2>5. QED
    BY <2>1, <2>3, <2>4 DEF R!AfterCancel
<1>3. CASE R!CloseEnds
  BY <1>3 DEF R!CloseEnds, R!callVars
<1>4. QED
  BY <1>2, <1>3 DEF RuntimeCloses


\* Of all steps of the service only an admitted call becomes active, a job's only
\* while its consumer runs the job, and only an open runtime starts a probe.
LEMMA RuntimeMoves ==
    ASSUME ServiceAssumption, SchedulerInv, RP!RuntimeInv, [ServiceNext]_systemVars
    PROVE  /\ \A d \in ServiceCalls :
                 d \in R!Active(call') => \/ d \in R!Active(call)
                                          \/ R!MayCall(d) /\ (d \in Jobs => d \in Owned)
           /\ \A j \in Jobs : call[j] = "new" /\ call'[j] = "stopped"
                                 => R!CallRefused(j) /\ j \in Owned
           /\ \A p \in Checkers : R!Alive(probe'[p]) => R!Alive(probe[p]) \/ rtPhase = "open"
<1>1. CASE UNCHANGED <<call, probe>>
  BY <1>1 DEF R!Active
<1>2. CASE \E w \in Workers : JobCalls(w) \/ JobCallCancelled(w)
  <2>1. PICK w \in Workers : JobCalls(w) \/ JobCallCancelled(w)
    BY <1>2
  <2>2. R!CallStep(workerJob[w]) /\ worker[w] = "running"
    BY <2>1 DEF JobCalls, JobCallCancelled, R!CallStep
  <2>3. workerJob[w] \in Jobs /\ workerJob[w] \in Owned
    BY <2>2 DEF SchedulerInv, TypeInv, Busy, Owned
  <2>4. PICK c \in Jobs : c = workerJob[w] /\ R!CallStep(c)
    BY <2>2, <2>3
  <2>5. QED
    BY <2>3, <2>4, CallMoves DEF ServiceCalls
<1>3. CASE CallsGoOn
  <2>1. PICK c \in ServiceCalls :
            /\ R!CallStep(c)
            /\ c \in R!Active(call) \/ c \in DirectCalls
    <3>1. CASE \E c \in Jobs \cup DirectCalls : R!CallResumes(c) \/ R!CancelledLeaves(c) \/ R!CallEnds(c)
      BY <3>1 DEF R!CallStep, R!CallResumes, R!CancelledLeaves, R!CallEnds, R!Active, R!Waiting,
                  R!Owning, ServiceCalls
    <3>2. CASE \E c \in DirectCalls : R!CallRefused(c) \/ R!CallStarts(c) \/ R!CancelCall(c)
      BY <3>2 DEF R!CallStep, ServiceCalls
    <3>3. QED
      BY <1>3, <3>1, <3>2 DEF CallsGoOn
  <2>2. DirectCalls \cap Jobs = {}
    BY DEF ServiceAssumption
  <2>3. \A j \in Jobs : call[j] = "new" => j # c
    BY <2>1, <2>2 DEF R!Active, R!Waiting, R!Owning
  <2>4. QED
    BY <2>1, <2>2, <2>3, CallMoves DEF ServiceCalls
<1>4. CASE ChecksGoOn
  BY <1>4, CheckMoves DEF R!Active
<1>5. CASE RuntimeCloses
  BY <1>5, CloseMoves DEF ServiceCalls
<1>6. \/ UNCHANGED <<call, probe>>
      \/ \E w \in Workers : JobCalls(w) \/ JobCallCancelled(w)
      \/ CallsGoOn \/ ChecksGoOn \/ RuntimeCloses
  BY DEF ServiceNext, SchedulerAlone, JobGoesOn, BeginShutdownOfBoth, DeadlinePasses, CloseBoth,
         ClearWhenBothClosed, R!BeginDrain, R!CloseBegins, R!callVars, R!probeVars, runtimeVars,
         systemVars
<1>7. QED
  BY <1>1, <1>2, <1>3, <1>4, <1>5, <1>6

\* A consumer lets go of a job only when the job's engine call is over.
LEMMA OwnersMove ==
    ASSUME SchedulerAssumption, SchedulerInv, [ServiceNext]_systemVars
    PROVE  Owned \subseteq Owned' \/ (call' = call /\ R!Active(call) \cap (Owned \ Owned') = {})
<1>1. /\ worker \in [Workers -> {"off", "waiting", "running", "gone"}]
      /\ workerJob \in [Workers -> Jobs \cup {NoJob}]
      /\ phase = "new" => Busy = {}
      /\ NoJob \notin Jobs
      /\ \A w \in Busy : workerJob[w] \in Jobs
  BY DEF SchedulerInv, TypeInv, TypeOK, LifetimeInv, SchedulerAssumption, Busy
<1>2. CASE UNCHANGED <<worker, workerJob>>
  BY <1>2 DEF Owned, Busy
<1>3. CASE SchedulerAlone
  <2>1. \/ UNCHANGED <<worker, workerJob>>
        \/ Start
        \/ \E w \in Workers : DequeueStart(w) \/ CancelIdle(w)
    BY <1>3 DEF SchedulerAlone, Tick, CallerStep, Reserve, ReserveRefused, PreparationFails,
                CancelRequest, AbandonedEnds, Submit, SubmitRefused, DequeueExpired, SweeperStep,
                SweepBegin, RotateExpired, RotateSurvivor, SweepEnd, ConsumersGone, FlushOne,
                FlushEnd, workerVars
  <2>2. CASE Start
    BY <1>1, <2>2 DEF Start, Owned
  <2>3. CASE \E w \in Workers : DequeueStart(w) \/ CancelIdle(w)
    <3>1. PICK w \in Workers : DequeueStart(w) \/ CancelIdle(w)
      BY <2>3
    <3>2. \A v \in Busy : v # w /\ v \in Busy' /\ workerJob'[v] = workerJob[v]
      BY <1>1, <3>1 DEF DequeueStart, CancelIdle, CanDequeue, Busy
    <3>3. QED
      BY <3>2 DEF Owned
  <2>4. QED
    BY <1>2, <2>1, <2>2, <2>3
<1>4. CASE \E w \in Workers : JobGoesOn(w)
  <2>1. PICK w \in Workers : JobGoesOn(w)
    BY <1>4
  <2>2. worker[w] = "running" /\ CallOver(workerJob[w]) /\ call' = call
    BY <2>1 DEF JobGoesOn, Settle, Return, Raise, CancelRun, AbsorbCancel, runtimeVars
  <2>3. workerJob[w] \notin R!Active(call)
    BY <1>1, <2>2 DEF CallOver, R!Active, R!Waiting, R!Owning, R!Over, Busy
  <2>4. \A v \in Busy : v # w => v \in Busy' /\ workerJob'[v] = workerJob[v]
    BY <1>1, <2>1 DEF JobGoesOn, Settle, Return, Raise, CancelRun, AbsorbCancel, EndRun, workerVars, Busy
  <2>5. QED
    BY <2>2, <2>3, <2>4 DEF Owned
<1>5. UNCHANGED <<worker, workerJob>> \/ SchedulerAlone \/ \E w \in Workers : JobGoesOn(w)
  BY DEF ServiceNext, JobCalls, JobCallCancelled, CallsGoOn, ChecksGoOn, RuntimeCloses,
         BeginShutdownOfBoth, DeadlinePasses, CloseBoth, ClearWhenBothClosed, BeginShutdown, Close,
         ClearHistory, vars, workerVars, systemVars
<1>6. QED
  BY <1>2, <1>3, <1>4, <1>5

----------------------------------------------------------------------------
(* The inductive invariant.                                                *)

LEMMA InitService == SchedulerAssumption /\ ServiceAssumption /\ ServiceInit => ServiceInv
<1> SUFFICES ASSUME SchedulerAssumption, ServiceAssumption, ServiceInit PROVE ServiceInv
  OBVIOUS
<1>1. SchedulerInv
  BY InitScheduler DEF ServiceInit
<1>2. RP!RuntimeInv
  BY RuntimeParameters, SamePhases, RP!InitRuntime DEF ServiceInit
<1>3. ShutdownInv
  BY DEF ServiceInit, Init, R!Init, ShutdownInv, PhasesAgree, CallsOwned, JoinedForGood,
         MetIsDone, IdleForOthers, GracefulCancelsNothing, R!Active, R!Waiting, R!Owning
<1>4. QED
  BY <1>1, <1>2, <1>3 DEF ServiceInv

LEMMA PhasesKept ==
    ASSUME PhasesAgree, [ServiceNext]_systemVars PROVE PhasesAgree'
<1>1. CASE SchedulerAlone
  <2>1. \/ phase' = phase
        \/ phase = "new" /\ phase' = "open"
        \/ phase = "cancelling" /\ phase' = "flushing"
        \/ phase = "flushing" /\ phase' = "closed"
    BY <1>1 DEF SchedulerAlone, Tick, CallerStep, Reserve, ReserveRefused, PreparationFails,
                CancelRequest, AbandonedEnds, Submit, SubmitRefused, DequeueExpired, DequeueStart,
                CancelIdle, SweeperStep, SweepBegin, RotateExpired, RotateSurvivor, SweepEnd, Start,
                ConsumersGone, FlushOne, FlushEnd, controlVars
  <2>2. QED
    BY <1>1, <2>1 DEF SchedulerAlone, PhasesAgree, runtimeVars, drainVars
<1>2. CASE \E w \in Workers : JobGoesOn(w)
  BY <1>2 DEF JobGoesOn, Settle, Return, Raise, CancelRun, AbsorbCancel, EndRun, controlVars,
              PhasesAgree, runtimeVars, drainVars
<1>3. CASE \/ \E w \in Workers : JobCalls(w) \/ JobCallCancelled(w)
           \/ CallsGoOn \/ UNCHANGED systemVars
  <2>1. UNCHANGED <<phase, rtPhase, deadline>>
    BY <1>3 DEF JobCalls, JobCallCancelled, CallsGoOn, R!CallRefused, R!CallStarts, R!CallWaits,
                R!CallResumes, R!CancelCall, R!CancelledLeaves, R!CallEnds, vars, controlVars,
                drainVars, systemVars, runtimeVars
  <2>2. QED
    BY <2>1 DEF PhasesAgree
<1>4. CASE ChecksGoOn
  BY <1>4 DEF ChecksGoOn, PhasesAgree, R!CheckStep, R!Ask, R!CheckRefused, R!CheckRetries,
              R!CheckCached, R!CheckJoins, R!CheckStarts, R!CheckResumes, R!CheckFinishes,
              R!CancelCheck, R!CancelRetry, R!ProbeStep, R!ProbeAnswers, R!ProbeCancelled, R!Retire,
              R!CacheExpires, vars, controlVars
<1>5. CASE RuntimeCloses
  BY <1>5 DEF RuntimeCloses, R!CloseCancels, R!CloseEnds, PhasesAgree, vars, controlVars, drainVars
<1>6. CASE BeginShutdownOfBoth \/ DeadlinePasses \/ CloseBoth \/ ClearWhenBothClosed
  BY <1>6 DEF BeginShutdownOfBoth, BeginShutdown, R!BeginDrain, DeadlinePasses, CloseBoth, Close,
              R!CloseBegins, ClearWhenBothClosed, ClearHistory, PhasesAgree, vars, controlVars,
              runtimeVars, drainVars
<1>7. QED
  BY <1>1, <1>2, <1>3, <1>4, <1>5, <1>6 DEF ServiceNext

LEMMA RuntimePhases ==
    ASSUME [ServiceNext]_systemVars
    PROVE  \/ rtPhase' = rtPhase
           \/ rtPhase = "open" /\ BeginShutdownOfBoth
           \/ rtPhase' = "closing" /\ CloseBoth
           \/ rtPhase' \in {"cancelling", "closed"}
<1>1. [ServiceNext]_systemVars => \/ UNCHANGED rtPhase
                                  \/ CallsGoOn \/ ChecksGoOn \/ RuntimeCloses
                                  \/ \E w \in Workers : JobCalls(w) \/ JobCallCancelled(w)
                                  \/ BeginShutdownOfBoth \/ CloseBoth
  BY DEF ServiceNext, SchedulerAlone, JobGoesOn, DeadlinePasses, ClearWhenBothClosed, runtimeVars,
         systemVars
<1>2. CallsGoOn \/ (\E w \in Workers : JobCalls(w) \/ JobCallCancelled(w)) => UNCHANGED rtPhase
  BY DEF CallsGoOn, JobCalls, JobCallCancelled, R!CallRefused, R!CallStarts, R!CallWaits,
         R!CallResumes, R!CancelCall, R!CancelledLeaves, R!CallEnds
<1>3. ChecksGoOn => UNCHANGED rtPhase
  BY DEF ChecksGoOn, R!CheckStep, R!Ask, R!CheckRefused, R!CheckRetries, R!CheckCached,
         R!CheckJoins, R!CheckStarts, R!CheckResumes, R!CheckFinishes, R!CancelCheck,
         R!CancelRetry, R!ProbeStep, R!ProbeAnswers, R!ProbeCancelled, R!Retire, R!CacheExpires
<1>4. /\ RuntimeCloses => rtPhase' \in {"cancelling", "closed"}
      /\ CloseBoth => rtPhase' = "closing"
  BY DEF RuntimeCloses, CloseBoth, R!CloseBegins, R!CloseCancels, R!CloseEnds
<1>5. QED
  BY <1>1, <1>2, <1>3, <1>4 DEF BeginShutdownOfBoth, R!BeginDrain

LEMMA CallsKept ==
    ASSUME SchedulerAssumption, ServiceAssumption, ServiceInv, [ServiceNext]_systemVars
    PROVE  CallsOwned'
<1> SUFFICES ASSUME NEW j \in Jobs, j \in R!Active(call') PROVE j \in Owned'
  BY DEF CallsOwned
<1>1. SchedulerInv /\ RP!RuntimeInv /\ CallsOwned
  BY DEF ServiceInv, ShutdownInv
<1>2. j \in Owned
  BY <1>1, RuntimeMoves DEF CallsOwned, ServiceCalls
<1>3. QED
  BY <1>1, <1>2, OwnersMove

\* The runtime's event is set only when no call and no probe is left, and in a
\* drain only jobs are admitted.
LEMMA IdleKept ==
    ASSUME SchedulerAssumption, ServiceAssumption, ServiceInv, [ServiceNext]_systemVars,
           RP!RuntimeInv', PhasesAgree'
    PROVE  IdleForOthers'
<1>1. SchedulerInv /\ RP!RuntimeInv /\ PhasesAgree /\ IdleForOthers
  BY DEF ServiceInv, ShutdownInv
<1>2. idle' => R!Active(call') = {} /\ \A p \in Checkers : ~R!Alive(probe'[p])
  BY SameTerms DEF RP!RuntimeInv, RP!IdleExact
<1>3. CASE idleSeen' /\ ~idleSeen
  <2>1. (Latch /\ phase = "draining") \/ BeginShutdownOfBoth
    BY <1>3 DEF ServiceNext, SchedulerAlone, JobGoesOn, JobCalls, JobCallCancelled, CallsGoOn,
                ChecksGoOn, RuntimeCloses, DeadlinePasses, CloseBoth, ClearWhenBothClosed, Latch,
                drainVars, systemVars
  <2>2. idle'
    <3>1. idle \in BOOLEAN /\ idle' \in BOOLEAN
      BY <1>1 DEF RP!RuntimeInv, RP!TypeOK
    <3>2. CASE Latch
      BY <1>3, <3>1, <3>2 DEF Latch
    <3>3. CASE BeginShutdownOfBoth
      <4>1. idleSeen' = idle /\ idle' = idle
        BY <3>3 DEF BeginShutdownOfBoth, R!BeginDrain
      <4>2. QED
        BY <1>3, <4>1
    <3>4. QED
      BY <2>1, <3>2, <3>3
  <2>3. rtPhase' # "open"
    BY <1>1, <2>1, RuntimePhases DEF PhasesAgree, BeginShutdownOfBoth, R!BeginDrain
  <2>4. QED
    BY <1>2, <2>2, <2>3 DEF IdleForOthers
<1>4. CASE idleSeen
  <2>1. rtPhase # "open"
    BY <1>1, <1>4 DEF IdleForOthers
  <2>2. rtPhase' # "open" /\ (rtPhase' = "draining" => rtPhase = "draining")
    BY <2>1, RuntimePhases
  <2>3. ASSUME rtPhase' = "draining"
        PROVE  R!Active(call') \subseteq Jobs /\ \A p \in Checkers : ~R!Alive(probe'[p])
    <3>1. \A d \in ServiceCalls \ Jobs : d \notin R!Active(call')
      BY <1>1, <1>4, <2>1, <2>2, <2>3, RuntimeMoves DEF R!MayCall, IdleForOthers
    <3>2. QED
      BY <1>1, <1>4, <2>1, <2>2, <2>3, <3>1, RuntimeMoves DEF IdleForOthers, R!Active, ServiceCalls
  <2>4. QED
    BY <2>2, <2>3 DEF IdleForOthers
<1>5. QED
  BY <1>3, <1>4 DEF IdleForOthers

\* The closes begin early only when join() and the event say that nothing is left,
\* and then nothing is, nor begins any more.
LEMMA GraceKept ==
    ASSUME SchedulerAssumption, ServiceAssumption, ServiceInv, [ServiceNext]_systemVars
    PROVE  GracefulCancelsNothing'
<1>1. /\ SchedulerInv /\ RP!RuntimeInv /\ PhasesAgree /\ CallsOwned /\ JoinedForGood
      /\ IdleForOthers /\ GracefulCancelsNothing
  BY DEF ServiceInv, ShutdownInv
<1> SUFFICES ASSUME deadline' = "met", rtPhase' = "closing"
             PROVE  /\ queue' = <<>> /\ Busy' = {}
                    /\ R!Active(call') = {}
                    /\ \A p \in Checkers : ~R!Alive(probe'[p])
  BY DEF GracefulCancelsNothing
<1>2. CASE CloseBoth
  <2>1. Drained /\ phase = "draining"
    BY <1>2 DEF CloseBoth, Close
  <2>2. queue = <<>> /\ Busy = {}
    BY <1>1, <2>1, NothingLeft DEF Drained, JoinedForGood
  <2>3. R!Active(call) = {} /\ \A p \in Checkers : ~R!Alive(probe[p])
    BY <1>1, <2>1, <2>2 DEF Drained, IdleForOthers, PhasesAgree, CallsOwned, Owned
  <2>4. UNCHANGED <<queue, worker, call, probe>>
    BY <1>2 DEF CloseBoth, Close, R!CloseBegins, queueVars, R!callVars, R!probeVars
  <2>5. QED
    BY <2>2, <2>3, <2>4 DEF Busy, R!Active
<1>3. CASE ~CloseBoth
  <2>1. rtPhase = "closing" /\ deadline = "met"
    <3>1. deadline = "met"
      BY <1>3 DEF ServiceNext, SchedulerAlone, JobGoesOn, JobCalls, JobCallCancelled, CallsGoOn,
                  ChecksGoOn, RuntimeCloses, BeginShutdownOfBoth, DeadlinePasses,
                  ClearWhenBothClosed, drainVars, systemVars
    <3>2. rtPhase # "open" /\ rtPhase # "draining"
      BY <1>1, <3>1 DEF PhasesAgree
    <3>3. QED
      BY <1>3, <3>1, <3>2, RuntimePhases
  <2>2. /\ queue = <<>> /\ Busy = {} /\ phase \notin {"new", "open"}
        /\ R!Active(call) = {} /\ \A p \in Checkers : ~R!Alive(probe[p])
    BY <1>1, <2>1 DEF GracefulCancelsNothing, PhasesAgree
  <2>3. queue' = <<>> /\ Busy' = {}
    BY <1>1, <2>2, StepsOfOwners, QuietStays
  <2>4. /\ \A d \in ServiceCalls : d \notin R!Active(call')
        /\ \A p \in Checkers : ~R!Alive(probe'[p])
    BY <1>1, <2>1, <2>2, RuntimeMoves DEF R!MayCall
  <2>5. QED
    BY <2>3, <2>4 DEF R!Active, ServiceCalls
<1>4. QED
  BY <1>2, <1>3

\* The verdict on the deadline is reached once, when the closes begin.
LEMMA DeadlineMoves ==
    ASSUME [ServiceNext]_systemVars
    PROVE  \/ deadline' = deadline
           \/ deadline = "ahead" /\ deadline' = "past" /\ DeadlinePasses
           \/ CloseBoth
BY DEF ServiceNext, SchedulerAlone, JobGoesOn, JobCalls, JobCallCancelled, CallsGoOn,
       ChecksGoOn, RuntimeCloses, BeginShutdownOfBoth, DeadlinePasses, ClearWhenBothClosed,
       drainVars, systemVars

LEMMA MetKept ==
    ASSUME SchedulerAssumption, ServiceInv, [ServiceNext]_systemVars
    PROVE  MetIsDone'
<1>1. SchedulerInv /\ JoinedForGood /\ MetIsDone /\ [Next]_vars
  BY StepsOfOwners DEF ServiceInv, ShutdownInv
<1>2. join = "released" => join' = "released"
  <2>1. join = "released" => queue = <<>> /\ Busy = {} /\ phase \notin {"new", "open"}
    BY <1>1, NothingLeft DEF JoinedForGood
  <2>2. QED
    BY <1>1, <2>1, QuietStays
<1>3. CASE CloseBoth
  BY <1>2, <1>3 DEF CloseBoth, Drained, MetIsDone
<1>4. CASE ~CloseBoth
  BY <1>1, <1>2, <1>4, DeadlineMoves DEF MetIsDone
<1>5. QED
  BY <1>3, <1>4

LEMMA NextService ==
    ASSUME SchedulerAssumption, ServiceAssumption, ServiceInv, [ServiceNext]_systemVars
    PROVE  ServiceInv'
<1>1. SchedulerInv /\ RP!RuntimeInv /\ ShutdownInv
  BY DEF ServiceInv
<1>2. [Next]_vars /\ [RP!Next]_(RP!vars)
  BY <1>1, StepsOfOwners, SameNext
<1>3. SchedulerInv'
  BY <1>1, <1>2, NextScheduler
<1>4. RP!RuntimeInv'
  BY <1>1, <1>2, RuntimeParameters, RP!StepRuntime
<1>5. PhasesAgree'
  BY <1>1, PhasesKept DEF ShutdownInv
<1>6. CallsOwned' /\ MetIsDone' /\ IdleForOthers' /\ GracefulCancelsNothing'
  BY <1>4, <1>5, CallsKept, MetKept, IdleKept, GraceKept
<1>7. JoinedForGood'
  BY <1>1, <1>2, JoinKept DEF ShutdownInv
<1>8. QED
  BY <1>3, <1>4, <1>5, <1>6, <1>7 DEF ServiceInv, ShutdownInv

LEMMA ServiceInvariant == ServiceSpec => []ServiceInv
<1>1. ServiceInit => ServiceInv
  BY InitService, SchedulerAssumption, ServiceAssumption
<1>2. ServiceInv /\ [ServiceNext]_systemVars => ServiceInv'
  BY NextService, SchedulerAssumption, ServiceAssumption
<1>3. QED
  BY <1>1, <1>2, PTL DEF ServiceSpec

----------------------------------------------------------------------------
(* The theorems.                                                           *)

\* In the composition each owner behaves as in its own module, so that what is
\* proved of the scheduler and of the runtime holds while shutdown_services drives them.
THEOREM OwnersAreThemselves == ServiceSpec => Spec /\ R!Spec
<1>1. ServiceInit => Init /\ R!Init
  BY DEF ServiceInit
<1>2. ServiceInv /\ [ServiceNext]_systemVars => [Next]_vars /\ [R!Next]_(R!vars)
  BY StepsOfOwners DEF ServiceInv
<1>3. QED
  BY <1>1, <1>2, ServiceInvariant, PTL DEF ServiceSpec, Spec, R!Spec

\* A drain that ends within the grace period is followed by closes that find
\* nothing to cancel: no job, no call, no probe (shutdown_services).
THEOREM GraceCancelsNothing == ServiceSpec => []GracefulCancelsNothing
<1>1. ServiceInv => GracefulCancelsNothing
  BY DEF ServiceInv, ShutdownInv
<1>2. QED
  BY <1>1, ServiceInvariant, PTL

\* When the records and contexts are cleared, after a graceful end or a forced one,
\* no job, no call and no probe is left to use them.
THEOREM ClearingIsQuiet == ServiceSpec => []ClearedQuiet
<1>1. ServiceInv => ClearedQuiet
  <2> SUFFICES ASSUME ServiceInv, phase = "cleared" PROVE ClearedQuiet
    BY DEF ClearedQuiet
  <2>1. SchedulerInv /\ RP!RuntimeInv /\ rtPhase = "closed"
    BY DEF ServiceInv, ShutdownInv, PhasesAgree
  <2>2. queue = <<>> /\ Busy = {}
    BY <2>1 DEF SchedulerInv, LifetimeInv, Busy
  <2>3. R!Active(call) = {}
    BY <2>1, SameTerms DEF RP!RuntimeInv, RP!ClosedInv
  <2>4. \A p \in Checkers : ~R!Alive(probe[p])
    BY <2>1, SameTerms, ServiceAssumption
       DEF RP!RuntimeInv, RP!ClosedInv, RP!ProbesInv, RP!OneProbe, ServiceAssumption
  <2>5. QED
    BY <2>2, <2>3, <2>4 DEF ClearedQuiet
<1>2. QED
  BY <1>1, ServiceInvariant, PTL

\* An accepted analysis is lost to the shutdown only when the grace period is over:
\* before that no consumer is cancelled while it runs a job, no queued job is flushed
\* and no job's engine call is refused.
THEOREM GraceInterruptsNobody == ServiceSpec => OnlyDeadlineInterrupts
<1> DEFINE Interrupted ==
               \/ \E w \in cancelled' \ cancelled : worker[w] = "running"
               \/ phase = "flushing" /\ queue # queue'
               \/ \E j \in Jobs : call[j] = "new" /\ call'[j] = "stopped"
<1>1. ASSUME ServiceInv, [ServiceNext]_systemVars, Interrupted PROVE deadline' = "past"
  <2>1. /\ SchedulerInv /\ RP!RuntimeInv /\ PhasesAgree /\ JoinedForGood /\ MetIsDone
        /\ [Next]_vars
    BY <1>1, StepsOfOwners DEF ServiceInv, ShutdownInv
  <2>2. deadline = "met" \/ join = "released" => queue = <<>> /\ Busy = {} /\ phase \notin {"new", "open"}
    BY <2>1, NothingLeft, SchedulerAssumption DEF JoinedForGood, MetIsDone
  <2>3. CASE CloseBoth
    <3>1. /\ phase = "draining" /\ call' = call
          /\ cancelled' = {w \in Workers : worker[w] \in {"waiting", "running"}}
      BY <2>3 DEF CloseBoth, Close, R!CloseBegins, R!callVars
    <3>2. Busy # {}
      BY <1>1, <3>1 DEF Busy
    <3>3. QED
      BY <2>2, <2>3, <3>2 DEF CloseBoth, Drained
  <2>4. CASE ~CloseBoth
    <3>1. cancelled' \subseteq cancelled
      <4>1. [Next]_vars /\ ~Close => cancelled' \subseteq cancelled
        BY DEF Next, CallerStep, Reserve, ReserveRefused, PreparationFails, CancelRequest,
               AbandonedEnds, Submit, SubmitRefused, WorkerStep, DequeueExpired, DequeueStart,
               Settle, Return, Raise, CancelRun, AbsorbCancel, CancelIdle, SweeperStep, SweepBegin,
               RotateExpired, RotateSurvivor, SweepEnd, LifetimeStep, Start, BeginShutdown,
               ConsumersGone, FlushOne, FlushEnd, ClearHistory, Tick, vars, workerVars
      <4>2. [ServiceNext]_systemVars /\ ~CloseBoth => ~Close \/ UNCHANGED cancelled
        BY <2>1 DEF ServiceNext, SchedulerAlone, JobGoesOn, JobCalls, JobCallCancelled, CallsGoOn,
               ChecksGoOn, RuntimeCloses, BeginShutdownOfBoth, DeadlinePasses,
               ClearWhenBothClosed, Tick, CallerStep, Reserve, ReserveRefused, PreparationFails,
               CancelRequest, AbandonedEnds, Submit, SubmitRefused, DequeueExpired, DequeueStart,
               Settle, Return, Raise, CancelRun, AbsorbCancel, CancelIdle, EndRun, SweeperStep,
               SweepBegin, RotateExpired, RotateSurvivor, SweepEnd, Start, BeginShutdown, Close,
               ConsumersGone, FlushOne, FlushEnd, ClearHistory, controlVars, vars, workerVars,
               systemVars
      <4>3. QED
        BY <1>1, <2>1, <2>4, <4>1, <4>2
    <3>2. CASE phase = "flushing" /\ queue # queue'
      <4>1. deadline = "past"
        BY <2>1, <2>2, <3>2, QuietStays DEF PhasesAgree
      <4>2. QED
        BY <1>1, <2>4, <4>1, DeadlineMoves
    <3>3. CASE \E j \in Jobs : call[j] = "new" /\ call'[j] = "stopped"
      <4>1. PICK j \in Jobs : R!CallRefused(j) /\ j \in Owned
        BY <1>1, <2>1, <3>3, RuntimeMoves, ServiceAssumption
      <4>2. rtPhase \notin {"open", "draining"}
        BY <4>1 DEF R!CallRefused, R!MayCall
      <4>3. deadline = "past"
        BY <2>1, <2>2, <4>1, <4>2 DEF PhasesAgree, Owned
      <4>4. QED
        BY <1>1, <2>4, <4>3, DeadlineMoves
    <3>4. QED
      BY <1>1, <3>1, <3>2, <3>3
  <2>5. QED
    BY <2>3, <2>4
<1>2. ServiceInv /\ [ServiceNext]_systemVars => [Interrupted => deadline' = "past"]_systemVars
  BY <1>1
<1>3. QED
  BY <1>2, ServiceInvariant, PTL DEF ServiceSpec, OnlyDeadlineInterrupts

=============================================================================
