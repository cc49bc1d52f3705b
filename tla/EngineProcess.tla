---------------------------- MODULE EngineProcess ----------------------------
(***************************************************************************)
(* The subprocess transport (backend/app/engine.py, SubprocessTransport):  *)
(* every call and every health check starts an engine of its own, talks to *)
(* it over pipes, and must leave neither a child nor a reader behind,      *)
(* whenever it is cancelled and however often.                             *)
(*                                                                         *)
(* A stretch of Python without an await is one step.  The operating system *)
(* and asyncio's child watcher are external: a child that is dead stays a  *)
(* zombie until the watcher has reaped it, and communicate() ends once the *)
(* pipes are drained and the child reaped.                                 *)
(***************************************************************************)
EXTENDS Naturals, FiniteSets

CONSTANTS
    Invocations,    \* calls of _run_engine and _check_engine
    MaxCancels      \* bound: how often one invocation is cancelled

ASSUME ProcessAssumption == MaxCancels \in Nat

VARIABLE process    \* each invocation, its child and the tasks it has made

NewProcess ==
    [check |-> FALSE,         \* _check_engine
     pc |-> "new",            \* where the invocation stands
     startup |-> "none",      \* create_subprocess_exec
     child |-> "none", said |-> "nothing",
     communication |-> "none", readers |-> 0,
     cleanup |-> "none",      \* the task handed to finish_cleanup
     cancels |-> 0,           \* cancellations so far
     outcome |-> "none"]

ProcessInit == process = [i \in Invocations |-> NewProcess]

Reading(i) == [process[i] EXCEPT !.communication = "reading", !.readers = @ + 1]
Becomes(i, state) == process' = [process EXCEPT ![i] = state]
Returns(i, outcome) == Becomes(i, [process[i] EXCEPT !.pc = "returned", !.outcome = outcome])

\* A health check answers "error" where a computation raises.
Failure(i) == IF process[i].check THEN "error" ELSE "failed"

----------------------------------------------------------------------------
(* The operating system.                                                   *)

Forks(i) ==
    /\ process[i].startup = "spawning"
    /\ \/ Becomes(i, [process[i] EXCEPT !.startup = "forked", !.child = "running"])
       \/ Becomes(i, [process[i] EXCEPT !.startup = "failed"])

\* The child is there before the event loop hands over its Process.
HandedOver(i) ==
    /\ process[i].startup = "forked"
    /\ Becomes(i, [process[i] EXCEPT !.startup = "handed"])

\* What the child leaves in its pipes, and how it exits: with a result and code
\* 0, with a structured rejection, with a result but another code, or neither.
ChildExits(i) ==
    /\ process[i].child = "running"
    /\ \E said \in {"result", "rejection", "result and failure", "garbage"} :
          Becomes(i, [process[i] EXCEPT !.child = "zombie", !.said = said])

Reaped(i) ==
    /\ process[i].child = "zombie"
    /\ Becomes(i, [process[i] EXCEPT !.child = "reaped"])

Drained(i) ==
    /\ process[i].communication = "reading" /\ process[i].child = "reaped"
    /\ Becomes(i, [process[i] EXCEPT !.communication = "done", !.readers = 0])

\* A pipe breaks under the reader.
PipeBreaks(i) ==
    /\ process[i].communication = "reading"
    /\ Becomes(i, [process[i] EXCEPT !.communication = "broken", !.readers = @ - 1])

----------------------------------------------------------------------------
(* The invocation.                                                         *)

\* There is no engine, or one is started in a task of its own.
Starts(i) ==
    /\ process[i].pc = "new"
    /\ \/ Returns(i, "failed")
       \/ \E check \in BOOLEAN :
             Becomes(i, [process[i] EXCEPT !.pc = "starting", !.startup = "spawning",
                                           !.check = check])

StartSettles(i) ==
    /\ process[i].pc = "starting"
    /\ \/ /\ process[i].startup = "handed"
          /\ Becomes(i, [Reading(i) EXCEPT !.pc = "talking"])
       \/ process[i].startup = "failed" /\ Returns(i, Failure(i))

\* decode_engine_result: an exit code other than 0 spoils a result, and only a
\* rejection may come with one.  A health check looks at the exit code alone.
Decoded(i) ==
    CASE process[i].said = "result" -> "ok"
      [] process[i].said = "rejection" /\ ~process[i].check -> "rejected"
      [] OTHER -> Failure(i)

Answered(i) ==
    /\ process[i].pc = "talking" /\ process[i].communication = "done"
    /\ Returns(i, Decoded(i))

\* wait_for runs out (25 s, 3 s for a check), or the communication has failed.
GivesUp(i) ==
    /\ process[i].pc = "talking" /\ process[i].communication # "done"
    /\ Becomes(i, [process[i] EXCEPT !.pc = "cleaning", !.cleanup = "killing",
                                     !.outcome = Failure(i)])

\* mutant: a start that is cancelled is left to itself
AbandonStart(i) ==
    /\ process[i].pc = "starting"
    /\ Becomes(i, [process[i] EXCEPT !.pc = "returned", !.cancels = @ + 1,
                                     !.outcome = "cancelled"])

\* The startup task is kept: its child is killed as soon as there is one.
CancelStart(i) ==
    /\ process[i].pc = "starting"
    /\ Becomes(i, [process[i] EXCEPT !.pc = "cleaning", !.cleanup = "awaiting startup",
                                     !.cancels = @ + 1, !.outcome = "cancelled"])

CancelTalk(i) ==
    /\ process[i].pc = "talking"
    /\ Becomes(i, [process[i] EXCEPT !.pc = "cleaning", !.cleanup = "killing",
                                     !.cancels = @ + 1, !.outcome = "cancelled"])

\* finish_cleanup notes a further cancellation and goes on waiting.
CancelAgain(i) ==
    /\ process[i].pc = "cleaning"
    /\ Becomes(i, [process[i] EXCEPT !.cancels = @ + 1, !.outcome = "cancelled"])

Cancelled(i) ==
    /\ process[i].cancels < MaxCancels
    /\ CancelStart(i) \/ CancelTalk(i) \/ CancelAgain(i)

StartupOver(i) ==
    /\ process[i].cleanup = "awaiting startup"
    /\ \/ /\ process[i].startup = "handed"
          /\ Becomes(i, [process[i] EXCEPT !.cleanup = "killing"])
       \/ /\ process[i].startup = "failed"
          /\ Becomes(i, [process[i] EXCEPT !.cleanup = "done"])

\* The reader of the invocation goes on after the kill; one is made only for a
\* child nobody has talked to yet.
DrainsItself(i) == process[i].communication = "none"

\* mutant: the child is left to finish in its own time
DrainOnly(i) ==
    /\ process[i].cleanup = "killing"
    /\ LET next == IF DrainsItself(i) THEN Reading(i) ELSE process[i] IN
       Becomes(i, [next EXCEPT !.cleanup = "draining"])

\* A child may have exited between the look at its return code and the kill.
Kill(i) ==
    /\ process[i].cleanup = "killing"
    /\ LET next == IF DrainsItself(i) THEN Reading(i) ELSE process[i] IN
       Becomes(i, [next EXCEPT !.cleanup = "draining",
                               !.child = IF @ = "running" THEN "zombie" ELSE @,
                               !.said = IF @ = "nothing" THEN "garbage" ELSE @])

\* The communication's own end, good or bad, and then wait().
CleanupOver(i) ==
    /\ process[i].cleanup = "draining"
    /\ process[i].communication \in {"done", "broken"} /\ process[i].child = "reaped"
    /\ Becomes(i, [process[i] EXCEPT !.cleanup = "done"])

CleanedUp(i) ==
    /\ process[i].pc = "cleaning" /\ process[i].cleanup = "done"
    /\ Returns(i, process[i].outcome)

ProcessStep(i) ==
    \/ Forks(i) \/ HandedOver(i) \/ Reaped(i) \/ Drained(i)
    \/ StartSettles(i) \/ Answered(i) \/ GivesUp(i)
    \/ StartupOver(i) \/ Kill(i) \/ CleanupOver(i) \/ CleanedUp(i)

ProcessNext ==
    \E i \in Invocations : \/ Starts(i) \/ ProcessStep(i)
                           \/ ChildExits(i) \/ PipeBreaks(i) \/ Cancelled(i)

\* The loop, the watcher and the timers go on; a child need not ever finish by
\* itself, and nobody has to cancel.
ProcessFairness == \A i \in Invocations : WF_process(ProcessStep(i))

----------------------------------------------------------------------------
(* Properties.                                                             *)

\* An invocation that has returned or raised leaves no child behind, alive or
\* zombie, and none to be born, however often it was cancelled and when.
NoOrphan ==
    \A i \in Invocations : process[i].pc = "returned" =>
        /\ process[i].child \in {"none", "reaped"}
        /\ process[i].startup \in {"none", "handed", "failed"}

\* The pipes of a child never have two readers, which would share its output.
OneReader == \A i \in Invocations : process[i].readers <= 1

\* Both together: a child and its pipes have one owner until they are gone.
ProcessesOwned == NoOrphan /\ OneReader

\* An invocation ends, although its child hangs and its cleanup is cancelled again.
InvocationEnds == \A i \in Invocations : process[i].pc # "new" ~> process[i].pc = "returned"
=============================================================================
