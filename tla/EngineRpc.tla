------------------------------ MODULE EngineRpc ------------------------------
(***************************************************************************)
(* The gRPC transport and the compute service behind it, with the fixed    *)
(* graph that both sides load from one exported artifact.                  *)
(*                                                                         *)
(*   backend/app/engine_rpc.py       the client of one application         *)
(*   backend/app/fixed_graph.py      artifact and companion, prepared once *)
(*   cpp-engine/rpc                  the service, modelled from how        *)
(*                                   RunComputeCall and ComputeGate work   *)
(*                                                                         *)
(* The service is a process of its own: it is restarted, drained and       *)
(* killed without the application, and goes on computing for a client that *)
(* has given up.  A graph stands for the bytes of its artifact; its id is  *)
(* their digest.                                                           *)
(***************************************************************************)
EXTENDS Naturals, FiniteSets

CONSTANTS
    RpcCalls,       \* calls of run_engine; each is handled at most once
    Graphs,
    None,           \* no graph, no file
    Torn,           \* a file whose write was cut
    GateCapacity,   \* --compute-capacity
    MaxExports,     \* bound: runs of the exporter
    MaxServices,    \* bound: starts of the service
    MaxApps         \* bound: starts of the application

ASSUME RpcAssumption ==
    /\ None \notin Graphs /\ Torn \notin Graphs /\ None # Torn
    /\ GateCapacity \in Nat \ {0}

VARIABLES
    artifact, companion,  \* the files both sides are configured with
    exporter,             \* what export_graph_snapshot.py is writing
    exports,
    service,    \* phase, the loaded graph, the gate's count
    handler,    \* the handler of each call
    app,        \* the application: its configured id and what it has prepared
    rpc,        \* each call of run_engine
    boots       \* starts of the service and of the application

fileVars == <<artifact, companion, exporter, exports>>
rpcVars  == <<fileVars, service, handler, app, rpc, boots>>

NoService == [phase |-> "off", loaded |-> None, active |-> 0]
NoHandler == [pc |-> "gone", seen |-> 0, permit |-> FALSE, ok |-> FALSE, graph |-> None]
NoApp == [phase |-> "down", wanted |-> None, network |-> None, defaults |-> None]
NewRpc == [pc |-> "new", graph |-> None, prepared |-> {}, outcome |-> "none", answer |-> None]

RpcInit ==
    /\ artifact \in Graphs \cup {None} /\ companion = artifact
    /\ exporter = None /\ exports = 0
    /\ service = NoService /\ app = NoApp
    /\ handler = [c \in RpcCalls |-> NoHandler]
    /\ rpc = [c \in RpcCalls |-> NewRpc]
    /\ boots = [service |-> 0, app |-> 0]

----------------------------------------------------------------------------
(* export_graph_snapshot.py: two new files, one after the other.           *)

\* Nothing here overwrites a file; an operator makes room for a new pair.
Discard ==
    /\ exporter = None /\ <<artifact, companion>> # <<None, None>>
    /\ artifact' = None /\ companion' = None
    /\ UNCHANGED <<exporter, exports, service, handler, app, rpc, boots>>

ExportArtifact ==
    /\ exporter = None /\ exports < MaxExports
    /\ artifact = None /\ companion = None
    /\ \E g \in Graphs : artifact' \in {g, Torn} /\ exporter' = g
    /\ exports' = exports + 1
    /\ UNCHANGED <<companion, service, handler, app, rpc, boots>>

\* The second write, unless the first was cut.  One that is cut is as good as none.
ExportCompanion ==
    /\ exporter # None
    /\ companion' \in {None} \cup (IF artifact = Torn THEN {} ELSE {exporter})
    /\ exporter' = None
    /\ UNCHANGED <<artifact, exports, service, handler, app, rpc, boots>>

----------------------------------------------------------------------------
(* The lifetimes of the service and of the application.                    *)

ServiceVars == <<fileVars, app, rpc>>

\* Without --graph-artifact, or with an artifact whose digest is --graph-id.
ServiceStarts ==
    /\ service.phase = "off" /\ boots.service < MaxServices
    /\ \E g \in {None, artifact} \ {Torn} :
          service' = [NoService EXCEPT !.phase = "up", !.loaded = g]
    /\ boots' = [boots EXCEPT !.service = @ + 1]
    /\ UNCHANGED <<handler, ServiceVars>>

\* SIGTERM: BeginDrain, then Shutdown cancels what outlasts the grace period.
ServiceDrains ==
    /\ service.phase \in {"up", "draining"}
    /\ service' = [service EXCEPT !.phase = IF @ = "up" THEN "draining" ELSE "cutting"]
    /\ UNCHANGED <<handler, boots, ServiceVars>>

\* The process ends after its last handler, or is killed with all of them.
ServiceEnds ==
    /\ service.phase # "off"
    /\ service' = NoService
    /\ handler' = [c \in RpcCalls |-> NoHandler]
    /\ UNCHANGED <<boots, ServiceVars>>

AppVars == <<fileVars, service, handler, rpc>>

AppStarts ==
    /\ app.phase = "down" /\ boots.app < MaxApps
    /\ \E g \in Graphs \cup {None} :
          app' = [NoApp EXCEPT !.phase = IF g = None THEN "up" ELSE "artifact", !.wanted = g]
    /\ boots' = [boots EXCEPT !.app = @ + 1]
    /\ UNCHANGED AppVars

\* mutant: the artifact's digest is not compared with the configured id
Readable == artifact \in Graphs

\* _read_document: the configured id is the digest of what has been read.
DigestMatches == artifact = app.wanted

AppReadsArtifact ==
    /\ app.phase = "artifact"
    /\ app' = IF DigestMatches THEN [app EXCEPT !.phase = "companion", !.network = artifact]
                               ELSE NoApp
    /\ UNCHANGED <<boots, AppVars>>

\* _make_context: the companion names the graph it belongs to.
AppReadsCompanion ==
    /\ app.phase = "companion"
    /\ app' = IF companion = app.wanted THEN [app EXCEPT !.phase = "health", !.defaults = companion]
                                        ELSE NoApp
    /\ UNCHANGED <<boots, AppVars>>

\* The service must report the same graph before the first request is taken.
AppChecksHealth ==
    /\ app.phase = "health"
    /\ app' = IF service.phase = "up" /\ service.loaded = app.wanted
              THEN [app EXCEPT !.phase = "up"] ELSE NoApp
    /\ UNCHANGED <<boots, AppVars>>

InFlight(c) == rpc[c].pc = "sent"

\* Shutdown has settled every local call before.
AppStops ==
    /\ app.phase = "up" /\ \A c \in RpcCalls : ~InFlight(c)
    /\ app' = NoApp
    /\ UNCHANGED <<boots, AppVars>>

----------------------------------------------------------------------------
(* GrpcTransport.run_engine and _invoke.                                   *)

ClientVars == <<fileVars, service, app, boots>>

Fails(c) == rpc' = [rpc EXCEPT ![c] = [NewRpc EXCEPT !.pc = "over", !.outcome = "failed"]]

\* A request of the fixed region names its graph; any other one brings its own.
\* Without a service, or one that no longer listens, the call is refused.
Send(c) ==
    /\ app.phase = "up" /\ rpc[c].pc = "new"
    /\ \E g \in {None, app.wanted} :
          rpc' = [rpc EXCEPT ![c] = [NewRpc EXCEPT !.pc = "sent", !.graph = g,
                      !.prepared = IF g = None THEN {} ELSE {app.network, app.defaults}]]
    /\ handler' = IF service.phase \in {"up", "draining"}
                  THEN [handler EXCEPT ![c] = [NoHandler EXCEPT !.pc = "admission", !.graph = rpc'[c].graph]] ELSE handler
    /\ UNCHANGED ClientVars

\* The reply carries the id of the graph it was computed on, which is compared
\* with the one asked for; a reply to a full input carries none.
Accepted(c) == rpc[c].graph \in {None, handler[c].graph}

Reply(c) ==
    /\ InFlight(c) /\ handler[c].pc = "replied"
    /\ IF handler[c].ok /\ Accepted(c)
       THEN rpc' = [rpc EXCEPT ![c].pc = "over", ![c].outcome = "ok",
                               ![c].answer = handler[c].graph]
       ELSE Fails(c)
    /\ handler' = [handler EXCEPT ![c] = NoHandler]
    /\ UNCHANGED ClientVars

\* The connection breaks, the deadline passes, or the caller is cancelled; a
\* handler, if there is one, has yet to notice.
GiveUp(c) ==
    /\ InFlight(c) /\ Fails(c)
    /\ UNCHANGED <<handler, ClientVars>>

----------------------------------------------------------------------------
(* RunComputeCall, in the handler's thread.                                *)

HandlerVars == <<fileVars, app, rpc, boots>>

\* A stop is seen sooner or later, if the client has gone or the grace is over.
Stoppable(c) == ~InFlight(c) \/ service.phase = "cutting"

\* The handler is over, with a result or with a status that says why not; its
\* permit goes with it.
Ends(c, ok) ==
    /\ handler' = [handler EXCEPT ![c] = IF InFlight(c) THEN
           [NoHandler EXCEPT !.pc = "replied", !.ok = ok, !.graph = handler[c].graph]
           ELSE NoHandler]
    /\ service' = IF handler[c].permit THEN [service EXCEPT !.active = @ - 1] ELSE service
    /\ UNCHANGED HandlerVars

Refuses(c) == Ends(c, FALSE)

Goes(c, state) ==
    /\ handler' = [handler EXCEPT ![c] = state]
    /\ UNCHANGED <<service, HandlerVars>>

\* AdmissionStatus.
Stopped(c) == Stoppable(c) /\ Refuses(c)
Draining(c) == service.phase # "up" /\ Refuses(c)
Admits(c, next) == service.phase = "up" /\ Goes(c, [handler[c] EXCEPT !.pc = next])

Admission(c) ==
    /\ handler[c].pc = "admission"
    /\ Stopped(c) \/ Draining(c) \/ Admits(c, "load")

LoadCount(c) ==
    /\ handler[c].pc = "load"
    /\ Goes(c, [handler[c] EXCEPT !.pc = "acquire", !.seen = service.active])

\* mutant: a failed exchange is repeated without looking at the capacity again
RoomAtFirst(c) == handler[c].seen < GateCapacity \/ service.active = handler[c].seen

\* The condition of the loop, on the count as the last exchange left it.
Room(c) == handler[c].seen < GateCapacity

\* compare_exchange_weak takes a permit, or fails, perhaps for no reason, and
\* brings the count up to date.
Acquire(c) ==
    /\ handler[c].pc = "acquire"
    /\ \/ ~Room(c) /\ Refuses(c)
       \/ /\ Room(c) /\ service.active = handler[c].seen
          /\ service' = [service EXCEPT !.active = @ + 1]
          /\ handler' = [handler EXCEPT ![c].pc = "recheck", ![c].permit = TRUE, ![c].seen = 0]
          /\ UNCHANGED HandlerVars
       \/ Room(c) /\ Goes(c, [handler[c] EXCEPT !.seen = service.active])

\* Drain and cancellation may have come between the first look and the gate.
Recheck(c) ==
    /\ handler[c].pc = "recheck"
    /\ Stopped(c) \/ Draining(c) \/ Admits(c, "working")

\* FixedGraphStore::require: only the graph asked for, if one is loaded at all.
Requires(c) == service.loaded = handler[c].graph

\* The computation on the snapshot, whose id goes into the reply, or on the graph
\* that the request brought.
Computes(c) ==
    /\ handler[c].pc = "working"
    /\ \/ Stopped(c)
       \/ handler[c].graph # None /\ ~Requires(c) /\ Refuses(c)
       \/ /\ handler[c].graph # None /\ Requires(c)
          /\ Goes(c, [handler[c] EXCEPT !.pc = "reply", !.graph = service.loaded])
       \/ handler[c].graph = None /\ Goes(c, [handler[c] EXCEPT !.pc = "reply"])

\* SetReply; the permit goes when the reply has been prepared.
Replies(c) ==
    /\ handler[c].pc = "reply"
    /\ Stopped(c) \/ Refuses(c) \/ Ends(c, TRUE)

HandlerStep(c) ==
    Admission(c) \/ LoadCount(c) \/ Acquire(c) \/ Recheck(c) \/ Computes(c) \/ Replies(c)

RpcNext ==
    \/ Discard \/ ExportArtifact \/ ExportCompanion
    \/ ServiceStarts \/ ServiceDrains \/ ServiceEnds
    \/ AppStarts \/ AppReadsArtifact \/ AppReadsCompanion \/ AppChecksHealth \/ AppStops
    \/ \E c \in RpcCalls : Send(c) \/ Reply(c) \/ GiveUp(c) \/ HandlerStep(c)

----------------------------------------------------------------------------
(* Properties.                                                             *)

\* No more handlers compute than the gate has room for, and the gate counts
\* exactly those: none it refused, or that drain or a departed client turned away
\* behind it, keeps a place.
GateExact ==
    LET holding == {c \in RpcCalls : handler[c].permit} IN
    service.active = Cardinality(holding) /\ Cardinality(holding) <= GateCapacity

\* A result for the fixed region was computed on the graph that its request was
\* prepared on and that its defaults belong to, although files, service and
\* application are replaced at any time.
AnswersPrepared ==
    \A c \in RpcCalls : rpc[c].outcome = "ok" /\ rpc[c].graph # None
                           => rpc[c].prepared = {rpc[c].answer}
=============================================================================
