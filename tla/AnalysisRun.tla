----------------------------- MODULE AnalysisRun -----------------------------
(***************************************************************************)
(* One analysis with its stages (backend/app/main.py, _run_analysis), the  *)
(* endpoints that read its record while it runs (get_analysis and          *)
(* _service_coverage), and the browser that polls it by revision           *)
(* (frontend/src/cppAnalysisClient.js, requestCppMapAnalysis).             *)
(*                                                                         *)
(* A stage ends at an await.  A report is a Python object that several     *)
(* readers may hold while it is changed in place: `result` names the       *)
(* object, `content` says what is in it.  Geometry and facilities          *)
(* themselves are left out.                                                *)
(***************************************************************************)
EXTENDS Integers, FiniteSets

CONSTANTS
    CoverageRequests,  \* invocations of _service_coverage
    Nobody             \* no request holds the coverage gate

ASSUME RunAssumption == Nobody \notin CoverageRequests

VARIABLES
    wants,      \* include_pois and a center: a POI stage follows the geometry
    stage,      \* the await at which _run_analysis stands
    status,     \* AnalysisState.status
    poiStatus,  \* AnalysisState.poiStatus; "ready" stands for every verdict
    revision,   \* AnalysisState.resultRevision
    result,     \* AnalysisState.result: the first or second report, 0 if None
    content,    \* what each report object holds
    stored,     \* the record is in the API store
    context,    \* the report in the POI route context, 0 if there is none
    published,  \* what each revision was when it was published
    client,     \* the polling browser
    coverage,   \* each request for coverage
    gate,       \* who holds _coverage_gate
    cached      \* _coverage_cache, by revision

recordVars == <<status, poiStatus, revision, result, content, context, published>>
runVars    == <<wants, stage, recordVars>>
readerVars == <<client, coverage, gate, cached>>
vars == <<runVars, stored, readerVars>>

Contents == {"none", "geometry", "pending", "pois", "error"}
Final == {"completed", "failed"}
Revisions == 1..2

\* What the browser has got: an answer not read yet, and what it shows.
NoAnswer == [status |-> "none", revision |-> 0, report |-> "none"]
Answers == [status : {"none", "queued", "running"} \cup Final,
            revision : 0..2, report : Contents]

TypeOK ==
    /\ wants \in BOOLEAN
    /\ stage \in {"queued", "geometry", "yield", "pois", "times", "zones", "over"}
    /\ status \in {"queued", "running"} \cup Final
    /\ poiStatus \in {"not_requested", "pending", "ready", "error"}
    /\ revision \in 0..2
    /\ result \in 0..2
    /\ content \in [Revisions -> Contents]
    /\ stored \in BOOLEAN
    /\ context \in 0..2
    /\ published \in [Revisions -> Contents]
    /\ client \in [at : {"idle", "asking", "answered", "returned", "threw"},
                   answer : Answers, revision : 0..2, shows : Contents]
    /\ coverage \in [CoverageRequests ->
                        [at : {"new", "refused", "waiting", "collecting", "served", "failed"},
                         report : 0..2, revision : 0..2, found : Contents]]
    /\ gate \in CoverageRequests \cup {Nobody}
    /\ cached \in [Revisions -> Contents]

Init ==
    /\ wants \in BOOLEAN
    /\ stage = "queued" /\ status = "queued" /\ poiStatus = "not_requested"
    /\ revision = 0 /\ result = 0
    /\ content = [i \in Revisions |-> "none"]
    /\ stored = TRUE
    /\ context = 0
    /\ published = [i \in Revisions |-> "none"]
    /\ client = [at |-> "idle", answer |-> NoAnswer, revision |-> 0, shows |-> "none"]
    /\ coverage = [c \in CoverageRequests |->
                      [at |-> "new", report |-> 0, revision |-> 0, found |-> "none"]]
    /\ gate = Nobody
    /\ cached = [i \in Revisions |-> "none"]

----------------------------------------------------------------------------
(* _run_analysis.                                                          *)

\* publish(): a new report object and the next revision.
Publish(what) ==
    /\ result' = result + 1
    /\ content' = [content EXCEPT ![result + 1] = what]
    /\ revision' = revision + 1
    /\ published' = [published EXCEPT ![revision + 1] = what]

\* mutant: a failed POI stage is written into the report only
PublishErrorQuietly(what) ==
    /\ content' = [content EXCEPT ![result] = what]
    /\ UNCHANGED <<result, revision, published>>

\* add_poi_result(analysis.result, ...): the report is changed in place.
PublishError(what) ==
    /\ content' = [content EXCEPT ![result] = what]
    /\ revision' = revision + 1
    /\ published' = [published EXCEPT ![revision + 1] = what]
    /\ UNCHANGED result

\* mutant: the context is that of the first publication
RememberFirst == context' = 1

\* _poi_routes.remember(..., analysis.result)
RememberResult == context' = result'

Begin ==
    /\ stage = "queued"
    /\ stage' = "geometry"
    /\ status' = "running"
    /\ UNCHANGED <<wants, poiStatus, revision, result, content, context, published,
                   stored, readerVars>>

\* The engine's first answer is published before any online work.
GeometryReady ==
    /\ stage = "geometry"
    /\ Publish(IF wants THEN "pending" ELSE "geometry")
    /\ IF wants
       THEN /\ poiStatus' = "pending"
            /\ stage' = "yield"
            /\ UNCHANGED <<status, context>>
       ELSE /\ status' = "completed"
            /\ RememberResult
            /\ stage' = "over"
            /\ UNCHANGED poiStatus
    /\ UNCHANGED <<wants, stored, readerVars>>

GeometryFails ==
    /\ stage = "geometry"
    /\ status' = "failed"
    /\ stage' = "over"
    /\ UNCHANGED <<wants, poiStatus, revision, result, content, context, published,
                   stored, readerVars>>

\* The stretch before enrich_engine_pois, then the one before the second call
\* of the engine, either for facility times or for complete zones.
StageMoves ==
    /\ \/ stage = "yield" /\ stage' = "pois"
       \/ stage = "pois" /\ stage' \in {"times", "zones"}
    /\ UNCHANGED <<wants, recordVars, stored, readerVars>>

\* The finally clause after a POI stage that has ended in one way or the other.
Completes ==
    /\ RememberResult
    /\ status' = "completed"
    /\ stage' = "over"
    /\ UNCHANGED <<wants, stored, readerVars>>

\* Unreviewed inventories without new facilities need no second call.
PoisReady ==
    /\ stage \in {"pois", "times", "zones"}
    /\ poiStatus' = "ready"
    /\ Publish("pois")
    /\ Completes

PoisFail ==
    /\ stage \in {"pois", "times", "zones"}
    /\ poiStatus' = "error"
    /\ PublishError("error")
    /\ Completes

\* A cancellation, or an exception nobody expected, reaches the scheduler, which
\* writes "failed" over what the finally clause has left in the same stretch.  It
\* writes the same for a job that it never starts.
RunBreaks ==
    /\ stage # "over"
    /\ status' = "failed"
    /\ stage' = "over"
    /\ UNCHANGED <<wants, poiStatus, revision, result, content, published, stored, readerVars>>
    /\ IF stage \in {"pois", "times", "zones"} THEN RememberResult ELSE UNCHANGED context

\* Retention drops a finished record with its context, the bounded store a
\* context alone.
Dropped ==
    /\ status \in Final
    /\ stored' = FALSE /\ context' = 0
    /\ UNCHANGED <<wants, stage, status, poiStatus, revision, result, content,
                   published, readerVars>>

ContextEvicted ==
    /\ context # 0
    /\ context' = 0
    /\ UNCHANGED <<wants, stage, status, poiStatus, revision, result, content,
                   published, stored, readerVars>>

----------------------------------------------------------------------------
(* GET and the browser.                                                    *)

Client(fields) ==
    /\ client' = fields
    /\ UNCHANGED <<runVars, stored, coverage, gate, cached>>

Poll == client.at = "idle" /\ Client([client EXCEPT !.at = "asking"])

\* A result the client says it has is left out; the first poll sends no
\* revision.
Omitted == client.revision > 0 /\ revision <= client.revision

GetAnalysis ==
    /\ client.at = "asking"
    /\ IF stored
       THEN Client([client EXCEPT
              !.at = "answered",
              !.answer = [status |-> status, revision |-> revision,
                          report |-> IF Omitted \/ result = 0 THEN "none" ELSE content[result]]])
       ELSE Client([client EXCEPT !.at = "threw"])

\* The answer is shown if it has a report of another revision; a final status
\* ends the loop.
AnswerRead ==
    /\ client.at = "answered"
    /\ LET a == client.answer
           shown == IF a.report # "none" /\ a.revision # client.revision
                    THEN [client EXCEPT !.revision = a.revision, !.shows = a.report]
                    ELSE client
           next == CASE a.status = "failed" -> "threw"
                     [] a.status = "completed" ->
                          IF shown.shows = "none" THEN "threw" ELSE "returned"
                     [] OTHER -> "idle"
       IN Client([shown EXCEPT !.at = next, !.answer = NoAnswer])

\* The user gives up, a request fails, or the deadline of a minute passes.
ClientGivesUp ==
    /\ client.at \in {"idle", "asking", "answered"}
    /\ Client([client EXCEPT !.at = "threw", !.answer = NoAnswer])

----------------------------------------------------------------------------
(* _service_coverage.                                                      *)

Coverage(c, now, holder) ==
    /\ coverage' = [coverage EXCEPT ![c] = now]
    /\ gate' = holder
    /\ UNCHANGED <<runVars, stored, client>>

\* mutant: any published report will do
ReportOfRevision(rev) == stored /\ result # 0 /\ revision = rev

\* The record is there, finished, and of the revision asked for.
ReportFinal(rev) == stored /\ result # 0 /\ status = "completed" /\ revision = rev

CoverageRefused(c, rev) ==
    /\ coverage[c].at = "new"
    /\ ~ReportFinal(rev)
    /\ Coverage(c, [coverage[c] EXCEPT !.at = "refused"], gate)
    /\ UNCHANGED cached

\* The report is captured before the gate, and kept whatever happens to the
\* record while the request waits.
CoverageAsked(c, rev) ==
    /\ coverage[c].at = "new"
    /\ ReportFinal(rev)
    /\ Coverage(c, [coverage[c] EXCEPT !.at = "waiting", !.report = result, !.revision = rev], gate)
    /\ UNCHANGED cached

\* Behind the gate: a cached value unless an online answer is asked for.
CoverageHit(c) ==
    /\ coverage[c].at = "waiting" /\ gate = Nobody
    /\ cached[coverage[c].revision] # "none"
    /\ Coverage(c, [coverage[c] EXCEPT !.at = "served", !.found = cached[coverage[c].revision]], gate)
    /\ UNCHANGED cached

\* collect_service_coverage takes the geometry out of the report before its
\* first await, and works with that from then on.
CoverageBegins(c) ==
    /\ coverage[c].at = "waiting" /\ gate = Nobody
    /\ Coverage(c, [coverage[c] EXCEPT !.at = "collecting", !.found = content[coverage[c].report]], c)
    /\ UNCHANGED cached

CoverageEnds(c) ==
    /\ coverage[c].at = "collecting"
    /\ Coverage(c, [coverage[c] EXCEPT !.at = "served"], Nobody)
    /\ cached' = [cached EXCEPT ![coverage[c].revision] = coverage[c].found]

CoverageFails(c) ==
    /\ coverage[c].at \in {"waiting", "collecting"}
    /\ Coverage(c, [coverage[c] EXCEPT !.at = "failed"], IF gate = c THEN Nobody ELSE gate)
    /\ UNCHANGED cached

\* The bounded cache drops its oldest entries.
CacheEvicts(rev) ==
    /\ cached[rev] # "none"
    /\ cached' = [cached EXCEPT ![rev] = "none"]
    /\ UNCHANGED <<runVars, stored, client, coverage, gate>>

----------------------------------------------------------------------------
RunStep ==
    \/ Begin \/ GeometryReady \/ GeometryFails \/ StageMoves
    \/ PoisReady \/ PoisFail \/ RunBreaks

RecordStep == Dropped \/ ContextEvicted

ClientStep == Poll \/ GetAnalysis \/ AnswerRead \/ ClientGivesUp

CoverageStep(c) ==
    \/ \E rev \in Revisions : CoverageAsked(c, rev) \/ CoverageRefused(c, rev)
    \/ CoverageHit(c) \/ CoverageBegins(c) \/ CoverageEnds(c) \/ CoverageFails(c)

Next ==
    \/ RunStep \/ RecordStep \/ ClientStep
    \/ \E c \in CoverageRequests : CoverageStep(c)
    \/ \E rev \in Revisions : CacheEvicts(rev)

Spec == Init /\ [][Next]_vars

----------------------------------------------------------------------------
(* Properties.                                                             *)

\* The browser always shows one revision as it was published, and returns only
\* with the last one: the poll that sees "completed" has seen every publication.
LastRevisionShown ==
    /\ client.revision > 0 => client.shows = published[client.revision]
    /\ client.at = "returned" => client.revision = revision

\* A completed analysis has settled its POI stage, and the routes offered for
\* it are planned in its last report.
CompletedSettled ==
    status = "completed" =>
        /\ wants => poiStatus # "pending" /\ revision = 2
        /\ context # 0 => context = result /\ content[context] = published[revision]

\* The records of an analysis are sound.
RecordSettled == TypeOK /\ CompletedSettled

\* Coverage is computed from, cached for and served for the revision it names,
\* although the report was captured before waiting and reports can change.
CoverageOfRevision ==
    /\ \A rev \in Revisions : cached[rev] \in {"none", published[rev]}
    /\ \A c \in CoverageRequests :
          coverage[c].at = "served" => coverage[c].found = published[coverage[c].revision]
=============================================================================
