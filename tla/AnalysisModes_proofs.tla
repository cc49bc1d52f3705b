-------------------------- MODULE AnalysisModes_proofs --------------------------
(***************************************************************************)
(* Theorems about the analyses of the product: one analysis and those who  *)
(* read it while it runs, the browser that polls it by revision and the    *)
(* requests for coverage; and the sampled analyses, one of which works at  *)
(* a time through its stages and shows places, zones and a boundary.       *)
(***************************************************************************)
EXTENDS AnalysisModes, Recursions_proofs

\* What each stage of _run_analysis has published: nothing, the geometry, or in
\* the end also the facilities.  Every published revision has a content, and the
\* current report holds that of the last one.
StageInv ==
    /\ stage = "over" <=> status \in Final
    /\ stage \in {"queued", "geometry"} => revision = 0 /\ result = 0
    /\ stage \in {"yield", "pois", "times", "zones"} => wants /\ revision = 1 /\ result = 1
    /\ stage # "over" => context = 0
    /\ status = "completed" =>
          /\ result # 0 /\ revision = IF wants THEN 2 ELSE 1
          /\ wants => poiStatus # "pending"
          /\ context \in {0, result}
    /\ result = 0 <=> revision = 0
    /\ result # 0 => content[result] = published[revision]
    /\ \A rev \in Revisions : rev <= revision => published[rev] # "none"

\* An answer on its way to the browser: of a revision that has been published, and
\* a completed one leaves the report out only if the browser has it.
AnswerHolds ==
    LET a == client.answer IN
    /\ a.revision <= revision
    /\ a.report # "none" => a.revision > 0 /\ a.report = published[a.revision]
    /\ a.status = "completed" =>
          /\ status = "completed" /\ a.revision = revision
          /\ a.report = "none" => client.revision = a.revision

ClientInv ==
    /\ client.revision <= revision
    /\ client.revision > 0 => client.shows = published[client.revision]
    /\ client.at = "answered" => AnswerHolds
    /\ client.at = "returned" => client.revision = revision /\ status = "completed"

\* Whoever has a report of a completed analysis has its last one, which no longer
\* changes.
CoverageInv ==
    /\ \A rev \in Revisions :
          cached[rev] # "none" => status = "completed" /\ cached[rev] = published[rev]
    /\ \A c \in CoverageRequests :
          coverage[c].at \in {"waiting", "collecting", "served"} =>
              /\ status = "completed"
              /\ coverage[c].revision = revision /\ coverage[c].report = result
              /\ coverage[c].at # "waiting" => coverage[c].found = published[revision]

RunInv == TypeOK /\ StageInv /\ ClientInv /\ CoverageInv

----------------------------------------------------------------------------
(* The analysis.                                                           *)

\* While an analysis is not completed nobody waits for its coverage, and no answer
\* says it is: further publications disturb no reader.
LEMMA ReadersUndisturbed ==
    ASSUME RunInv, status # "completed", UNCHANGED readerVars,
           revision' \in 0..2, revision' >= revision,
           \A rev \in 1..revision : published'[rev] = published[rev]
    PROVE  ClientInv' /\ CoverageInv'
<1>1. TypeOK /\ ClientInv /\ CoverageInv /\ UNCHANGED <<client, coverage, gate, cached>>
  BY DEF RunInv, readerVars
<1>2. client.revision \in 0..2 /\ client.answer.revision \in 0..2 /\ revision \in 0..2
  BY <1>1 DEF TypeOK, Answers
<1>3. ClientInv'
  <2>1. client.revision <= revision' /\ (client.revision > 0 => client.shows = published'[client.revision])
    BY <1>1, <1>2 DEF ClientInv
  <2>2. client.at # "returned"
    BY <1>1 DEF ClientInv
  <2>3. ASSUME client.at = "answered"
        PROVE  LET a == client.answer IN
               /\ a.revision <= revision' /\ a.status # "completed"
               /\ a.report # "none" => a.revision > 0 /\ a.report = published'[a.revision]
    BY <1>1, <1>2, <2>3 DEF ClientInv, AnswerHolds
  <2> QED  BY <1>1, <2>1, <2>2, <2>3 DEF ClientInv, AnswerHolds
<1>4. CoverageInv'
  BY <1>1 DEF CoverageInv
<1> QED  BY <1>3, <1>4

LEMMA BeginKeeps == ASSUME RunInv, Begin PROVE RunInv'
<1>1. /\ stage = "queued" /\ stage' = "geometry" /\ status' = "running"
      /\ UNCHANGED <<wants, poiStatus, revision, result, content, context, published, stored, readerVars>>
  BY DEF Begin
<1>2. TypeOK /\ StageInv
  BY DEF RunInv
<1>3. TypeOK'
  BY <1>1, <1>2 DEF TypeOK, readerVars
<1>4. StageInv'
  BY <1>1, <1>2 DEF StageInv, Final
<1>5. ClientInv' /\ CoverageInv'
  <2>1. status # "completed" /\ revision' \in 0..2 /\ revision' >= revision
    BY <1>1, <1>2 DEF StageInv, Final, TypeOK
  <2> QED  BY <1>1, <2>1, ReadersUndisturbed
<1> QED  BY <1>3, <1>4, <1>5 DEF RunInv

\* A publication: the next revision, of the object that now is the result.
LEMMA Published ==
    ASSUME RunInv, NEW what \in Contents \ {"none"}, revision \in 0..1, result \in 0..1,
           Publish(what)
    PROVE  /\ result' = result + 1 /\ revision' = revision + 1
           /\ content' \in [Revisions -> Contents] /\ published' \in [Revisions -> Contents]
           /\ content'[result'] = what /\ published'[revision'] = what
           /\ \A rev \in 1..revision : published'[rev] = published[rev]
           /\ \A rev \in Revisions : rev <= revision' => published'[rev] # "none"
<1>1. /\ content \in [Revisions -> Contents] /\ published \in [Revisions -> Contents]
      /\ \A rev \in Revisions : rev <= revision => published[rev] # "none"
  BY DEF RunInv, TypeOK, StageInv
<1>2. /\ result' = result + 1 /\ content' = [content EXCEPT ![result + 1] = what]
      /\ revision' = revision + 1 /\ published' = [published EXCEPT ![revision + 1] = what]
  BY DEF Publish
<1>3. result + 1 \in Revisions /\ revision + 1 \in Revisions
  BY DEF Revisions
<1>4. \A rev \in Revisions : rev <= revision + 1 => rev <= revision \/ rev = revision + 1
  BY DEF Revisions
<1>5. \A rev \in 1..revision : rev \in Revisions /\ rev # revision + 1
  BY DEF Revisions
<1> QED  BY <1>1, <1>2, <1>3, <1>4, <1>5

LEMMA GeometryReadyKeeps == ASSUME RunInv, GeometryReady PROVE RunInv'
<1>1. TypeOK /\ StageInv
  BY DEF RunInv
<1>2. stage = "geometry" /\ revision = 0 /\ result = 0 /\ context = 0 /\ status # "completed"
      /\ UNCHANGED <<wants, stored, readerVars>>
  BY <1>1 DEF GeometryReady, StageInv, Final
<1>3. PICK what \in Contents \ {"none"} : Publish(what)
  BY DEF GeometryReady, Contents
<1>4. /\ result' = 1 /\ revision' = 1 /\ content' \in [Revisions -> Contents]
      /\ published' \in [Revisions -> Contents] /\ content'[result'] = published'[revision']
      /\ \A rev \in Revisions : rev <= revision' => published'[rev] # "none"
      /\ \A rev \in 1..revision : published'[rev] = published[rev]
  BY <1>2, <1>3, Published
<1>5. \/ wants /\ poiStatus' = "pending" /\ stage' = "yield" /\ UNCHANGED <<status, context>>
      \/ ~wants /\ status' = "completed" /\ context' = result' /\ stage' = "over" /\ UNCHANGED poiStatus
  BY <1>1 DEF GeometryReady, RememberResult, TypeOK
<1>6. TypeOK'
  BY <1>1, <1>2, <1>4, <1>5 DEF TypeOK, readerVars, Final
<1>7. StageInv'
  BY <1>1, <1>2, <1>4, <1>5 DEF StageInv, Final
<1>8. ClientInv' /\ CoverageInv'
  BY <1>2, <1>4, ReadersUndisturbed
<1> QED  BY <1>6, <1>7, <1>8 DEF RunInv

\* The analysis ends or goes on without a publication.
LEMMA QuietKeeps ==
    ASSUME RunInv, stage # "over", UNCHANGED <<wants, poiStatus, revision, result, content, published,
                                               stored, readerVars>>,
           \/ /\ stage' \in {"pois", "times", "zones"} /\ stage \in {"yield", "pois"}
              /\ UNCHANGED <<status, context>>
           \/ stage' = "over" /\ status' = "failed" /\ context' \in {0, result}
    PROVE  RunInv'
<1>1. TypeOK /\ StageInv
  BY DEF RunInv
<1>2. TypeOK'
  BY <1>1 DEF TypeOK, readerVars, Final
<1>3. StageInv'
  BY <1>1 DEF StageInv, Final
<1>4. status # "completed" /\ revision' \in 0..2 /\ revision' >= revision
  BY <1>1 DEF StageInv, Final, TypeOK
<1>5. ClientInv' /\ CoverageInv'
  BY <1>4, ReadersUndisturbed
<1> QED  BY <1>2, <1>3, <1>5 DEF RunInv

LEMMA GeometryFailsKeeps == ASSUME RunInv, GeometryFails PROVE RunInv'
<1>1. context' \in {0, result}
  BY DEF GeometryFails, RunInv, StageInv
<1> QED  BY <1>1, QuietKeeps DEF GeometryFails

LEMMA StageMovesKeeps == ASSUME RunInv, StageMoves PROVE RunInv'
BY QuietKeeps DEF StageMoves, recordVars

LEMMA RunBreaksKeeps == ASSUME RunInv, RunBreaks PROVE RunInv'
<1>1. context' \in {0, result}
  BY DEF RunBreaks, RememberResult, RunInv, StageInv
<1> QED  BY <1>1, QuietKeeps DEF RunBreaks

LEMMA PoisReadyKeeps == ASSUME RunInv, PoisReady PROVE RunInv'
<1>1. TypeOK /\ StageInv
  BY DEF RunInv
<1>2. /\ stage \in {"pois", "times", "zones"} /\ wants /\ revision = 1 /\ result = 1
      /\ status # "completed" /\ UNCHANGED <<wants, stored, readerVars>>
      /\ poiStatus' = "ready" /\ context' = result' /\ status' = "completed" /\ stage' = "over"
  BY <1>1 DEF PoisReady, Completes, RememberResult, StageInv, Final
<1>3. /\ result' = 2 /\ revision' = 2 /\ content' \in [Revisions -> Contents]
      /\ published' \in [Revisions -> Contents] /\ content'[result'] = published'[revision']
      /\ \A rev \in Revisions : rev <= revision' => published'[rev] # "none"
      /\ \A rev \in 1..revision : published'[rev] = published[rev]
  BY <1>2, Published DEF PoisReady, Contents
<1>4. TypeOK'
  BY <1>1, <1>2, <1>3 DEF TypeOK, readerVars, Final
<1>5. StageInv'
  BY <1>2, <1>3 DEF StageInv, Final
<1>6. ClientInv' /\ CoverageInv'
  BY <1>2, <1>3, ReadersUndisturbed
<1> QED  BY <1>4, <1>5, <1>6 DEF RunInv

\* The error is written into the report of the first revision, which becomes that
\* of the second.
LEMMA PoisFailKeeps == ASSUME RunInv, PoisFail PROVE RunInv'
<1>1. TypeOK /\ StageInv
  BY DEF RunInv
<1>2. /\ stage \in {"pois", "times", "zones"} /\ wants /\ revision = 1 /\ result = 1
      /\ status # "completed" /\ UNCHANGED <<wants, stored, readerVars>>
      /\ poiStatus' = "error" /\ context' = result' /\ status' = "completed" /\ stage' = "over"
      /\ content' = [content EXCEPT ![1] = "error"] /\ revision' = 2
      /\ published' = [published EXCEPT ![2] = "error"] /\ result' = 1
  <2>1. /\ stage \in {"pois", "times", "zones"} /\ PublishError("error")
        /\ poiStatus' = "error" /\ context' = result' /\ status' = "completed" /\ stage' = "over"
        /\ UNCHANGED <<wants, stored, readerVars>>
    BY DEF PoisFail, Completes, RememberResult
  <2>2. wants /\ revision = 1 /\ result = 1 /\ status # "completed"
    BY <1>1, <2>1 DEF StageInv, Final
  <2>3. /\ content' = [content EXCEPT ![result] = "error"] /\ revision' = revision + 1
        /\ published' = [published EXCEPT ![revision + 1] = "error"] /\ result' = result
    BY <2>1 DEF PublishError
  <2>4. revision + 1 = 2
    BY <2>2
  <2> QED  BY <2>1, <2>2, <2>3, <2>4
<1>3. /\ content \in [Revisions -> Contents] /\ published \in [Revisions -> Contents]
      /\ \A rev \in Revisions : rev <= 1 => published[rev] # "none"
  BY <1>1, <1>2 DEF TypeOK, StageInv
<1>4. /\ content' \in [Revisions -> Contents] /\ published' \in [Revisions -> Contents]
      /\ content'[1] = "error" /\ published'[2] = "error" /\ published'[1] = published[1]
  BY <1>2, <1>3 DEF Revisions, Contents
<1>5. TypeOK'
  BY <1>1, <1>2, <1>4 DEF TypeOK, readerVars, Final
<1>6. StageInv'
  BY <1>2, <1>3, <1>4 DEF StageInv, Final, Revisions
<1>7. ClientInv' /\ CoverageInv'
  BY <1>2, <1>4, ReadersUndisturbed
<1> QED  BY <1>5, <1>6, <1>7 DEF RunInv

\* Retention takes the record and its context, never the report itself.
LEMMA RecordStepKeeps == ASSUME RunInv, RecordStep PROVE RunInv'
<1>1. /\ UNCHANGED <<wants, stage, status, poiStatus, revision, result, content, published, readerVars>>
      /\ stored' \in BOOLEAN /\ context' = 0
  <2>1. stored \in BOOLEAN
    BY DEF RunInv, TypeOK
  <2> QED  BY <2>1 DEF RecordStep, Dropped, ContextEvicted
<1>2. UNCHANGED <<client, coverage, gate, cached>>
  BY <1>1 DEF readerVars
<1>3. TypeOK'
  <2>1. TypeOK
    BY DEF RunInv
  <2> QED  BY <1>1, <1>2, <2>1 DEF TypeOK
<1>4. StageInv'
  <2>1. StageInv
    BY DEF RunInv
  <2> QED  BY <1>1, <2>1 DEF StageInv, Final
<1>5. ClientInv' /\ CoverageInv'
  BY <1>1, <1>2 DEF RunInv, ClientInv, AnswerHolds, CoverageInv
<1> QED  BY <1>3, <1>4, <1>5 DEF RunInv

----------------------------------------------------------------------------
(* The browser.                                                            *)

Browsers ==
    [at : {"idle", "asking", "answered", "returned", "threw"},
     answer : Answers, revision : 0..2, shows : Contents]

\* A step of the browser leaves the analysis and the coverage alone.
LEMMA BrowserKeeps ==
    ASSUME RunInv, NEW fields \in Browsers, Client(fields), ClientInv' PROVE RunInv'
<1>1. /\ client' = fields /\ UNCHANGED <<runVars, stored, coverage, gate, cached>>
      /\ UNCHANGED <<wants, stage, status, poiStatus, revision, result, content, context, published>>
  BY DEF Client, runVars, recordVars
<1>2. TypeOK'
  BY <1>1 DEF RunInv, TypeOK, Browsers
<1>3. StageInv' /\ CoverageInv'
  BY <1>1 DEF RunInv, StageInv, Final, CoverageInv
<1> QED  BY <1>2, <1>3 DEF RunInv

\* The browser and the record, as the invariant has them.
LEMMA Browser ==
    ASSUME RunInv
    PROVE  /\ client \in Browsers /\ ClientInv /\ StageInv
           /\ revision \in 0..2 /\ result \in 0..2 /\ published \in [Revisions -> Contents]
           /\ status \in {"queued", "running"} \cup Final
           /\ content \in [Revisions -> Contents]
BY DEF RunInv, TypeOK, Browsers

LEMMA MovedBrowser ==
    ASSUME RunInv, NEW at \in {"asking", "threw"}
    PROVE  /\ [client EXCEPT !.at = at] \in Browsers
           /\ Client([client EXCEPT !.at = at]) => ClientInv'
<1>1. client \in Browsers /\ ClientInv
  BY Browser
<1> DEFINE moved == [client EXCEPT !.at = at]
<1>2. /\ moved \in Browsers /\ moved.at = at
      /\ moved.revision = client.revision /\ moved.shows = client.shows
  BY <1>1 DEF Browsers
<1> HIDE DEF moved
<1>3. ASSUME Client(moved) PROVE ClientInv'
  BY <1>1, <1>2, <1>3 DEF Client, runVars, recordVars, ClientInv
<1> QED  BY <1>2, <1>3 DEF moved

LEMMA NoAnswerTyped == NoAnswer \in Answers
BY DEF NoAnswer, Answers, Contents

LEMMA PollKeeps == ASSUME RunInv, Poll PROVE RunInv'
BY MovedBrowser, BrowserKeeps DEF Poll

LEMMA ClientGivesUpKeeps == ASSUME RunInv, ClientGivesUp PROVE RunInv'
<1> DEFINE gone == [client EXCEPT !.at = "threw", !.answer = NoAnswer]
<1>1. client \in Browsers /\ ClientInv /\ Client(gone)
  BY Browser DEF ClientGivesUp
<1>2. /\ gone \in Browsers /\ gone.at = "threw"
      /\ gone.revision = client.revision /\ gone.shows = client.shows
  BY <1>1, NoAnswerTyped DEF Browsers
<1> HIDE DEF gone
<1>3. ClientInv'
  BY <1>1, <1>2 DEF Client, runVars, recordVars, ClientInv
<1> QED  BY <1>1, <1>2, <1>3, BrowserKeeps

\* get_analysis: what is left out is what the browser has.
LEMMA GetAnalysisKeeps == ASSUME RunInv, GetAnalysis PROVE RunInv'
<1>1. CASE Client([client EXCEPT !.at = "threw"])
  BY <1>1, MovedBrowser, BrowserKeeps
<1>2. CASE ~Client([client EXCEPT !.at = "threw"])
  <2> DEFINE report == IF Omitted \/ result = 0 THEN "none" ELSE content[result]
             answer == [status |-> status, revision |-> revision, report |-> report]
             told == [client EXCEPT !.at = "answered", !.answer = answer]
  <2>1. Client(told)
    BY <1>2 DEF GetAnalysis
  <2>2. /\ client \in Browsers /\ client.revision <= revision
        /\ client.revision > 0 => client.shows = published[client.revision]
        /\ revision \in 0..2 /\ client.revision \in 0..2 /\ result \in 0..2
    BY Browser DEF ClientInv, Browsers
  <2>3. /\ report \in Contents
        /\ report # "none" => revision > 0 /\ report = published[revision]
        /\ status = "completed" /\ report = "none" => client.revision = revision
    <3>1. result # 0 => content[result] = published[revision] /\ revision > 0
                                        /\ content[result] # "none" /\ content[result] \in Contents
      BY <2>2, Browser DEF StageInv, Revisions
    <3>2. status = "completed" => result # 0
      BY Browser DEF StageInv
    <3> QED  BY <2>2, <3>1, <3>2 DEF Omitted, Contents
  <2> HIDE DEF report
  <2>4. /\ answer \in Answers
        /\ answer.status = status /\ answer.revision = revision /\ answer.report = report
    BY <2>2, <2>3, Browser DEF Answers
  <2> HIDE DEF answer
  <2>5. /\ told \in Browsers /\ told.at = "answered" /\ told.answer = answer
        /\ told.revision = client.revision /\ told.shows = client.shows
    BY <2>2, <2>4 DEF Browsers
  <2> HIDE DEF told
  <2>6. client' = told /\ UNCHANGED <<revision, published, status>>
    BY <2>1 DEF Client, runVars, recordVars
  <2>7. AnswerHolds'
    BY <2>2, <2>3, <2>4, <2>5, <2>6 DEF AnswerHolds
  <2>8. ClientInv'
    BY <2>2, <2>5, <2>6, <2>7 DEF ClientInv
  <2> QED  BY <2>1, <2>5, <2>8, BrowserKeeps
<1> QED  BY <1>1, <1>2

\* A report is shown under the revision it came with; what was shown before is
\* kept only for an answer of that same revision or without a report.
LEMMA AnswerReadKeeps == ASSUME RunInv, AnswerRead PROVE RunInv'
<1> DEFINE a == client.answer
           new == a.report # "none" /\ a.revision # client.revision
           shown == IF new THEN [client EXCEPT !.revision = a.revision, !.shows = a.report]
                    ELSE client
           next == CASE a.status = "failed" -> "threw"
                     [] a.status = "completed" ->
                          IF shown.shows = "none" THEN "threw" ELSE "returned"
                     [] OTHER -> "idle"
           read == [shown EXCEPT !.at = next, !.answer = NoAnswer]
<1>1. client.at = "answered" /\ Client(read)
  BY DEF AnswerRead
<1>2. /\ client \in Browsers /\ ClientInv /\ AnswerHolds /\ a \in Answers
      /\ revision \in 0..2
  BY <1>1, Browser DEF ClientInv, Browsers
<1>3. /\ shown \in Browsers
      /\ shown.revision = IF new THEN a.revision ELSE client.revision
      /\ shown.shows = IF new THEN a.report ELSE client.shows
  BY <1>2 DEF Browsers, Answers
<1>4. next \in {"threw", "returned", "idle"} /\ (next = "returned" => a.status = "completed")
  OBVIOUS
<1> HIDE DEF shown, next
<1>5. /\ read \in Browsers /\ read.at = next
      /\ read.revision = shown.revision /\ read.shows = shown.shows
  BY <1>3, <1>4, NoAnswerTyped DEF Browsers
<1> HIDE DEF read
<1>6. client' = read /\ UNCHANGED <<revision, published, status>>
  BY <1>1 DEF Client, runVars, recordVars
<1>7. /\ shown.revision <= revision
      /\ shown.revision > 0 => shown.shows = published[shown.revision]
  BY <1>2, <1>3 DEF ClientInv, AnswerHolds
<1>8. a.status = "completed" => status = "completed" /\ shown.revision = revision
  BY <1>2, <1>3 DEF AnswerHolds
<1>9. ClientInv'
  BY <1>4, <1>5, <1>6, <1>7, <1>8 DEF ClientInv
<1> QED  BY <1>1, <1>5, <1>9, BrowserKeeps

----------------------------------------------------------------------------
(* Coverage.                                                               *)

Invocations ==
    [at : {"new", "refused", "waiting", "collecting", "served", "failed"},
     report : 0..2, revision : 0..2, found : Contents]

\* An invocation that has a report of a completed analysis: its last one.
Captures(i) ==
    i.at \in {"waiting", "collecting", "served"} =>
        /\ status = "completed"
        /\ i.revision = revision /\ i.report = result
        /\ i.at # "waiting" => i.found = published[revision]

\* A step of one request: what has to be shown of it.
LEMMA RequestKeeps ==
    ASSUME RunInv, NEW c \in CoverageRequests, NEW now \in Invocations,
           NEW holder \in {gate, c, Nobody}, Coverage(c, now, holder), Captures(now),
           cached' \in [Revisions -> Contents],
           \A rev \in Revisions :
              cached'[rev] # "none" => status = "completed" /\ cached'[rev] = published[rev]
    PROVE  RunInv'
<1>1. /\ coverage' = [coverage EXCEPT ![c] = now] /\ gate' = holder
      /\ UNCHANGED <<wants, stage, status, poiStatus, revision, result, content, context, published,
                     stored, client>>
  BY DEF Coverage, runVars, recordVars
<1>2. TypeOK /\ coverage \in [CoverageRequests -> Invocations]
  BY DEF RunInv, TypeOK, Invocations
<1>3. coverage' \in [CoverageRequests -> Invocations] /\ coverage'[c] = now
      /\ \A d \in CoverageRequests \ {c} : coverage'[d] = coverage[d]
  BY <1>1, <1>2
<1>4. TypeOK'
  BY <1>1, <1>2, <1>3 DEF TypeOK, Invocations
<1>5. StageInv /\ ClientInv /\ CoverageInv
  BY DEF RunInv
<1>6. StageInv' /\ ClientInv'
  BY <1>1, <1>5 DEF StageInv, Final, ClientInv, AnswerHolds
<1>7. CoverageInv'
  <2>1. ASSUME NEW d \in CoverageRequests PROVE Captures(coverage'[d])
    <3>1. CASE d = c
      BY <1>3, <3>1
    <3>2. CASE d # c
      BY <1>3, <1>5, <3>2 DEF CoverageInv, Captures
    <3> QED  BY <3>1, <3>2
  <2> QED  BY <1>1, <2>1 DEF CoverageInv, Captures
<1> QED  BY <1>4, <1>6, <1>7 DEF RunInv

\* What the invariant says of one request and of the cache.
LEMMA Requested ==
    ASSUME RunInv, NEW c \in CoverageRequests
    PROVE  /\ coverage[c] \in Invocations /\ Captures(coverage[c])
           /\ cached \in [Revisions -> Contents]
           /\ \A rev \in Revisions :
                 cached[rev] # "none" => status = "completed" /\ cached[rev] = published[rev]
           /\ status = "completed" => /\ revision \in Revisions /\ result \in Revisions
                                      /\ content[result] = published[revision]
                                      /\ published[revision] \in Contents
           /\ revision \in 0..2 /\ result \in 0..2 /\ content \in [Revisions -> Contents]
BY DEF RunInv, TypeOK, StageInv, CoverageInv, Captures, Invocations, Revisions

LEMMA CoverageStepKeeps ==
    ASSUME RunInv, NEW c \in CoverageRequests, CoverageStep(c) PROVE RunInv'
<1> DEFINE i == coverage[c]
<1>1. i \in Invocations /\ Captures(i)
  BY Requested
<1>2. ASSUME NEW rev \in Revisions, CoverageRefused(c, rev) PROVE RunInv'
  <2> DEFINE now == [i EXCEPT !.at = "refused"]
  <2>1. now \in Invocations /\ now.at = "refused"
    BY <1>1 DEF Invocations
  <2> HIDE DEF now
  <2>2. Coverage(c, now, gate) /\ UNCHANGED cached
    BY <1>2 DEF CoverageRefused, now
  <2> QED  BY <2>1, <2>2, Requested, RequestKeeps DEF Captures
<1>3. ASSUME NEW rev \in Revisions, CoverageAsked(c, rev) PROVE RunInv'
  <2> DEFINE now == [i EXCEPT !.at = "waiting", !.report = result, !.revision = rev]
  <2>1. status = "completed" /\ revision = rev
    BY <1>3 DEF CoverageAsked, ReportFinal
  <2>2. now \in Invocations /\ now.at = "waiting" /\ now.report = result /\ now.revision = rev
    BY <1>1, <2>1, Requested DEF Invocations
  <2> HIDE DEF now
  <2>3. Coverage(c, now, gate) /\ UNCHANGED cached
    BY <1>3 DEF CoverageAsked, now
  <2> QED  BY <2>1, <2>2, <2>3, Requested, RequestKeeps DEF Captures
<1>4. ASSUME CoverageHit(c) PROVE RunInv'
  <2> DEFINE now == [i EXCEPT !.at = "served", !.found = cached[i.revision]]
  <2>1. i.at = "waiting" /\ cached[i.revision] # "none"
    BY <1>4 DEF CoverageHit
  <2>2. status = "completed" /\ i.revision = revision /\ i.report = result /\ i.revision \in Revisions
    BY <1>1, <2>1, Requested DEF Captures
  <2>3. cached[i.revision] = published[revision] /\ cached[i.revision] \in Contents
    BY <2>1, <2>2, Requested
  <2>4. now \in Invocations /\ now.at = "served" /\ now.found = cached[i.revision]
        /\ now.report = i.report /\ now.revision = i.revision
    BY <1>1, <2>3 DEF Invocations
  <2> HIDE DEF now
  <2>5. Coverage(c, now, gate) /\ UNCHANGED cached
    BY <1>4 DEF CoverageHit, now
  <2> QED  BY <2>2, <2>3, <2>4, <2>5, Requested, RequestKeeps DEF Captures
<1>5. ASSUME CoverageBegins(c) PROVE RunInv'
  <2> DEFINE now == [i EXCEPT !.at = "collecting", !.found = content[i.report]]
  <2>1. i.at = "waiting"
    BY <1>5 DEF CoverageBegins
  <2>2. status = "completed" /\ i.revision = revision /\ i.report = result
        /\ content[i.report] = published[revision] /\ content[i.report] \in Contents
    BY <1>1, <2>1, Requested DEF Captures
  <2>3. now \in Invocations /\ now.at = "collecting" /\ now.found = content[i.report]
        /\ now.report = i.report /\ now.revision = i.revision
    BY <1>1, <2>2 DEF Invocations
  <2> HIDE DEF now
  <2>4. Coverage(c, now, c) /\ UNCHANGED cached
    BY <1>5 DEF CoverageBegins, now
  <2> QED  BY <2>2, <2>3, <2>4, Requested, RequestKeeps DEF Captures
<1>6. ASSUME CoverageEnds(c) PROVE RunInv'
  <2> DEFINE now == [i EXCEPT !.at = "served"]
  <2>1. i.at = "collecting" /\ cached' = [cached EXCEPT ![i.revision] = i.found]
    BY <1>6 DEF CoverageEnds
  <2>2. /\ status = "completed" /\ i.revision = revision /\ i.report = result
        /\ i.found = published[revision] /\ i.revision \in Revisions /\ i.found \in Contents
    BY <1>1, <2>1, Requested DEF Captures, Invocations
  <2>3. now \in Invocations /\ now.at = "served" /\ now.found = i.found
        /\ now.report = i.report /\ now.revision = i.revision
    BY <1>1 DEF Invocations
  <2> HIDE DEF now
  <2>4. Coverage(c, now, Nobody)
    BY <1>6 DEF CoverageEnds, now
  <2>5. /\ cached' \in [Revisions -> Contents]
        /\ \A rev \in Revisions :
              cached'[rev] # "none" => status = "completed" /\ cached'[rev] = published[rev]
    BY <2>1, <2>2, Requested
  <2> QED  BY <2>2, <2>3, <2>4, <2>5, RequestKeeps DEF Captures
<1>7. ASSUME CoverageFails(c) PROVE RunInv'
  <2> DEFINE now == [i EXCEPT !.at = "failed"]
  <2>1. now \in Invocations /\ now.at = "failed"
    BY <1>1 DEF Invocations
  <2> HIDE DEF now
  <2>2. Coverage(c, now, IF gate = c THEN Nobody ELSE gate) /\ UNCHANGED cached
    BY <1>7 DEF CoverageFails, now
  <2>3. (IF gate = c THEN Nobody ELSE gate) \in {gate, c, Nobody}
    OBVIOUS
  <2> QED  BY <2>1, <2>2, <2>3, Requested, RequestKeeps DEF Captures
<1> QED  BY <1>2, <1>3, <1>4, <1>5, <1>6, <1>7 DEF CoverageStep

LEMMA CacheEvictsKeeps == ASSUME RunInv, NEW rev \in Revisions, CacheEvicts(rev) PROVE RunInv'
<1>1. /\ cached' = [cached EXCEPT ![rev] = "none"]
      /\ UNCHANGED <<wants, stage, status, poiStatus, revision, result, content, context, published,
                     stored, client, coverage, gate>>
  BY DEF CacheEvicts, runVars, recordVars
<1>2. TypeOK /\ StageInv /\ ClientInv /\ CoverageInv
  BY DEF RunInv
<1>3. TypeOK'
  BY <1>1, <1>2 DEF TypeOK, Contents
<1>4. StageInv' /\ ClientInv'
  BY <1>1, <1>2 DEF StageInv, Final, ClientInv, AnswerHolds
<1>5. CoverageInv'
  BY <1>1, <1>2 DEF CoverageInv, TypeOK
<1> QED  BY <1>3, <1>4, <1>5 DEF RunInv

----------------------------------------------------------------------------
(* The invariant and the theorems.                                         *)

LEMMA RunInitially == Init => RunInv
<1> SUFFICES ASSUME Init PROVE RunInv
  OBVIOUS
<1>1. TypeOK
  BY DEF Init, TypeOK, NoAnswer, Answers, Contents
<1>2. StageInv
  BY DEF Init, StageInv, Final, Revisions
<1>3. ClientInv /\ CoverageInv
  BY DEF Init, ClientInv, CoverageInv
<1> QED  BY <1>1, <1>2, <1>3 DEF RunInv

LEMMA RunKeeps == RunInv /\ [Next]_vars => RunInv'
<1> SUFFICES ASSUME RunInv, [Next]_vars PROVE RunInv'
  OBVIOUS
<1>1. CASE RunStep
  BY <1>1, BeginKeeps, GeometryReadyKeeps, GeometryFailsKeeps, StageMovesKeeps, PoisReadyKeeps,
     PoisFailKeeps, RunBreaksKeeps DEF RunStep
<1>2. CASE RecordStep
  BY <1>2, RecordStepKeeps
<1>3. CASE ClientStep
  BY <1>3, PollKeeps, GetAnalysisKeeps, AnswerReadKeeps, ClientGivesUpKeeps DEF ClientStep
<1>4. CASE \E c \in CoverageRequests : CoverageStep(c)
  BY <1>4, CoverageStepKeeps
<1>5. CASE \E rev \in Revisions : CacheEvicts(rev)
  BY <1>5, CacheEvictsKeeps
<1>6. CASE UNCHANGED vars
  <2>1. UNCHANGED <<wants, stage, status, poiStatus, revision, result, content, context, published,
                    stored, client, coverage, gate, cached>>
    BY <1>6 DEF vars, runVars, recordVars, readerVars
  <2>2. TypeOK /\ StageInv /\ ClientInv /\ CoverageInv
    BY DEF RunInv
  <2>3. TypeOK'
    BY <2>1, <2>2 DEF TypeOK
  <2>4. StageInv' /\ ClientInv' /\ CoverageInv'
    BY <2>1, <2>2 DEF StageInv, Final, ClientInv, AnswerHolds, CoverageInv
  <2> QED  BY <2>3, <2>4 DEF RunInv
<1> QED  BY <1>1, <1>2, <1>3, <1>4, <1>5, <1>6 DEF Next

LEMMA RunInvHolds == Spec => []RunInv
BY RunInitially, RunKeeps, PTL DEF Spec

\* What the browser shows is always one revision as it was published, and it comes
\* to rest with the last one: requestCppMapAnalysis of
\* frontend/src/cppAnalysisClient.js against get_analysis of backend/app/main.py.
THEOREM LastRevisionIsShown == Spec => []LastRevisionShown
<1>1. RunInv => LastRevisionShown
  BY DEF RunInv, ClientInv, LastRevisionShown
<1> QED  BY <1>1, RunInvHolds, PTL

\* Type correctness; and a completed analysis has settled its POI stage and offers
\* routes in its last report only: the finally clause of _run_analysis.
THEOREM RecordsAreSettled == Spec => []RecordSettled
<1>1. RunInv => RecordSettled
  BY DEF RunInv, StageInv, RecordSettled, CompletedSettled
<1> QED  BY <1>1, RunInvHolds, PTL

\* Coverage that is cached or served is that of the revision it is filed under,
\* however long the request has waited with its report: _service_coverage.
THEOREM CoverageIsOfRevision == Spec => []CoverageOfRevision
<1>1. RunInv => CoverageOfRevision
  BY DEF RunInv, CoverageInv, CoverageOfRevision
<1> QED  BY <1>1, RunInvHolds, PTL

----------------------------------------------------------------------------
(* The zones of a sampled analysis: what a partition by services is.       *)

\* The categories of some that are missing at a place.
Lacking(x, at, cats) == {c \in cats : \A p \in at[c] : x - p \notin (-Radius)..Radius}

Lack(domain, at, cats, lacks) == {x \in domain : Lacking(x, at, cats) = lacks}

\* Each region is all that lacks exactly the same, and each place is in one.
Exact(regions, domain, at, cats) ==
    /\ \A r \in regions : r.lacks \subseteq cats /\ r = Region(r.lacks, Lack(domain, at, cats, r.lacks))
    /\ \A x \in domain : \E r \in regions : r.lacks = Lacking(x, at, cats)

\* One more category keeps a partition exact.
LEMMA SplitExact ==
    ASSUME NEW domain, NEW at, NEW cats, NEW c, c \notin cats, NEW regions,
           Exact(regions, domain, at, cats)
    PROVE  Exact(UNION {Split(r, Served(domain, at[c]), c) : r \in regions}, domain, at, cats \cup {c})
<1> DEFINE served == Served(domain, at[c])
           more == cats \cup {c}
           all == UNION {Split(r, served, c) : r \in regions}
           old(x) == Lacking(x, at, cats)
           new(x) == Lacking(x, at, more)
<1>1. ASSUME NEW x \in domain PROVE new(x) = IF x \in served THEN old(x) ELSE old(x) \cup {c}
  BY DEF Lacking, Served
<1>2. \A x : c \notin old(x)
  BY DEF Lacking
<1>3. ASSUME NEW r \in regions
      PROVE  /\ r.lacks \subseteq cats /\ c \notin r.lacks
             /\ r.area = {x \in domain : old(x) = r.lacks}
             /\ r.area \cap served = {x \in domain : new(x) = r.lacks}
             /\ r.area \ served = {x \in domain : new(x) = r.lacks \cup {c}}
  <2>1. r.lacks \subseteq cats /\ c \notin r.lacks /\ r = Region(r.lacks, {x \in domain : old(x) = r.lacks})
    BY DEF Exact, Lack
  <2>2. r.area = {x \in domain : old(x) = r.lacks}
    <3> DEFINE area == {x \in domain : old(x) = r.lacks}
    <3> HIDE DEF area
    <3>1. r = Region(r.lacks, area)
      BY <2>1 DEF area
    <3> QED BY <3>1 DEF Region, area
  <2> HIDE DEF old, new, served
  <2>3. \A x \in domain : new(x) = r.lacks <=> x \in served /\ old(x) = r.lacks
    BY <1>1, <1>2, <2>1
  <2>4. \A x \in domain : new(x) = r.lacks \cup {c} <=> x \notin served /\ old(x) = r.lacks
    BY <1>1, <1>2, <2>1
  <2> QED BY <2>1, <2>2, <2>3, <2>4
<1>4. ASSUME NEW r \in regions
      PROVE  Split(r, served, c) =
                {s \in {Region(r.lacks, {x \in domain : new(x) = r.lacks}),
                        Region(r.lacks \cup {c}, {x \in domain : new(x) = r.lacks \cup {c}})} : s.area # {}}
  <2> HIDE DEF new, old, served
  <2> QED BY <1>3 DEF Split
<1>5. \A lacks, area : Region(lacks, area).lacks = lacks /\ Region(lacks, area).area = area
  BY DEF Region
<1>6. ASSUME NEW s \in all
      PROVE  s.lacks \subseteq more /\ s = Region(s.lacks, Lack(domain, at, more, s.lacks))
  <2>1. PICK r \in regions : s \in Split(r, served, c)
    OBVIOUS
  <2> DEFINE area(lacks) == {x \in domain : new(x) = lacks}
  <2>2. s = Region(r.lacks, area(r.lacks)) \/ s = Region(r.lacks \cup {c}, area(r.lacks \cup {c}))
    BY <1>4, <2>1
  <2>3. \A lacks : Lack(domain, at, more, lacks) = area(lacks)
    BY DEF Lack
  <2> HIDE DEF area
  <2>4. CASE s = Region(r.lacks, area(r.lacks))
    <3>1. s.lacks = r.lacks
      BY <1>5, <2>4
    <3> QED BY <1>3, <2>3, <2>4, <3>1
  <2>5. CASE s = Region(r.lacks \cup {c}, area(r.lacks \cup {c}))
    <3>1. s.lacks = r.lacks \cup {c}
      BY <1>5, <2>5
    <3> QED BY <1>3, <2>3, <2>5, <3>1
  <2> QED BY <2>2, <2>4, <2>5
<1>7. ASSUME NEW x \in domain PROVE \E s \in all : s.lacks = new(x)
  <2>1. PICK r \in regions : r.lacks = old(x)
    BY DEF Exact
  <2> DEFINE area(lacks) == {y \in domain : new(y) = lacks}
             s == Region(new(x), area(new(x)))
  <2>2. x \in area(new(x))
    OBVIOUS
  <2>3. new(x) = r.lacks \/ new(x) = r.lacks \cup {c}
    BY <1>1, <2>1
  <2>4. s.area = area(new(x)) /\ s.lacks = new(x)
    BY <1>5
  <2>5. Split(r, served, c) = {t \in {Region(r.lacks, area(r.lacks)),
                                      Region(r.lacks \cup {c}, area(r.lacks \cup {c}))} : t.area # {}}
    BY <1>4
  <2> HIDE DEF area, s, new, served
  <2>6. s \in Split(r, served, c)
    BY <2>2, <2>3, <2>4, <2>5 DEF s
  <2> QED BY <2>4, <2>6
<1> HIDE DEF all, more, new
<1> QED BY <1>6, <1>7 DEF Exact, all, more, new, served

LEMMA PartitionExact ==
    ASSUME NEW domain, NEW at, NEW assessed
    PROVE  Exact(Partition(domain, at, assessed), domain, at, ToSet(Services) \cap assessed)
<1> DEFINE order == Only(Services, assessed)
<1>0. order \in Seq(STRING) /\ Distinct(order) /\ ToSet(order) = ToSet(Services) \cap assessed
  <2>1. Services \in Seq(STRING) /\ Distinct(Services)
    BY ShapesAssumption, CardDistinct DEF ShapesAssumption
  <2>2. Only(Services, assessed) \in Seq(STRING \cap assessed)
    BY <2>1, OnlyType
  <2>3. Distinct(Only(Services, assessed)) /\ ToSet(Only(Services, assessed)) = ToSet(Services) \cap assessed
    BY <2>1, OnlyDistinct, OnlyToSet
  <2> QED BY <2>2, <2>3
<1> HIDE DEF order
<1> DEFINE n == Len(order)
           All == [lacks : SUBSET STRING, area : SUBSET domain]
           X == SUBSET All
           x0 == {Region({}, domain)}
           next(t, i) == UNION {Split(r, Served(domain, at[order[i]]), order[i]) : r \in t}
           step == [i \in 1..n |-> [t \in X |-> next(t, i)]]
           body(g) == [i \in 0..n |-> IF i = 0 THEN x0 ELSE next(g[i - 1], i)]
           regions == CHOOSE g : g = body(g)
<1>a. \A i \in 1..n : \A t \in X : next(t, i) \in X
  <2> SUFFICES ASSUME NEW i \in 1..n, NEW t \in X, NEW r \in t,
                      NEW s \in Split(r, Served(domain, at[order[i]]), order[i])
               PROVE  s \in All
    OBVIOUS
  <2>1. order[i] \in STRING /\ r \in All
    BY <1>0
  <2> QED BY <2>1 DEF Split, Region
<1>b. Partition(domain, at, assessed) = regions[n]
  BY DEF Partition, order
<1>c. n \in Nat /\ x0 \in X
  BY <1>0 DEF Region
<1> HIDE DEF next, X, x0, n
<1>1. step \in [1..n -> [X -> X]]
  BY <1>a
<1>2. PICK g \in [0..n -> X] : g[0] = x0 /\ \A i \in 1..n : g[i] = step[i][g[i - 1]]
  <2> HIDE DEF step
  <2>2. \E g \in [0..n -> X] : g[0] = x0 /\ \A i \in 1..n : g[i] = step[i][g[i - 1]]
    BY <1>1, <1>c, Recursion
  <2> QED BY <2>2, Zenon
<1>3. ASSUME NEW i \in 1..n PROVE g[i] = next(g[i - 1], i)
  <2>1. g[i - 1] \in X
    BY <1>c
  <2>2. g[i] = step[i][g[i - 1]]
    BY <1>2
  <2>3. step[i] = [t \in X |-> next(t, i)]
    OBVIOUS
  <2> HIDE DEF step
  <2> QED BY <2>1, <2>2, <2>3
<1>4. g = body(g)
  BY <1>2, <1>3, <1>c
<1>5. regions = body(regions)
  <2> HIDE DEF body
  <2> QED BY <1>4
<1> HIDE DEF regions
<1>6. regions[0] = x0 /\ \A i \in 1..n : regions[i] = next(regions[i - 1], i)
  BY <1>5, <1>c
<1> DEFINE seen(i) == {order[j] : j \in 1..i}
           T == {i \in 0..n : Exact(regions[i], domain, at, seen(i))}
<1>7. 0 \in T
  <2>1. seen(0) = {} /\ 0 \in 0..n
    BY <1>c
  <2>2. \A x : Lacking(x, at, {}) = {}
    BY DEF Lacking
  <2>3. Lack(domain, at, {}, {}) = domain
    BY <2>2 DEF Lack
  <2>4. regions[0] = {Region({}, domain)} /\ Region({}, domain).lacks = {}
    BY <1>6 DEF x0, Region
  <2>5. Exact(regions[0], domain, at, {})
    BY <2>2, <2>3, <2>4 DEF Exact
  <2> HIDE DEF seen
  <2> QED BY <2>1, <2>5
<1>8. ASSUME NEW i \in 1..n, i - 1 \in T PROVE i \in T
  <2>1. i \in 0..n /\ Exact(regions[i - 1], domain, at, seen(i - 1))
    BY <1>8, <1>c
  <2>2. order[i] \notin seen(i - 1)
    <3>1. \A j \in 1..(i - 1) : j \in 1..n /\ j # i
      BY <1>c
    <3> QED BY <1>0, <3>1 DEF Distinct, n
  <2>3. seen(i) = seen(i - 1) \cup {order[i]}
    <3>1. 1..i = 1..(i - 1) \cup {i}
      BY <1>c
    <3> QED BY <3>1
  <2>4. regions[i] = UNION {Split(r, Served(domain, at[order[i]]), order[i]) : r \in regions[i - 1]}
    BY <1>6 DEF next
  <2> HIDE DEF seen
  <2> DEFINE c == order[i]
             cats == seen(i - 1)
             old == regions[i - 1]
  <2>5. c \notin cats /\ Exact(old, domain, at, cats)
    BY <2>1, <2>2
  <2> HIDE DEF c, cats, old
  <2>6. Exact(UNION {Split(r, Served(domain, at[c]), c) : r \in old}, domain, at, cats \cup {c})
    BY <2>5, SplitExact
  <2>7. Exact(regions[i], domain, at, seen(i))
    BY <2>3, <2>4, <2>6 DEF c, cats, old
  <2> QED BY <2>1, <2>7
<1> HIDE DEF T
<1>9. 0..n \subseteq T
  BY <1>7, <1>8, <1>c, InductTo
<1>10. Exact(regions[n], domain, at, seen(n))
  <2> HIDE DEF seen
  <2>1. n \in 0..n
    BY <1>c
  <2>2. n \in T
    BY <1>9, <2>1
  <2> QED BY <2>2 DEF T
<1>11. seen(n) = ToSet(Services) \cap assessed
  BY <1>0, ToSetElements DEF n, Elements
<1> QED BY <1>b, <1>10, <1>11

\* The regions that are drawn, each place being in all that lacks the same.
LEMMA ZonesOf ==
    ASSUME NEW domain, NEW at, NEW assessed, assessed \subseteq ToSet(Services)
    PROVE  LET alike(x) == Lack(domain, at, assessed, Lacking(x, at, assessed))
               zones    == Zones(domain, at, assessed)
           IN /\ \A z \in zones : \A x \in z.area : x \in domain /\ z.lacks = Lacking(x, at, assessed)
              /\ \A x \in domain :
                    Lacking(x, at, assessed) # {} /\ Cardinality(Part(alike(x), x)) >= MinZone =>
                        \E z \in zones : x \in z.area
<1> DEFINE regions == Partition(domain, at, assessed)
           area(lacks) == Lack(domain, at, assessed, lacks)
           lack(x) == Lacking(x, at, assessed)
           zones == Zones(domain, at, assessed)
<1>1. ToSet(Services) \cap assessed = assessed
  OBVIOUS
<1>2. Exact(regions, domain, at, assessed)
  BY <1>1, PartitionExact
<1>3. /\ \A r \in regions : r = Region(r.lacks, area(r.lacks))
      /\ \A x \in domain : \E r \in regions : r.lacks = lack(x)
  BY <1>2 DEF Exact
<1>4. \A lacks, a : Region(lacks, a).lacks = lacks /\ Region(lacks, a).area = a
  BY DEF Region
<1>5. \A r \in regions : r.area = area(r.lacks)
  <2> HIDE DEF area, regions
  <2> QED BY <1>3, <1>4
<1>6. \A a : Kept(a) = {x \in a : Cardinality(Part(a, x)) >= MinZone}
  BY DEF Kept
<1>7. zones = {z \in {Region(r.lacks, Kept(r.area)) : r \in regions} : z.lacks # {} /\ z.area # {}}
  BY DEF Zones
<1>8. ASSUME NEW z \in zones, NEW x \in z.area PROVE x \in domain /\ z.lacks = lack(x)
  <2>1. PICK r \in regions : z = Region(r.lacks, Kept(r.area))
    BY <1>7
  <2>2. z.lacks = r.lacks /\ x \in Kept(r.area)
    BY <1>4, <2>1
  <2>3. x \in area(r.lacks)
    BY <1>5, <1>6, <2>2
  <2> QED BY <2>2, <2>3 DEF Lack
<1>9. ASSUME NEW x \in domain, lack(x) # {}, Cardinality(Part(area(lack(x)), x)) >= MinZone
      PROVE  \E z \in zones : x \in z.area
  <2>1. PICK r \in regions : r.lacks = lack(x)
    BY <1>3
  <2>2. r.area = area(lack(x)) /\ x \in area(lack(x))
    BY <1>5, <2>1 DEF Lack
  <2>3. x \in Kept(r.area)
    BY <1>6, <1>9, <2>2
  <2> DEFINE z == Region(r.lacks, Kept(r.area))
  <2>4. z.lacks # {} /\ z.area = Kept(r.area)
    BY <1>4, <1>9, <2>1
  <2> HIDE DEF lack, area, regions, zones
  <2>5. z \in zones
    BY <1>7, <2>3, <2>4
  <2> QED BY <2>3, <2>4, <2>5
<1> QED BY <1>8, <1>9

----------------------------------------------------------------------------
(* The facilities of a sampled analysis: what probing one by one finds.    *)

Facilities == ToSet(Places)

Found == [shown : SUBSET Facilities, failed : SUBSET Facilities]

\* What has been found when the facilities in tried have been tried, unless there
\* were enough before.
Probed(acc, walk, kind, tried) ==
    /\ acc \in Found /\ IsFiniteSet(acc.shown)
    /\ \A p \in acc.shown : walk[p] = "timely" /\ KindOf[p] = kind
    /\ Cardinality(acc.shown) <= PerCategory
    /\ Cardinality(acc.shown) < PerCategory => acc.shown \cup acc.failed = tried

LEMMA ProbeKeeps ==
    ASSUME NEW walk, NEW kind, NEW tried, NEW acc, Probed(acc, walk, kind, tried),
           NEW p \in Facilities, KindOf[p] = kind
    PROVE  Probed(Probe(walk, acc, p), walk, kind, tried \cup {p})
<1>0. /\ acc \in Found /\ IsFiniteSet(acc.shown) /\ Cardinality(acc.shown) \in Nat /\ PerCategory \in Nat
      /\ Cardinality(acc.shown) <= PerCategory
      /\ Cardinality(acc.shown) < PerCategory => acc.shown \cup acc.failed = tried
      /\ \A x \in acc.shown : walk[x] = "timely" /\ KindOf[x] = kind
  BY FS_CardinalityType, SampledAssumption DEF Probed, SampledAssumption
<1>1. CASE Cardinality(acc.shown) >= PerCategory
  BY <1>0, <1>1 DEF Probe, Probed
<1>2. CASE ~(Cardinality(acc.shown) >= PerCategory) /\ walk[p] = "timely"
  <2>1. Probe(walk, acc, p) = [acc EXCEPT !.shown = @ \cup {p}]
    BY <1>2 DEF Probe
  <2>2. /\ Probe(walk, acc, p) \in Found /\ Probe(walk, acc, p).shown = acc.shown \cup {p}
        /\ Probe(walk, acc, p).failed = acc.failed
    BY <1>0, <2>1 DEF Found
  <2>3. /\ IsFiniteSet(acc.shown \cup {p})
        /\ Cardinality(acc.shown \cup {p}) <= Cardinality(acc.shown) + 1
        /\ Cardinality(acc.shown \cup {p}) \in Nat
    <3> DEFINE S == acc.shown
    <3>1. IsFiniteSet(S) /\ Cardinality(S) \in Nat
      BY <1>0
    <3> HIDE DEF S
    <3>2. IsFiniteSet(S \cup {p}) /\ Cardinality(S \cup {p}) = IF p \in S THEN Cardinality(S) ELSE Cardinality(S) + 1
      BY <3>1, FS_AddElement
    <3>3. IsFiniteSet(S \cup {p}) /\ Cardinality(S \cup {p}) <= Cardinality(S) + 1 /\ Cardinality(S \cup {p}) \in Nat
      BY <3>1, <3>2
    <3> QED BY <3>3 DEF S
  <2>4. Cardinality(acc.shown \cup {p}) <= PerCategory /\ acc.shown \cup acc.failed = tried
    BY <1>0, <1>2, <2>3
  <2> QED BY <1>0, <1>2, <2>2, <2>3, <2>4 DEF Probed
<1>3. CASE ~(Cardinality(acc.shown) >= PerCategory) /\ walk[p] # "timely"
  <2>1. Probe(walk, acc, p) = [acc EXCEPT !.failed = @ \cup {p}]
    BY <1>3 DEF Probe
  <2>2. /\ Probe(walk, acc, p) \in Found /\ Probe(walk, acc, p).failed = acc.failed \cup {p}
        /\ Probe(walk, acc, p).shown = acc.shown
    BY <1>0, <2>1 DEF Found
  <2> QED BY <1>0, <1>3, <2>2 DEF Probed
<1> QED BY <1>1, <1>2, <1>3

LEMMA CandidatesType ==
    ASSUME NEW inside, NEW kind
    PROVE  Candidates(inside, kind) \in Seq({p \in Facilities : KindOf[p] = kind})
<1> DEFINE S == {p \in inside : KindOf[p] = kind}
           near == Only(Places, S)
           U == {p \in Facilities : KindOf[p] = kind}
<1>1. Places \in Seq(Facilities) /\ PerCategory \in Nat
  <2>1. Places \in Seq(STRING) /\ PerCategory \in Nat
    BY SampledAssumption DEF SampledAssumption
  <2>2. Facilities = Elements(Places)
    BY <2>1, ToSetElements DEF Facilities
  <2>3. \A i \in 1..Len(Places) : Places[i] \in Facilities
    BY <2>2 DEF Elements
  <2> QED BY <2>1, <2>3
<1>2. near \in Seq(Facilities \cap S)
  BY <1>1, OnlyType
<1>3. near \in Seq(U)
  <2>1. Facilities \cap S \subseteq U
    OBVIOUS
  <2> HIDE DEF near, S, U
  <2> QED BY <1>2, <2>1
<1> HIDE DEF near, U
<1> DEFINE m == Min({Len(near), PerCategory + 2})
<1>4. m \in 0..Len(near)
  <2>1. Len(near) \in Nat /\ PerCategory + 2 \in Nat
    BY <1>1, <1>3
  <2>2. \E x \in {Len(near), PerCategory + 2} : \A y \in {Len(near), PerCategory + 2} : x <= y
    BY <2>1
  <2>3. m \in {Len(near), PerCategory + 2} /\ \A y \in {Len(near), PerCategory + 2} : m <= y
    BY <2>2 DEF Min
  <2> QED BY <2>1, <2>3
<1>5. SubSeq(near, 1, m) \in Seq(U)
  <2>1. 1 \in 1..(Len(near) + 1)
    BY <1>3
  <2> HIDE DEF m
  <2> QED BY <1>3, <1>4, <2>1, SubSeqToSet
<1>6. Candidates(inside, kind) = SubSeq(near, 1, m)
  BY DEF Candidates, near
<1> QED BY <1>5, <1>6 DEF U

LEMMA RepresentativesProbed ==
    ASSUME NEW walk, NEW kind
    PROVE  Probed(Representatives(walk, kind), walk, kind, ToSet(Candidates(DOMAIN walk, kind)))
<1> DEFINE near == Candidates(DOMAIN walk, kind)
           U == {p \in Facilities : KindOf[p] = kind}
<1>0. near \in Seq(U)
  BY CandidatesType
<1> HIDE DEF near
<1> DEFINE n == Len(near)
           X == Found
           x0 == [shown |-> {}, failed |-> {}]
           next(t, i) == Probe(walk, t, near[i])
           step == [i \in 1..n |-> [t \in X |-> next(t, i)]]
           body(g) == [i \in 0..n |-> IF i = 0 THEN x0 ELSE next(g[i - 1], i)]
           probed == CHOOSE g : g = body(g)
<1>p. \A i \in 1..n : near[i] \in Facilities /\ KindOf[near[i]] = kind
  BY <1>0
<1>a. \A i \in 1..n : \A t \in X : next(t, i) \in X
  BY <1>p DEF Probe, Found
<1>b. Representatives(walk, kind) = probed[n]
  BY DEF Representatives, near
<1>c. n \in Nat /\ x0 \in X
  BY <1>0 DEF Found
<1> HIDE DEF next, X, x0, n
<1>1. step \in [1..n -> [X -> X]]
  BY <1>a
<1>2. PICK g \in [0..n -> X] : g[0] = x0 /\ \A i \in 1..n : g[i] = step[i][g[i - 1]]
  <2> HIDE DEF step
  <2>2. \E g \in [0..n -> X] : g[0] = x0 /\ \A i \in 1..n : g[i] = step[i][g[i - 1]]
    BY <1>1, <1>c, Recursion
  <2> QED BY <2>2, Zenon
<1>3. ASSUME NEW i \in 1..n PROVE g[i] = next(g[i - 1], i)
  <2>1. g[i - 1] \in X
    BY <1>c
  <2>2. g[i] = step[i][g[i - 1]]
    BY <1>2
  <2>3. step[i] = [t \in X |-> next(t, i)]
    OBVIOUS
  <2> HIDE DEF step
  <2> QED BY <2>1, <2>2, <2>3
<1>4. g = body(g)
  BY <1>2, <1>3, <1>c
<1>5. probed = body(probed)
  <2> HIDE DEF body
  <2> QED BY <1>4
<1> HIDE DEF probed
<1>6. probed[0] = x0 /\ \A i \in 1..n : probed[i] = next(probed[i - 1], i)
  BY <1>5, <1>c
<1> DEFINE seen(i) == {near[j] : j \in 1..i}
           T == {i \in 0..n : Probed(probed[i], walk, kind, seen(i))}
<1>7. 0 \in T
  <2>1. seen(0) = {} /\ 0 \in 0..n
    BY <1>c
  <2>2. Probed(x0, walk, kind, {})
    BY FS_EmptySet, SampledAssumption DEF Probed, Found, x0, SampledAssumption
  <2> HIDE DEF seen
  <2> QED BY <1>6, <2>1, <2>2
<1>8. ASSUME NEW i \in 1..n, i - 1 \in T PROVE i \in T
  <2>1. i \in 0..n /\ Probed(probed[i - 1], walk, kind, seen(i - 1))
    BY <1>8, <1>c
  <2>2. seen(i) = seen(i - 1) \cup {near[i]}
    <3>1. 1..i = 1..(i - 1) \cup {i}
      BY <1>c
    <3> QED BY <3>1
  <2> HIDE DEF seen
  <2> DEFINE p == near[i]
             tried == seen(i - 1)
             acc == probed[i - 1]
  <2>3. p \in Facilities /\ KindOf[p] = kind /\ Probed(acc, walk, kind, tried)
    BY <1>p, <2>1
  <2> HIDE DEF p, tried, acc
  <2>4. Probed(Probe(walk, acc, p), walk, kind, tried \cup {p})
    BY <2>3, ProbeKeeps
  <2>5. probed[i] = Probe(walk, acc, p)
    BY <1>6 DEF next, acc, p
  <2>6. Probed(probed[i], walk, kind, seen(i))
    BY <2>2, <2>4, <2>5 DEF tried, p
  <2> QED BY <2>1, <2>6
<1> HIDE DEF T
<1>9. 0..n \subseteq T
  BY <1>7, <1>8, <1>c, InductTo
<1>10. Probed(probed[n], walk, kind, seen(n))
  <2> HIDE DEF seen
  <2>1. n \in T
    BY <1>9, <1>c
  <2> QED BY <2>1 DEF T
<1>11. seen(n) = ToSet(near)
  BY <1>0, ToSetElements DEF n, Elements
<1> QED BY <1>b, <1>10, <1>11 DEF near

----------------------------------------------------------------------------
(* The sampled analyses: the stages of the task, and what each has shown.  *)

StageNames == {"centre", "matrix", "pois", "zones", "boundary"}

SampledRecord == [at : StageNames \cup {"queued", "waiting", "closing", "over"},
                  status : {"queued", "running", "completed", "failed"},
                  result : BOOLEAN, client : {"none", "open", "closed", "cut"}]

SampledTypes ==
    /\ sampled \in [Sampled -> SampledRecord]
    /\ permit \in Sampled \cup {Idle}

\* How far a record is at each place of its task.
Moment(record) ==
    /\ record.at = "queued" => record.status = "queued" /\ ~record.result /\ record.client = "none"
    /\ record.at \in {"waiting"} \cup StageNames =>
          record.status = "running" /\ ~record.result /\ record.client = "open"
    /\ record.at = "closing" =>
          /\ record.status # "queued" /\ record.client = "open"
          /\ record.result <=> record.status = "completed"
    /\ record.at = "over" =>
          /\ record.status \in {"completed", "failed"} /\ record.client # "open"
          /\ record.client = "closed" => (record.result <=> record.status = "completed")
          /\ record.client = "cut" => record.status = "failed"
          /\ record.client = "none" => record.status = "failed" /\ ~record.result

RecordsRight ==
    \A s \in Sampled : Moment(sampled[s]) /\ (sampled[s].at \in StageNames <=> permit = s)

\* What the last stage has shown is as it should be.
ShownRight == RepresentativesFound /\ ZonesExact /\ BoundaryShown

SampledInv == SampledTypes /\ RecordsRight /\ ShownRight

LEMMA StagesAre ==
    /\ ToSet(Stages) = StageNames /\ DOMAIN Stages = 1..5 /\ Len(Stages) = 5
    /\ \A i \in 1..5 : Stages[i] \in StageNames
<1>1. Stages \in Seq(StageNames) /\ Len(Stages) = 5
  BY DEF Stages, StageNames
<1>2. DOMAIN Stages = 1..5 /\ \A i \in 1..5 : Stages[i] \in StageNames
  <2>1. DOMAIN Stages = 1..Len(Stages)
    BY <1>1, LenProperties
  <2>2. \A i \in 1..Len(Stages) : Stages[i] \in StageNames
    BY <1>1, ElementOfSeq
  <2> QED BY <1>1, <2>1, <2>2
<1>3. /\ Stages[1] = "centre" /\ Stages[2] = "matrix" /\ Stages[3] = "pois" /\ Stages[4] = "zones"
      /\ Stages[5] = "boundary"
  BY DEF Stages
<1>4. {Stages[i] : i \in 1..5} = StageNames
  <2>1. 1 \in 1..5 /\ 2 \in 1..5 /\ 3 \in 1..5 /\ 4 \in 1..5 /\ 5 \in 1..5
    OBVIOUS
  <2>2. ASSUME NEW name \in StageNames PROVE \E i \in 1..5 : Stages[i] = name
    BY <1>3, <2>1 DEF StageNames
  <2> QED BY <1>2, <2>2
<1> QED BY <1>1, <1>2, <1>4 DEF ToSet

\* As long as a stage works, or a new one begins, nothing that was shown is wrong.
LEMMA NothingShown ==
    ASSUME work'.stage \notin {"routes", "zones", "boundary"}
    PROVE  ShownRight'
BY DEF ShownRight, RepresentativesFound, ZonesExact, BoundaryShown

LEMMA SameShown == ASSUME ShownRight, UNCHANGED work PROVE ShownRight'
BY DEF ShownRight, RepresentativesFound, ZonesExact, BoundaryShown

\* Where one task goes on, and its record with it.
LEMMA RecordMoves ==
    ASSUME SampledInv, NEW s \in Sampled,
           NEW at, NEW how, NEW report, NEW link,
           sampled' = [sampled EXCEPT ![s] = [at |-> at, status |-> how,
                                             result |-> report, client |-> link]],
           [at |-> at, status |-> how, result |-> report, client |-> link] \in SampledRecord,
           Moment([at |-> at, status |-> how, result |-> report, client |-> link]),
           permit' \in Sampled \cup {Idle}, at \in StageNames <=> permit' = s,
           \A t \in Sampled \ {s} : permit' = t <=> permit = t,
           ShownRight'
    PROVE  SampledInv'
<1>1. SampledTypes /\ RecordsRight
  BY DEF SampledInv
<1>2. SampledTypes'
  BY <1>1 DEF SampledTypes
<1>3. ASSUME NEW t \in Sampled
      PROVE  Moment(sampled'[t]) /\ (sampled'[t].at \in StageNames <=> permit' = t)
  <2>1. CASE t = s
    <3>1. sampled'[t] = [at |-> at, status |-> how, result |-> report, client |-> link]
      BY <1>1, <2>1 DEF SampledTypes
    <3>2. sampled'[t].at = at
      BY <3>1
    <3> QED BY <2>1, <3>1, <3>2
  <2>2. CASE t # s
    <3>1. sampled'[t] = sampled[t]
      BY <1>1, <2>2 DEF SampledTypes
    <3> QED BY <1>1, <2>2, <3>1 DEF RecordsRight
  <2> QED BY <2>1, <2>2
<1> QED BY <1>2, <1>3 DEF SampledInv, RecordsRight

\* The record of a task before a step.
LEMMA RecordNow ==
    ASSUME SampledInv, NEW s \in Sampled
    PROVE  /\ sampled[s] \in SampledRecord /\ Moment(sampled[s])
           /\ sampled[s].at \in StageNames <=> permit = s
           /\ sampled[s] = [at |-> sampled[s].at, status |-> sampled[s].status,
                            result |-> sampled[s].result, client |-> sampled[s].client]
           /\ permit \in Sampled \cup {Idle} /\ Idle # s
<1>1. sampled[s] \in SampledRecord /\ permit \in Sampled \cup {Idle}
  BY DEF SampledInv, SampledTypes
<1>2. Idle # s
  BY SampledAssumption DEF SampledAssumption
<1> QED BY <1>1, <1>2 DEF SampledInv, RecordsRight, SampledRecord

\* However a task ends its work, it has given its place back and its client closes.
LEMMA LeavesKeeps ==
    ASSUME SampledInv, NEW s \in Sampled, NEW how \in {"running", "completed", "failed"},
           sampled[s].at \in {"waiting"} \cup StageNames, Leaves(s, how)
    PROVE  SampledInv'
<1>1. /\ sampled[s] \in SampledRecord /\ Moment(sampled[s]) /\ SampledTypes /\ ShownRight
      /\ permit \in Sampled \cup {Idle} /\ Idle # s
  BY RecordNow DEF SampledInv
<1>2. sampled[s].client = "open"
  BY <1>1 DEF Moment
<1>3. sampled' = [sampled EXCEPT ![s] = [at |-> "closing", status |-> how,
                                        result |-> (how = "completed"), client |-> "open"]]
  BY <1>2 DEF Leaves
<1> DEFINE record == [at |-> "closing", status |-> how, result |-> (how = "completed"), client |-> "open"]
<1>4. /\ record.at = "closing" /\ record.status = how /\ record.client = "open"
      /\ record.result = (how = "completed")
  OBVIOUS
<1>5. (how = "completed") \in BOOLEAN
  OBVIOUS
<1>6. record \in SampledRecord
  BY <1>5 DEF SampledRecord
<1>7. record.result <=> record.status = "completed"
  BY <1>4, Zenon
<1> HIDE DEF record
<1>8. Moment(record)
  BY <1>4, <1>7 DEF Moment, StageNames
<1>9. /\ permit' = IF permit = s THEN Idle ELSE permit
      /\ work' = IF permit = s THEN NoWork ELSE work
  BY DEF Leaves
<1>10. ShownRight'
  <2>1. CASE permit = s
    BY <1>9, <2>1, NothingShown DEF NoWork
  <2>2. CASE permit # s
    BY <1>1, <1>9, <2>2, SameShown
  <2> QED BY <2>1, <2>2
<1>11. /\ permit' \in Sampled \cup {Idle} /\ permit' # s /\ "closing" \notin StageNames
       /\ \A t \in Sampled \ {s} : permit' = t <=> permit = t
  BY <1>1, <1>9, SampledAssumption DEF SampledAssumption, StageNames
<1> QED BY <1>3, <1>6, <1>8, <1>10, <1>11, RecordMoves DEF record

\* The task is over, however its client closed, or without having begun.
LEMMA EndsKeeps ==
    ASSUME SampledInv, NEW s \in Sampled, NeverStarts(s) \/ ClientCloses(s) \/ CloseFails(s)
    PROVE  SampledInv'
<1>1. /\ sampled[s] \in SampledRecord /\ Moment(sampled[s]) /\ SampledTypes /\ ShownRight
      /\ sampled[s].at \in StageNames <=> permit = s
      /\ permit \in Sampled \cup {Idle}
  BY RecordNow DEF SampledInv
<1>2. sampled[s].at \in {"queued", "closing"} /\ UNCHANGED <<permit, work>>
  BY DEF NeverStarts, ClientCloses, CloseFails, At
<1>3. ShownRight' /\ permit # s /\ "over" \notin StageNames
  BY <1>1, <1>2, SameShown DEF StageNames
<1>4. \E how \in {"completed", "failed"}, link \in {"none", "closed", "cut"} :
        /\ sampled' = [sampled EXCEPT ![s] = [at |-> "over", status |-> how,
                                             result |-> sampled[s].result, client |-> link]]
        /\ link = "closed" => (sampled[s].result <=> how = "completed")
        /\ link = "cut" => how = "failed"
        /\ link = "none" => how = "failed" /\ ~sampled[s].result
  <2>1. CASE NeverStarts(s)
    <3>1. sampled[s].client = "none" /\ ~sampled[s].result
      BY <1>1, <2>1 DEF NeverStarts, At, Moment
    <3>2. sampled' = [sampled EXCEPT ![s] = [at |-> "over", status |-> "failed",
                                            result |-> sampled[s].result, client |-> "none"]]
      <4>1. sampled' = [sampled EXCEPT ![s] = [at |-> "over", status |-> "failed",
                                  result |-> sampled[s].result, client |-> sampled[s].client]]
        BY <2>1 DEF NeverStarts
      <4> QED BY <3>1, <4>1
    <3> QED BY <3>1, <3>2
  <2>2. CASE ClientCloses(s)
    <3>1. /\ sampled[s].result <=> sampled[s].status = "completed"
          /\ sampled[s].status \in {"running", "completed", "failed"}
      BY <1>1, <2>2 DEF ClientCloses, At, Moment, SampledRecord
    <3> DEFINE how == IF sampled[s].status = "running" THEN "failed" ELSE sampled[s].status
    <3>2. sampled' = [sampled EXCEPT ![s] = [at |-> "over", status |-> how,
                                            result |-> sampled[s].result, client |-> "closed"]]
      BY <2>2 DEF ClientCloses
    <3>3. how \in {"completed", "failed"} /\ (sampled[s].result <=> how = "completed")
      BY <3>1
    <3> QED BY <3>2, <3>3
  <2>3. CASE CloseFails(s)
    <3>1. sampled' = [sampled EXCEPT ![s] = [at |-> "over", status |-> "failed",
                                            result |-> sampled[s].result, client |-> "cut"]]
      BY <2>3 DEF CloseFails
    <3> QED BY <3>1
  <2> QED BY <2>1, <2>2, <2>3
<1>5. PICK how \in {"completed", "failed"}, link \in {"none", "closed", "cut"} :
        /\ sampled' = [sampled EXCEPT ![s] = [at |-> "over", status |-> how,
                                             result |-> sampled[s].result, client |-> link]]
        /\ link = "closed" => (sampled[s].result <=> how = "completed")
        /\ link = "cut" => how = "failed"
        /\ link = "none" => how = "failed" /\ ~sampled[s].result
  BY <1>4
<1> DEFINE record == [at |-> "over", status |-> how, result |-> sampled[s].result, client |-> link]
<1>6. record \in SampledRecord
  BY <1>1 DEF SampledRecord
<1>7. /\ record.at = "over" /\ record.status = how /\ record.client = link
      /\ record.result = sampled[s].result
  OBVIOUS
<1> HIDE DEF record
<1>8. Moment(record)
  BY <1>5, <1>7 DEF Moment, StageNames
<1> QED BY <1>1, <1>2, <1>3, <1>5, <1>6, <1>8, RecordMoves DEF record

\* A step of one task that neither ends it nor fails.
LEMMA MovesOn ==
    ASSUME SampledInv, NEW s \in Sampled, NEW place \in StageNames, Goes(s, place),
           sampled[s].at \in {"waiting"} \cup StageNames, permit' = s, permit \in {s, Idle},
           ShownRight'
    PROVE  SampledInv'
<1>1. /\ sampled[s] \in SampledRecord /\ Moment(sampled[s]) /\ SampledTypes
  BY RecordNow DEF SampledInv
<1>2. sampled[s].status = "running" /\ sampled[s].result = FALSE /\ sampled[s].client = "open"
  BY <1>1 DEF Moment, SampledRecord
<1>3. sampled' = [sampled EXCEPT ![s] = [at |-> place, status |-> "running",
                                        result |-> FALSE, client |-> "open"]]
  <2>1. [sampled[s] EXCEPT !.at = place] = [at |-> place, status |-> sampled[s].status,
            result |-> sampled[s].result, client |-> sampled[s].client]
    BY <1>1 DEF SampledRecord
  <2> QED BY <1>2, <2>1 DEF Goes
<1> DEFINE record == [at |-> place, status |-> "running", result |-> FALSE, client |-> "open"]
<1>4. record \in SampledRecord /\ Moment(record)
  BY DEF SampledRecord, Moment, StageNames
<1>5. \A t \in Sampled \ {s} : permit' = t <=> permit = t
  BY SampledAssumption DEF SampledAssumption
<1> QED BY <1>3, <1>4, <1>5, RecordMoves

LEMMA SampledStartsKeeps == ASSUME SampledInv, NEW s \in Sampled, SampledStarts(s) PROVE SampledInv'
<1>1. /\ sampled[s].at = "queued" /\ UNCHANGED <<permit, work>>
      /\ sampled' = [sampled EXCEPT ![s] = [at |-> "waiting", status |-> "running", result |-> FALSE, client |-> "open"]]
  BY DEF SampledStarts, At
<1>2. ShownRight' /\ permit \in Sampled \cup {Idle} /\ permit # s
  BY <1>1, RecordNow, SameShown DEF SampledInv, StageNames
<1> DEFINE record == [at |-> "waiting", status |-> "running", result |-> FALSE, client |-> "open"]
<1>3. record \in SampledRecord /\ Moment(record) /\ "waiting" \notin StageNames
  BY DEF SampledRecord, Moment, StageNames
<1> QED BY <1>1, <1>2, <1>3, RecordMoves

LEMMA EntersKeeps == ASSUME SampledInv, NEW s \in Sampled, EntersSampling(s) PROVE SampledInv'
<1>1. permit = Idle /\ permit' = s /\ Goes(s, "centre") /\ UNCHANGED work /\ sampled[s].at = "waiting"
  BY DEF EntersSampling, PermitFree, At
<1>2. ShownRight'
  BY <1>1, SameShown DEF SampledInv
<1>3. "centre" \in StageNames
  BY DEF StageNames
<1> QED BY <1>1, <1>2, <1>3, MovesOn

LEMMA OnwardKeeps == ASSUME SampledInv, NEW s \in Sampled, Onward(s) PROVE SampledInv'
<1>1. PICK i \in DOMAIN Stages :
          /\ At(s, Stages[i])
          /\ IF i = Len(Stages) THEN Leaves(s, "completed")
             ELSE Goes(s, Stages[i + 1]) /\ work' = NoWork /\ UNCHANGED permit
  BY DEF Onward
<1>2. permit = s
  BY DEF Onward
<1>3. i \in 1..5 /\ Len(Stages) = 5 /\ Stages[i] \in StageNames
  BY <1>1, StagesAre
<1>4. sampled[s].at \in {"waiting"} \cup StageNames
  BY <1>1, <1>3 DEF At
<1>5. CASE i = 5
  BY <1>1, <1>3, <1>4, <1>5, LeavesKeeps
<1>6. CASE i # 5
  <2>1. Goes(s, Stages[i + 1]) /\ work' = NoWork /\ permit' = s
    BY <1>1, <1>2, <1>3, <1>6
  <2>2. i + 1 \in 1..5
    BY <1>3, <1>6
  <2>3. Stages[i + 1] \in StageNames
    BY <2>2, StagesAre
  <2>4. ShownRight'
    BY <2>1, NothingShown DEF NoWork
  <2> QED BY <1>2, <1>4, <2>1, <2>3, <2>4, MovesOn
<1> QED BY <1>5, <1>6

\* A stage that shows something changes nothing else.
LEMMA ShowsKeeps == ASSUME SampledInv, UNCHANGED <<sampled, permit>>, ShownRight' PROVE SampledInv'
BY DEF SampledInv, SampledTypes, RecordsRight

\* A category has fewer routes than it should only if its reserve is used up.
LEMMA PoisKeeps == ASSUME SampledInv, NEW s \in Sampled, PoisCollected(s) PROVE SampledInv'
<1>1. UNCHANGED <<sampled, permit>>
  BY DEF PoisCollected
<1>2. PICK inside \in SUBSET ToSet(Places) : \E walk \in [inside -> Walks] :
          work' = [stage |-> "routes", walk |-> walk,
                   found |-> [k \in ToSet(Services) |-> Representatives(walk, k)]]
  BY DEF PoisCollected
<1>3. PICK walk \in [inside -> Walks] :
          work' = [stage |-> "routes", walk |-> walk,
                   found |-> [k \in ToSet(Services) |-> Representatives(walk, k)]]
  BY <1>2
<1>4. ASSUME NEW k \in ToSet(Services)
      PROVE  work'.walk = walk
             /\ Probed(work'.found[k], walk, k, ToSet(Candidates(DOMAIN walk, k)))
  <2>1. work'.found[k] = Representatives(walk, k) /\ work'.walk = walk
    BY <1>3
  <2> QED BY <2>1, RepresentativesProbed
<1>5. RepresentativesFound'
  BY <1>4 DEF RepresentativesFound, Probed
<1>6. ShownRight'
  <2>1. work'.stage = "routes"
    BY <1>3
  <2> QED BY <1>5, <2>1 DEF ShownRight, ZonesExact, BoundaryShown
<1> QED BY <1>1, <1>6, ShowsKeeps

\* A zone lacks exactly what it says, and only slivers are left out.
LEMMA ZonesKeeps == ASSUME SampledInv, NEW s \in Sampled, ZonesDrawn(s) PROVE SampledInv'
<1>1. UNCHANGED <<sampled, permit>>
  BY DEF ZonesDrawn
<1>2. PICK domain \in SUBSET Street, v \in Verdicts, at \in [ToSet(Services) -> SUBSET Spots] :
          work' = [stage |-> "zones", domain |-> domain, verdict |-> v, at |-> at,
                   zones |-> IF v.status = "unavailable" THEN {} ELSE Zones(domain, at, Assessed(v)),
                   status |-> IF v.status = "unavailable" THEN "unknown"
                              ELSE ZoneStatus(domain, Assessed(v), v.status = "ready")]
  BY DEF ZonesDrawn
<1> DEFINE cats == v.complete
           lack(x) == Lacking(x, at, cats)
           alike(x) == Lack(domain, at, cats, lack(x))
<1>3. /\ work'.stage = "zones" /\ work'.domain = domain /\ work'.verdict = v /\ work'.at = at
      /\ v.status = "unavailable" => work'.zones = {} /\ work'.status = "unknown"
      /\ v.status # "unavailable" => /\ work'.zones = Zones(domain, at, cats)
                                     /\ work'.status = ZoneStatus(domain, cats, v.status = "ready")
  BY <1>2 DEF Assessed
<1>4. cats \subseteq ToSet(Services) /\ (v.status = "unavailable" => cats = {})
  BY DEF Verdicts
<1>5. /\ \A z \in work'.zones : \A x \in z.area : x \in domain /\ z.lacks = lack(x)
      /\ \A x \in domain : lack(x) # {} /\ Cardinality(Part(alike(x), x)) >= MinZone =>
             \E z \in work'.zones : x \in z.area
  <2>1. CASE v.status = "unavailable"
    BY <1>3, <1>4, <2>1 DEF Lacking
  <2>2. CASE v.status # "unavailable"
    <3>1. work'.zones = Zones(domain, at, cats)
      BY <1>3, <2>2
    <3> HIDE DEF cats
    <3> QED BY <1>4, <3>1, ZonesOf
  <2> QED BY <2>1, <2>2
<1>6. work'.status = "confirmed" => cats = ToSet(Services)
  BY <1>3 DEF ZoneStatus
<1>7. \A x : alike(x) = {y \in domain : lack(y) = lack(x)}
  BY DEF Lack
<1>8. ZonesExact'
  <2>1. \A x : lack(x) = {c \in v.complete : \A p \in at[c] : x - p \notin (-Radius)..Radius}
    BY DEF Lacking
  <2>2. \A x : {y \in domain : lack(y) = lack(x)} = alike(x)
    BY <1>7
  <2> HIDE DEF lack, alike
  <2>3. \A x : {y \in domain : {c \in v.complete : \A p \in at[c] : y - p \notin (-Radius)..Radius} = lack(x)}
              = alike(x)
    BY <2>1, <2>2
  <2>4. /\ \A z \in work'.zones : \A x \in z.area : x \in work'.domain /\ z.lacks = lack(x)
        /\ \A x \in work'.domain :
              lack(x) # {} /\ Cardinality(Part(alike(x), x)) >= MinZone =>
                  \E z \in work'.zones : x \in z.area
        /\ work'.status = "confirmed" => work'.verdict.complete = ToSet(Services)
    BY <1>3, <1>5, <1>6
  <2> DEFINE lacks(x) == {c \in work'.verdict.complete : \A p \in work'.at[c] : x - p \notin (-Radius)..Radius}
             like(x) == {y \in work'.domain : lacks(y) = lacks(x)}
  <2>5. \A x : lacks(x) = lack(x)
    BY <1>3, <2>1
  <2>6. \A x : like(x) = alike(x)
    BY <1>3, <2>2, <2>5
  <2> HIDE DEF lacks, like
  <2>7. /\ \A z \in work'.zones : \A x \in z.area : x \in work'.domain /\ z.lacks = lacks(x)
        /\ \A x \in work'.domain :
              lacks(x) # {} /\ Cardinality(Part(like(x), x)) >= MinZone =>
                  \E z \in work'.zones : x \in z.area
    BY <2>4, <2>5, <2>6
  <2> QED BY <2>4, <2>7 DEF ZonesExact, lacks, like
<1>9. ShownRight'
  BY <1>3, <1>8 DEF ShownRight, RepresentativesFound, BoundaryShown
<1> QED BY <1>1, <1>9, ShowsKeeps

\* Where routes reach the boundary, each direction shows one sample at most.
LEMMA BoundaryKeeps == ASSUME SampledInv, NEW s \in Sampled, BoundaryDrawn(s) PROVE SampledInv'
<1>1. UNCHANGED <<sampled, permit>>
  BY DEF BoundaryDrawn
<1>2. PICK o \in [Directions \X {Inner, Outer} -> Outcomes] :
          LET asked == UNION {Asked(o, d) : d \in Directions}
              drawn == {x \in asked : o[x] \in {"edge", "short", "torn"}}
              edges == {x \in asked : o[x] \in {"edge", "torn"}}
          IN work' = [stage |-> "boundary", outcome |-> o, shown |-> OutermostKept(drawn, edges)]
  BY DEF BoundaryDrawn
<1> DEFINE asked == UNION {Asked(o, d) : d \in Directions}
           drawn == {x \in asked : o[x] \in {"edge", "short", "torn"}}
           edges == {x \in asked : o[x] \in {"edge", "torn"}}
           shown == OutermostKept(drawn, edges)
<1>3. work'.stage = "boundary" /\ work'.outcome = o /\ work'.shown = shown
  BY <1>2
<1>4. asked \subseteq Directions \X {1, 2}
  <2> SUFFICES ASSUME NEW d \in Directions PROVE Asked(o, d) \subseteq Directions \X {1, 2}
    OBVIOUS
  <2> QED BY DEF Asked, Inner, Outer
<1>5. \A d \in Directions : <<d, 2>> \in asked
  BY DEF Asked, Inner, Outer
<1> HIDE DEF asked
<1>6. ASSUME \E x \in shown : o[x] = "edge", NEW x \in shown, NEW y \in shown
      PROVE  o[x] # "short" /\ (x[1] = y[1] => x = y)
  <2>1. edges # {}
    BY <1>6 DEF OutermostKept
  <2>2. shown = {e \in edges : \A f \in edges : f[1] = e[1] => f[2] <= e[2]}
    BY <2>1 DEF OutermostKept
  <2>3. x \in edges /\ y \in edges /\ (x[1] = y[1] => x[2] <= y[2] /\ y[2] <= x[2])
    BY <2>2
  <2>4. /\ x = <<x[1], x[2]>> /\ y = <<y[1], y[2]>> /\ x[2] \in {1, 2} /\ y[2] \in {1, 2}
    BY <1>4, <2>3
  <2>5. x[1] = y[1] => x[2] = y[2]
    BY <2>3, <2>4
  <2> QED BY <2>3, <2>4, <2>5
<1>7. ASSUME NEW d \in Directions, o[<<d, 2>>] = "edge" PROVE <<d, 2>> \in shown
  <2>1. <<d, 2>> \in edges
    BY <1>5, <1>7
  <2>2. shown = {e \in edges : \A f \in edges : f[1] = e[1] => f[2] <= e[2]}
    BY <2>1 DEF OutermostKept
  <2>3. \A f \in edges : f[2] <= 2
    BY <1>4
  <2> QED BY <2>1, <2>2, <2>3
<1> HIDE DEF shown
<1>8. BoundaryShown'
  BY <1>3, <1>6, <1>7 DEF BoundaryShown, Outer
<1>9. ShownRight'
  BY <1>3, <1>8 DEF ShownRight, RepresentativesFound, ZonesExact
<1> QED BY <1>1, <1>9, ShowsKeeps

LEMMA SampledInitially == SampledInit => SampledInv
<1> SUFFICES ASSUME SampledInit PROVE SampledInv
  OBVIOUS
<1>1. SampledTypes
  BY DEF SampledInit, SampledTypes, SampledRecord
<1>2. RecordsRight
  BY SampledAssumption DEF SampledInit, RecordsRight, Moment, StageNames, SampledAssumption
<1>3. ShownRight
  BY DEF SampledInit, NoWork, ShownRight, RepresentativesFound, ZonesExact, BoundaryShown
<1> QED BY <1>1, <1>2, <1>3 DEF SampledInv

LEMMA SampledKeeps == SampledInv /\ [SampledNext]_sampledVars => SampledInv'
<1> SUFFICES ASSUME SampledInv, [SampledNext]_sampledVars PROVE SampledInv'
  OBVIOUS
<1>1. ASSUME NEW s \in Sampled, SampledStep(s) PROVE SampledInv'
  <2>1. CASE SampledStarts(s)
    BY <2>1, SampledStartsKeeps
  <2>2. CASE EntersSampling(s)
    BY <2>2, EntersKeeps
  <2>3. CASE SampledFails(s)
    BY <2>3, StagesAre, LeavesKeeps DEF SampledFails
  <2>4. CASE CentreConverted(s) \/ IsochroneDrawn(s)
    <3>1. UNCHANGED <<sampled, permit>> /\ work'.stage \in {"centre", "isochrone"}
      BY <2>4 DEF CentreConverted, IsochroneDrawn
    <3> QED BY <3>1, NothingShown, ShowsKeeps
  <2>5. CASE PoisCollected(s)
    BY <2>5, PoisKeeps
  <2>6. CASE ZonesDrawn(s)
    BY <2>6, ZonesKeeps
  <2>7. CASE BoundaryDrawn(s)
    BY <2>7, BoundaryKeeps
  <2>8. CASE Onward(s)
    BY <2>8, OnwardKeeps
  <2>9. CASE NeverStarts(s) \/ ClientCloses(s) \/ CloseFails(s)
    BY <2>9, EndsKeeps
  <2> QED BY <1>1, <2>1, <2>2, <2>3, <2>4, <2>5, <2>6, <2>7, <2>8, <2>9 DEF SampledStep
<1>2. CASE UNCHANGED sampledVars
  <2>1. UNCHANGED <<sampled, permit, work>>
    BY <1>2 DEF sampledVars
  <2> QED BY <2>1, SameShown, ShowsKeeps DEF SampledInv
<1> QED BY <1>1, <1>2 DEF SampledNext

----------------------------------------------------------------------------
(* Both analyses of the product.                                           *)

LEMMA SampledInvariant == SampledSpec => []SampledInv
BY SampledInitially, SampledKeeps, PTL DEF SampledSpec

\* One analysis samples at a time and gives its place back before its client closes;
\* a completed record has its report, whatever the close comes to, and only a close
\* that failed or was cancelled leaves a report in a failed one (_run_sampled_task).
THEOREM SamplingIsExclusive == SampledSpec => []OneSamples
<1>1. SampledInv => OneSamples
  <2> SUFFICES ASSUME SampledInv, NEW s \in Sampled
               PROVE  LET record == sampled[s] IN
                      /\ record.at \in StageNames <=> permit = s
                      /\ record.status = "completed" => record.result
                      /\ record.result => \/ record.status = "completed" /\ record.client \in {"open", "closed"}
                                          \/ record.status = "failed" /\ record.client = "cut"
                      /\ record.at = "over" => /\ record.status \in {"completed", "failed"}
                                               /\ record.client # "open"
    BY StagesAre DEF OneSamples
  <2> QED BY RecordNow DEF Moment, SampledRecord
<1> QED BY <1>1, SampledInvariant, PTL

\* A category has all the routes it can, zones lack what they say and leave nothing
\* out, and the boundary has one sample for each direction
\* (collect_representative_routes, build_blind_zone_coverage, collect_sampling_routes).
THEOREM SamplesAreSound == SampledSpec => []SampledSound
<1>1. SampledInv => SampledSound
  BY DEF SampledInv, ShownRight, SampledSound
<1> QED BY <1>1, SampledInvariant, PTL

\* A behaviour of the whole is one of the analysis and one of the sampled analyses:
\* their records and endpoints are separate (backend/app/main.py).
THEOREM ModesAreSeparate == ModesSpec => Spec /\ SampledSpec
<1>1. ModesInit => Init /\ SampledInit
  BY DEF ModesInit
<1>2. [ModesNext]_modeVars => [Next]_vars /\ [SampledNext]_sampledVars
  BY DEF ModesNext, modeVars
<1> QED BY <1>1, <1>2, PTL DEF ModesSpec, Spec, SampledSpec

\* What the run checks of the two, for every value of the constants.
THEOREM ModesAreSound ==
    ModesSpec => [](LastRevisionShown /\ RecordSettled /\ CoverageOfRevision /\ OneSamples /\ SampledSound)
BY ModesAreSeparate, SamplingIsExclusive, SamplesAreSound, LastRevisionIsShown, RecordsAreSettled, CoverageIsOfRevision, PTL
===============================================================================
