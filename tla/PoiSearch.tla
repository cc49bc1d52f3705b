------------------------------ MODULE PoiSearch ------------------------------
(***************************************************************************)
(* The search for facilities around a start point (backend/app/            *)
(* poi_search.py, pois.py): an area is cut into tiles, every tile is asked *)
(* for every category, cached pages are taken first and a few workers      *)
(* fetch what is missing, within a time and a request budget.              *)
(*                                                                         *)
(* The provider has a listing for each query and hands it out in pages.    *)
(* It is trusted as far as the code's docstring trusts it: totals are      *)
(* right up to the provider's limit and may be left out below it, and a    *)
(* page without a total is short only at the end of the listing.  How one  *)
(* page is fetched is the subject of PoiFetch.  Coordinates are left out.  *)
(***************************************************************************)
EXTENDS Naturals, Sequences, FiniteSets, SequencesExt, FiniteSetsExt, Recursions

CONSTANTS
    Queries,       \* one keyword of one category on one tile
    Categories,
    CategoryOf,    \* the category of each query
    Faulty,        \* bound: the queries whose first page may lack a record or hold an invalid one
    Workers,       \* min(4, baidu_max_concurrency)
    Sizes,         \* bound: sizes of listings
    OldSize,       \* what a stale page still knows
    PageSize,      \* 20
    ProviderLimit, \* 150
    PageLimits,    \* poi_max_pages
    MaxTiles,      \* poi_max_tiles
    MaxRequests,   \* poi_max_requests
    NoQuery        \* no query

ASSUME SearchAssumption ==
    /\ IsFiniteSet(Queries) /\ {NoQuery, "idle", "over"} \cap Queries = {}
    /\ Categories # {} /\ CategoryOf \in [Queries -> Categories]
    /\ Workers # {}
    /\ Sizes \cup PageLimits \subseteq Nat
    /\ {OldSize, ProviderLimit, MaxTiles, MaxRequests} \subseteq Nat
    /\ PageSize \in Nat \ {0}

VARIABLES
    size, told,     \* the provider: its listings, and whether it gives totals
    fault,          \* what is wrong with which query's first page
    spread, pages,  \* the tiles the area needs; poi_max_pages
    phase,          \* where search_tiles and its caller stand
    data,           \* query["data"]: page numbers, fresh and stale
    queue, worker,  \* the deque; the query each worker reads, or "idle", "over"
    cut,            \* workers with an undelivered cancellation
    err,            \* queries with an error
    used,           \* API requests of this search
    flags,          \* a refusal, a worker's exception, lateness, a caller gone, the mode
    report          \* what the analysis is told

world == <<size, told, fault, spread, pages>>
search == <<phase, data, queue, worker, cut, err, used, flags, report>>
searchVars == <<world, search>>

NoFault == [query |-> NoQuery, kind |-> "none"]
NoFlags == [refused |-> FALSE, failed |-> FALSE, late |-> FALSE, gone |-> FALSE, offline |-> FALSE, refresh |-> FALSE]
NoReport == [status |-> "none", complete |-> {}, placed |-> FALSE, survey |-> FALSE]

SearchInit ==
    /\ size = [q \in Queries |-> 0] /\ told = TRUE /\ fault = NoFault
    /\ spread = 1 /\ pages = 1
    /\ phase = "idle"
    /\ data = [q \in Queries |-> [fresh |-> {}, stale |-> {}]]
    /\ queue = <<>> /\ worker = [w \in Workers |-> "over"] /\ cut = {}
    /\ err = {} /\ used = 0 /\ flags = NoFlags /\ report = NoReport

\* Some area is asked for, of a provider that knows some places there.
Asked ==
    /\ phase = "idle" /\ phase' = "new"
    /\ size' \in [Queries -> Sizes] /\ told' \in BOOLEAN
    /\ \A q \in Queries : told' \/ size'[q] < ProviderLimit
    /\ fault' \in {NoFault} \cup [query : Faulty, kind : {"short", "invalid"}]
    /\ fault'.kind = "short" => told'
    /\ spread' \in 1..(MaxTiles + 1) /\ pages' \in PageLimits
    /\ UNCHANGED <<data, queue, worker, cut, err, used, flags, report>>

----------------------------------------------------------------------------
(* One page: search_poi_page and _terminal.                                *)

Least(a, b) == IF a < b THEN a ELSE b

Present(d, q) == d[q].fresh \cup d[q].stale
Listing(d, q, n) == IF n \in d[q].stale THEN OldSize ELSE size[q]

\* What the provider gives away of a listing.
Total(d, q, n) == Least(Listing(d, q, n), ProviderLimit)

Raw(d, q, n) ==
    LET before == Least(Total(d, q, n), n * PageSize)
        full   == Least(PageSize, Total(d, q, n) - before)
    IN IF n = 0 /\ full > 0 /\ fault = [query |-> q, kind |-> "short"] THEN full - 1 ELSE full

Discarded(d, q) ==
    0 \in Present(d, q) /\ Raw(d, q, 0) > 0 /\ fault = [query |-> q, kind |-> "invalid"]

Terminal(d, q, n) ==
    IF told THEN (n + 1) * PageSize >= Total(d, q, n) ELSE Raw(d, q, n) < PageSize

\* next_missing: the first page that is not there, unless a terminal one comes first.
NextMissing(d, q) ==
    {n \in 0..(pages - 1) :
        /\ n \notin Present(d, q)
        /\ \A k \in 0..(n - 1) : k \in Present(d, q) /\ ~Terminal(d, q, k)}

----------------------------------------------------------------------------
(* search_tiles, from the cached pages to the end of the workers.          *)

Unfinished(d) == Only(SetToSeq(Queries), {q \in Queries : NextMissing(d, q) # {}})

\* The pages of a listing that somebody may have asked for before.
Worthwhile(q) ==
    {n \in 0..(pages - 1) : n = 0 \/ n * PageSize < Least(size[q], ProviderLimit)}

\* The cached pages, unless a refresh is asked for.  In offline use it ends here.
TakesCached(refresh, offline) ==
    /\ phase = "new" /\ ~(refresh /\ offline)
    /\ \E cached \in [Queries -> SUBSET (0..(pages - 1))] :
          /\ \A q \in Queries : cached[q] \subseteq IF refresh THEN {} ELSE Worthwhile(q)
          /\ data' = [q \in Queries |-> [fresh |-> cached[q], stale |-> {}]]
    /\ IF offline THEN phase' = "searched" /\ UNCHANGED <<queue, worker>>
       ELSE /\ phase' = "online"
            /\ queue' = Unfinished(data')
            /\ worker' = [w \in Workers |-> "idle"]
    /\ flags' = [flags EXCEPT !.offline = offline, !.refresh = refresh]
    /\ UNCHANGED <<world, cut, err, used, report>>

\* The head of the worker's loop.
Goes(w, line, sent) ==
    IF line = <<>> \/ sent >= MaxRequests
    THEN worker' = [worker EXCEPT ![w] = "over"] /\ queue' = line
    ELSE worker' = [worker EXCEPT ![w] = Head(line)] /\ queue' = Tail(line)

WorkerStarts(w) ==
    /\ worker[w] = "idle" /\ w \notin cut
    /\ Goes(w, queue, used)
    /\ UNCHANGED <<world, phase, data, cut, err, used, flags, report>>

Reads(w) == worker[w] \in Queries /\ w \notin cut

\* A read sends none when somebody else has the answer, several when it is retried;
\* a refused client sends none.
Sends(sent) ==
    /\ sent <= MaxRequests - used /\ (sent > 0 => ~flags.refused)
    /\ used' = used + sent

Requeued(d, q) == IF NextMissing(d, q) # {} THEN Append(queue, q) ELSE queue

\* A page: a fresh one, or a stale one for want of a better.
PageComes(w, stale, sent) ==
    /\ Reads(w) /\ Sends(sent)
    /\ LET q == worker[w] IN
       \E n \in NextMissing(data, q) :
          /\ data' = IF stale THEN [data EXCEPT ![q].stale = @ \cup {n}]
                                       ELSE [data EXCEPT ![q].fresh = @ \cup {n}]
          /\ Goes(w, Requeued(data', q), used')
    /\ UNCHANGED <<world, phase, cut, err, flags, report>>

\* An error the worker expects: it leaves the query and goes on.
ReadFails(w, sent) ==
    /\ Reads(w) /\ Sends(sent)
    /\ err' = err \cup {worker[w]}
    /\ Goes(w, queue, used')
    /\ UNCHANGED <<world, phase, data, cut, flags, report>>

\* No quota left, or no permission: the worker stops.
Refusal(w, sent) ==
    /\ Reads(w) /\ Sends(sent)
    /\ err' = err \cup {worker[w]}
    /\ flags' = [flags EXCEPT !.refused = TRUE]
    /\ worker' = [worker EXCEPT ![w] = "over"]
    /\ UNCHANGED <<world, phase, data, queue, cut, report>>

\* Any other exception ends the worker's task.
WorkerFails(w) ==
    /\ Reads(w)
    /\ flags' = [flags EXCEPT !.failed = TRUE]
    /\ worker' = [worker EXCEPT ![w] = "over"]
    /\ UNCHANGED <<world, phase, data, queue, cut, err, used, report>>

Running == {w \in Workers : worker[w] # "over"}

TimesOut ==
    /\ phase = "online" /\ Running # {}
    /\ phase' = "settling" /\ cut' = Running
    /\ flags' = [flags EXCEPT !.late = TRUE]
    /\ UNCHANGED <<world, data, queue, worker, err, used, report>>

\* The job that searches is cancelled, before or while the workers are gathered.
CallerCancelled ==
    /\ phase \in {"online", "settling"} /\ ~flags.gone
    /\ phase' = "settling" /\ cut' = Running
    /\ flags' = [flags EXCEPT !.gone = TRUE]
    /\ UNCHANGED <<world, data, queue, worker, err, used, report>>

CutEnds(w) ==
    /\ w \in cut
    /\ cut' = cut \ {w} /\ worker' = [worker EXCEPT ![w] = "over"]
    /\ UNCHANGED <<world, phase, data, queue, err, used, flags, report>>

\* The cleanup of a cancelled read fails with an error the worker expects: it goes
\* on, and nobody cancels it again.
CutAbsorbed(w) ==
    /\ w \in cut /\ worker[w] \in Queries
    /\ cut' = cut \ {w} /\ err' = err \cup {worker[w]}
    /\ Goes(w, queue, used)
    /\ UNCHANGED <<world, phase, data, used, flags, report>>

Settled ==
    /\ phase \in {"online", "settling"} /\ Running = {}
    /\ phase' = IF flags.gone THEN "cancelled" ELSE "searched"
    /\ UNCHANGED <<world, data, queue, worker, cut, err, used, flags, report>>

----------------------------------------------------------------------------
(* The outcome.                                                            *)

EndPages(q) == {n \in Present(data, q) : Terminal(data, q, n)}
LastPage(q) == IF EndPages(q) = {} THEN pages - 1 ELSE CHOOSE n \in EndPages(q) : \A k \in EndPages(q) : n <= k
Upto(q) == {n \in Present(data, q) : n <= LastPage(q)}

Capped(q) == told /\ \E n \in Present(data, q) : Total(data, q, n) >= ProviderLimit

\* The records that some of the pages of a listing had.
RecordsOn(q, set) ==
    SumTo([i \in 1..pages |-> IF i - 1 \in set THEN Raw(data, q, i - 1) ELSE 0], pages)

CountMismatch(q) ==
    /\ told /\ EndPages(q) # {}
    /\ RecordsOn(q, Upto(q)) # Max({Total(data, q, n) : n \in Upto(q)})

\* mutant: the first page that ends the listing is enough
EndSeen(q) == EndPages(q) # {} /\ ~Capped(q)

PaginationComplete(q) ==
    /\ EndPages(q) # {}
    /\ 0..LastPage(q) \subseteq Present(data, q)
    /\ ~Capped(q) /\ ~CountMismatch(q)

OfCategory(c) == {q \in Queries : CategoryOf[q] = c}

Complete == {c \in Categories : spread <= MaxTiles /\ \A q \in OfCategory(c) : PaginationComplete(q)}

Troubled(c) ==
    \/ c \notin Complete
    \/ \E q \in OfCategory(c) : q \in err \/ Discarded(data, q)

HasRecords(seeded) == seeded \/ \E q \in Queries, n \in 0..(pages - 1) : n \in Present(data, q) /\ Raw(data, q, n) > 0
HasPages == \E q \in Queries : Present(data, q) # {}
Stale == \E q \in Queries : data[q].stale # {}

\* Older answers for broader circles may add records, but certify nothing.
Status(seeded) ==
    IF ~HasRecords(seeded) /\ ~HasPages THEN "unavailable"
    ELSE IF flags.failed \/ Stale \/ \E c \in Categories : Troubled(c) THEN "partial"
    ELSE "ready"

----------------------------------------------------------------------------
(* PoiService.search and enrich_engine_pois.                               *)

Reports(status, complete, placed) ==
    /\ phase' = "reported"
    /\ report' = [status |-> status, complete |-> complete, placed |-> placed, survey |-> FALSE]
    /\ UNCHANGED <<world, data, queue, worker, cut, err, used, flags>>

\* A region package or a fixed graph brings its own snapshot, which certifies nothing.
Bundled ==
    /\ phase = "new"
    /\ Reports("partial", {}, TRUE)

\* The area cannot be planned, or the cache cannot be opened.
SearchFails ==
    /\ phase = "new"
    /\ Reports("unavailable", {}, FALSE)

\* The records are placed on the walking network, all of them or none.
Aligned ==
    /\ phase = "searched"
    /\ \E seeded \in BOOLEAN :
          /\ flags.refresh => ~seeded
          /\ Reports(Status(seeded), Complete, HasRecords(seeded))

\* The calibration is not there within five seconds, or not usable.
AlignmentFails ==
    /\ phase = "searched"
    /\ Reports("partial", Complete, FALSE)

\* The categories a coverage report takes for complete.
Assessable == IF Stale THEN {} ELSE {c \in Categories : ~Troubled(c)}

\* collect_service_coverage: a search of its own, which places nothing.
Surveyed ==
    /\ phase = "searched" /\ ~flags.refresh
    /\ phase' = "reported"
    /\ report' = [status |-> IF Assessable = Categories THEN "ready" ELSE "partial",
                  complete |-> Assessable, placed |-> TRUE, survey |-> TRUE]
    /\ UNCHANGED <<world, data, queue, worker, cut, err, used, flags>>

WorkerStep(w) ==
    \/ WorkerStarts(w) \/ WorkerFails(w) \/ CutEnds(w) \/ CutAbsorbed(w)
    \/ \E sent \in 0..MaxRequests :
          \/ \E stale \in BOOLEAN : PageComes(w, stale, sent)
          \/ ReadFails(w, sent) \/ Refusal(w, sent)

SearchNext ==
    \/ Asked
    \/ \E refresh, offline \in BOOLEAN : TakesCached(refresh, offline)
    \/ \E w \in Workers : WorkerStep(w)
    \/ TimesOut \/ CallerCancelled \/ Settled
    \/ Bundled \/ SearchFails \/ Aligned \/ AlignmentFails \/ Surveyed

----------------------------------------------------------------------------
(* Properties.                                                             *)

\* Records of the provider's listing that fresh pages have brought.
Received(q) == RecordsOn(q, data[q].fresh)

\* Data called ready is all there is: every listing on every tile of the area, read
\* to its end from fresh pages, each record valid, all aligned with the network.  A
\* category called complete has its listings whole: but for stale pages in an analysis,
\* from fresh pages and with valid records only in a coverage report.
ReadyIsAll ==
    phase = "reported" =>
        /\ report.status = "ready" =>
              /\ spread <= MaxTiles
              /\ \A q \in Queries : Received(q) = size[q] /\ ~Discarded(data, q)
              /\ report.placed \/ \A q \in Queries : size[q] = 0
        /\ \A c \in report.complete, q \in Queries :
              CategoryOf[q] = c =>
                  \/ Received(q) = size[q] /\ (report.survey => ~Discarded(data, q))
                  \/ data[q].stale # {} /\ ~report.survey

\* A query with pages to come is left only for a reason the report can name.
NothingForgotten ==
    phase = "searched" /\ (\E q \in Queries : NextMissing(data, q) # {}) =>
        flags.offline \/ flags.late \/ flags.failed \/ used >= MaxRequests \/ err # {}

\* Nobody reads on for a search that has ended.
NobodyReadsOn == phase \in {"searched", "reported", "cancelled"} => Running = {}

SearchSound == ReadyIsAll /\ NothingForgotten /\ NobodyReadsOn
==============================================================================
