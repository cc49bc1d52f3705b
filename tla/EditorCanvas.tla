----------------------------- MODULE EditorCanvas -----------------------------
(***************************************************************************)
(* The canvas of one editor window (NetworkEditor.vue) and its undo        *)
(* history (networkEditorHistory.js), next to other windows and scripts    *)
(* that change the saved network.  Records are immutable: an edit replaces *)
(* records, a history entry keeps the replaced and the new ones, a save    *)
(* names the revision the canvas was loaded from.                          *)
(*                                                                         *)
(* The graph is one node and one edge that ends in it; the edge's other    *)
(* end has further edges.  A record is [live, by, at]: whether it exists,  *)
(* who made it and when.  A revision is a hash of the saved network, so it *)
(* is the saved graph.                                                     *)
(***************************************************************************)
EXTENDS Naturals, Sequences

CONSTANTS
    Nothing,      \* no graph, draft, drag or request
    MaxSteps,     \* history.maxSteps; the limit of its bytes is left out
    MaxChanges,   \* bound: edits of this window and saves of others
    MaxLoads,     \* bound: loads of this window
    Patient       \* the user waits for a load to end, loads again when the outline
                  \* of the region could not be read, and uses no key during a drag

VARIABLES
    saved,        \* the network on disk
    canvas,       \* graph.value
    revision,     \* revision.value
    entries,      \* GraphHistory.entries: patches, oldest first
    cursor,       \* GraphHistory.cursor
    dirty,        \* dirty.value: "unsaved changes"
    busy,         \* busy.value and the request it is about
    loading,      \* loading.value, how far load() has come, and whether a new graph
                  \* stands beside the history of the old one
    drag,         \* drag.before of a node being moved
    draft,        \* the draft in localStorage, which other windows leave alone here
    offered,      \* draftAvailable.value
    timer,        \* draftTimer is set
    changes, loads,       \* how many there have been
    trail         \* history: the canvases the entries lead between

graphVars   == <<canvas, revision>>
undoVars    == <<entries, cursor, trail>>
draftVars   == <<draft, offered, timer>>
counters    == <<changes, loads>>
canvasVars  == <<saved, graphVars, undoVars, dirty, busy, loading, drag, draftVars, counters>>

Items == {"node", "edge"}

Record(alive, who, n) == [live |-> alive, by |-> who, at |-> n]

Records == [live : BOOLEAN, by : {"base", "window", "other"}, at : Nat]
Graphs  == [Items -> Records]

ASSUME CanvasAssumption ==
    /\ MaxSteps \in Nat \ {0} /\ Patient \in BOOLEAN
    /\ MaxChanges \in Nat /\ MaxLoads \in Nat
    /\ Nothing \notin Graphs \cup [revision : Graphs, graph : Graphs]    \* null

\* Changes of either side are in one order: a change is later than all before it.
Now == changes + 1
MayChange == Now <= MaxChanges
Mine(alive)   == Record(alive, "window", Now)
Theirs(alive) == Record(alive, "other", Now)

Connected(g) == g["edge"].live => g["node"].live
-----------------------------------------------------------------------------
(* Patches.                                                                *)

\* graphPatch: the records that differ.
PatchOf(before, after) ==
    [i \in {j \in Items : before[j] # after[j]} |-> [before |-> before[i], after |-> after[i]]]

\* applyGraphPatch
Patched(g, patch, direction) ==
    [i \in Items |-> IF i \in DOMAIN patch THEN patch[i][direction] ELSE g[i]]

\* GraphHistory.record: what was undone is forgotten, and so is what is too old.
EntriesWith(patch) == Append(SubSeq(entries, 1, cursor), patch)

Trimmed(s, limit) == SubSeq(s, IF Len(s) > limit THEN Len(s) - limit + 1 ELSE 1, Len(s))

\* record(before): nothing happens when nothing has changed.
Keep(before, after) ==
    IF before = after
    THEN UNCHANGED <<undoVars, dirty, timer>>
    ELSE /\ entries' = Trimmed(EntriesWith(PatchOf(before, after)), MaxSteps)
         /\ cursor' = IF cursor = MaxSteps THEN MaxSteps ELSE cursor + 1
         /\ trail' = Trimmed(SubSeq(trail, 1, cursor) \o <<before, after>>, MaxSteps + 1)
         /\ dirty' = TRUE
         /\ timer' = TRUE

Forget(g) == entries' = <<>> /\ cursor' = 0 /\ trail' = <<g>>
-----------------------------------------------------------------------------
NoRequest == [on |-> "nothing", at |-> "awaited", graph |-> Nothing, revision |-> Nothing,
              answer |-> Nothing]

Start == [i \in Items |-> Record(TRUE, "base", 0)]

CanvasInit ==
    /\ saved = Start /\ canvas = Nothing /\ revision = Nothing
    /\ entries = <<>> /\ cursor = 0 /\ trail = <<Nothing>>
    /\ dirty = FALSE
    /\ busy = NoRequest
    /\ loading = [at |-> "no", graph |-> Nothing, torn |-> FALSE]
    /\ drag = Nothing
    /\ draft = Nothing /\ offered = FALSE /\ timer = FALSE
    /\ changes = 0 /\ loads = 0

Idle     == busy.on = "nothing"
Shown    == canvas # Nothing
Released == drag = Nothing

\* What is not disabled by busy.value.  Only the map is covered while a region loads:
\* keys and the forms beside it still work.
Careful == loading.at = "no" /\ ~loading.torn /\ Released
Usable  == Idle /\ Shown /\ (Patient => Careful)
-----------------------------------------------------------------------------
(* load(), in the order of its awaits.                                     *)

\* The first load, and reload() after the user has agreed to lose his edits.  The button
\* also works during a load: two loads beside each other, which only a user who is not
\* patient has, are left out.
LoadStarts ==
    /\ Idle /\ loading.at = "no" /\ loads < MaxLoads /\ (Patient => Released)
    /\ loads' = loads + 1
    /\ loading' = [loading EXCEPT !.at = "asked"]
    /\ UNCHANGED <<saved, graphVars, undoVars, dirty, busy, drag, draftVars, changes>>

\* read_editor
LoadAnswered ==
    /\ loading.at = "asked"
    /\ loading' = [loading EXCEPT !.at = "answered", !.graph = saved]
    /\ UNCHANGED <<saved, graphVars, undoVars, dirty, busy, drag, draftVars, counters>>

LoadRefused ==
    /\ loading.at = "asked"
    /\ loading' = [loading EXCEPT !.at = "no"]
    /\ UNCHANGED <<saved, graphVars, undoVars, dirty, busy, drag, draftVars, counters>>

\* Graph and revision are set; the region's outline is fetched next.
GraphShown ==
    /\ loading.at = "answered"
    /\ canvas' = loading.graph /\ revision' = loading.graph
    /\ loading' = [at |-> "outline", graph |-> Nothing, torn |-> TRUE]
    /\ UNCHANGED <<saved, undoVars, dirty, busy, drag, draftVars, counters>>

LoadEnds ==
    /\ loading.at = "outline"
    /\ Forget(canvas)
    /\ dirty' = FALSE /\ offered' = (draft # Nothing)
    /\ loading' = [loading EXCEPT !.at = "no", !.torn = FALSE]
    /\ UNCHANGED <<saved, graphVars, busy, drag, draft, timer, counters>>

OutlineFails ==
    /\ loading.at = "outline"
    /\ loading' = [loading EXCEPT !.at = "no"]
    /\ UNCHANGED <<saved, graphVars, undoVars, dirty, busy, drag, draftVars, counters>>
-----------------------------------------------------------------------------
(* Edits.                                                                  *)

Removed == [i \in Items |-> IF canvas[i].live THEN Mine(FALSE) ELSE canvas[i]]

\* moveNode: the end of the edge moves along.
Moved == [i \in Items |-> IF canvas[i].live THEN Mine(TRUE) ELSE canvas[i]]

\* appendDrawPoint and connectNode; edgeProperties; removeNode, and removeEdges, which
\* takes along the ends that nothing else is connected to.
Edited ==
    {g \in {[canvas EXCEPT !["node"] = Mine(TRUE)], [i \in Items |-> Mine(TRUE)]} :
        ~canvas["node"].live}
    \cup {g \in {[canvas EXCEPT !["edge"] = Mine(TRUE)]} : canvas["node"].live}
    \cup {g \in {Moved, Removed} : canvas["node"].live}

\* change()
Change(g) ==
    /\ Usable
    /\ canvas' = g
    /\ Keep(canvas, g)

Edit ==
    /\ Usable /\ MayChange
    /\ \E g \in Edited : Change(g)
    /\ changes' = Now
    /\ UNCHANGED <<saved, revision, busy, loading, drag, draft, offered, loads>>

\* press: the map does not react while a region loads.
Press ==
    /\ Usable /\ loading.at = "no" /\ Released /\ canvas["node"].live
    /\ drag' = canvas
    /\ UNCHANGED <<saved, graphVars, undoVars, dirty, busy, loading, draftVars, counters>>

\* move: not recorded yet, and not kept from running by busy.value.
Drag ==
    /\ ~Released /\ MayChange /\ canvas["node"].live
    /\ canvas' = Moved
    /\ changes' = Now
    /\ UNCHANGED <<saved, revision, undoVars, dirty, busy, loading, drag, draftVars, loads>>

\* release
Release ==
    /\ ~Released
    /\ drag' = Nothing
    /\ Keep(drag, canvas)
    /\ UNCHANGED <<saved, graphVars, busy, loading, draft, offered, counters>>

\* cancel(), the Escape key
Escape ==
    /\ ~Released
    /\ canvas' = drag /\ drag' = Nothing
    /\ UNCHANGED <<saved, revision, undoVars, dirty, busy, loading, draftVars, counters>>

UndoEdit ==
    /\ Usable /\ cursor > 0
    /\ canvas' = Patched(canvas, entries[cursor], "before")
    /\ cursor' = cursor - 1
    /\ dirty' = TRUE /\ timer' = TRUE
    /\ UNCHANGED <<saved, revision, entries, trail, busy, loading, drag, draft, offered, counters>>

RedoEdit ==
    /\ Usable /\ cursor < Len(entries)
    /\ canvas' = Patched(canvas, entries[cursor + 1], "after")
    /\ cursor' = cursor + 1
    /\ dirty' = TRUE /\ timer' = TRUE
    /\ UNCHANGED <<saved, revision, entries, trail, busy, loading, drag, draft, offered, counters>>
-----------------------------------------------------------------------------
(* Requests: PUT of save(), POST of applyRefinement() and the like.        *)

Send(what) ==
    /\ Usable
    /\ busy' = [NoRequest EXCEPT !.on = what, !.graph = canvas, !.revision = revision]
    /\ UNCHANGED <<saved, graphVars, undoVars, dirty, loading, drag, draftVars, counters>>

SaveStarts   == dirty /\ Send("saving")
ReviewStarts == Send("reviewing")

\* candidate_graph
TakesRevision == busy.revision = saved

ServerSaves ==
    /\ busy.on = "saving" /\ busy.at = "awaited" /\ TakesRevision
    /\ saved' = busy.graph
    /\ busy' = [busy EXCEPT !.at = "answered", !.answer = busy.graph]
    /\ UNCHANGED <<graphVars, undoVars, dirty, loading, drag, draftVars, counters>>

\* apply_editor_refinement: the edge comes back with its review; nothing is written.
ServerReviews ==
    /\ busy.on = "reviewing" /\ busy.at = "awaited" /\ TakesRevision
    /\ busy.graph["edge"].live /\ MayChange
    /\ busy' = [busy EXCEPT !.at = "answered", !.answer = [busy.graph EXCEPT !["edge"] = Mine(TRUE)]]
    /\ changes' = Now
    /\ UNCHANGED <<saved, graphVars, undoVars, dirty, loading, drag, draftVars, loads>>

\* A stale revision, a graph that does not pass the checks, a busy engine; or the
\* answer does not arrive although the service has saved.
RequestFails ==
    /\ ~Idle /\ busy.at # "failed"
    /\ busy' = [busy EXCEPT !.at = "failed"]
    /\ UNCHANGED <<saved, graphVars, undoVars, dirty, loading, drag, draftVars, counters>>

NotBusy == busy' = NoRequest

SaveReturns ==
    /\ busy.on = "saving" /\ busy.at = "answered"
    /\ canvas' = busy.answer /\ revision' = busy.answer
    /\ dirty' = FALSE
    /\ draft' = Nothing /\ offered' = FALSE /\ timer' = FALSE
    /\ NotBusy
    /\ UNCHANGED <<saved, undoVars, loading, drag, counters>>

\* writeDraft
Written == IF dirty /\ Shown THEN [revision |-> revision, graph |-> canvas] ELSE draft

SaveRefused ==
    /\ busy.on = "saving" /\ busy.at = "failed"
    /\ draft' = Written
    /\ NotBusy
    /\ UNCHANGED <<saved, graphVars, undoVars, dirty, loading, drag, offered, timer, counters>>

\* applyRefinement ends its busy phase and changes the canvas in one go.
ReviewReturns ==
    /\ busy.on = "reviewing" /\ busy.at = "answered"
    /\ canvas' = busy.answer
    /\ Keep(canvas, busy.answer)
    /\ NotBusy
    /\ UNCHANGED <<saved, revision, loading, drag, draft, offered, counters>>

ReviewRefused ==
    /\ busy.on = "reviewing" /\ busy.at = "failed"
    /\ NotBusy
    /\ UNCHANGED <<saved, graphVars, undoVars, dirty, loading, drag, draftVars, counters>>
-----------------------------------------------------------------------------
(* Drafts, other windows, and the end of this one.                         *)

DraftTimer ==
    /\ timer
    /\ timer' = FALSE /\ draft' = Written
    /\ UNCHANGED <<saved, graphVars, undoVars, dirty, busy, loading, drag, offered, counters>>

\* mutant: a draft fits every revision.
FitsAnyRevision == TRUE

\* restoreDraft
DraftFits == draft.revision = revision

RestoreDraft ==
    /\ offered /\ draft # Nothing /\ Usable /\ DraftFits
    /\ Change(draft.graph)
    /\ offered' = FALSE
    /\ UNCHANGED <<saved, revision, busy, loading, drag, draft, counters>>

\* Another window, or a script, saves a network of its own.
OtherSaves ==
    /\ MayChange
    /\ changes' = Now
    /\ \E changed \in (SUBSET Items) \ {{}}, alive \in BOOLEAN :
          saved' = [i \in Items |-> IF i \in changed THEN Theirs(alive) ELSE saved[i]]
    /\ Connected(saved')
    /\ UNCHANGED <<graphVars, undoVars, dirty, busy, loading, drag, draftVars, loads>>

\* The page is left and opened again (a draft is written), or the browser dies.
Leave ==
    /\ Idle /\ Shown /\ loading.at = "no" /\ loads < MaxLoads
    /\ draft' \in {Written, draft}
    /\ canvas' = Nothing /\ revision' = Nothing /\ drag' = Nothing
    /\ Forget(Nothing)
    /\ dirty' = FALSE /\ offered' = FALSE /\ timer' = FALSE
    /\ loading' = [loading EXCEPT !.torn = FALSE]
    /\ UNCHANGED <<saved, busy, counters>>

CanvasNext ==
    \/ LoadStarts \/ LoadAnswered \/ LoadRefused \/ GraphShown \/ LoadEnds \/ OutlineFails
    \/ Edit \/ Press \/ Drag \/ Release \/ Escape \/ UndoEdit \/ RedoEdit
    \/ SaveStarts \/ ReviewStarts \/ ServerSaves \/ ServerReviews \/ RequestFails
    \/ SaveReturns \/ SaveRefused \/ ReviewReturns \/ ReviewRefused
    \/ DraftTimer \/ RestoreDraft \/ OtherSaves \/ Leave

CanvasSpec == CanvasInit /\ [][CanvasNext]_canvasVars
-----------------------------------------------------------------------------
(* Properties.                                                             *)

Settled == Shown /\ Careful

\* Undo and redo lead through canvases that have been there: nothing an edit took
\* along, an edge of a removed node for one, is left behind or brought back alone.
HistoryFaithful ==
    Settled /\ Idle => Len(trail) = Len(entries) + 1 /\ canvas = trail[cursor + 1]

\* "No unsaved changes" is true: the canvas is the graph of the revision it names.
CleanIsSaved == Settled /\ ~dirty => canvas = revision

\* A save never puts back a record older than one somebody else has saved, by way of
\* the history, a draft or an answer either.
SavesNothingOlder ==
    ServerSaves => \A i \in Items : saved[i].by = "other" => saved'[i].at >= saved[i].at

\* "When another window or a script has changed the files, a save refuses a stale
\* version."
StaleRefused == [][SavesNothingOlder]_canvasVars

\* What a window did is what its canvas, its history and its saves say, and with
\* nobody hurrying it takes nothing back from others.
CanvasKept ==
    /\ HistoryFaithful' /\ CleanIsSaved' /\ (Shown => Connected(canvas))'
    /\ SavesNothingOlder
=============================================================================
