---------------------------- MODULE NetworkEditor ----------------------------
(***************************************************************************)
(* The local network editor (backend/app/network_editor.py) over one       *)
(* region package: files on disk and a manifest with a hash of each.       *)
(* Browser windows load a revision, draw on a canvas and send it back;     *)
(* one process-wide lock serialises what they save, but not the engine     *)
(* check before a save, the map service behind a context preview, the      *)
(* command-line scripts or the command-line import.                        *)
(*                                                                         *)
(* A file's content is the number of the canvas, context or POI document   *)
(* it holds; 0 is what the package came with.  Hashes are injective, so a  *)
(* hash is the content.  The base network never changes, and a canvas is   *)
(* what its patch makes of the base, so a network replays from annotations *)
(* iff both hold the same canvas.                                          *)
(***************************************************************************)
EXTENDS Naturals, Sequences, FiniteSets

CONSTANTS
    Windows,      \* browser windows with the editor open
    None,         \* no window, no revision, no backup
    MaxContents,  \* bound: canvases, contexts and POI documents made
    MaxMishaps    \* bound: failed writes, crashes, and command-line runs

Roles == {"network", "annotations", "context", "pois"}

\* The contents of files, the manifest, and both as they are kept before a change.
Contents  == 0..MaxContents
Manifests == [sha : [Roles -> Contents], contextSource : Contents]
Images    == [files : [Roles -> Contents], manifest : Manifests]
Backups   == [files : UNION {[roles -> Contents] : roles \in SUBSET Roles}, manifest : Manifests]

ASSUME EditorAssumption ==
    /\ MaxContents \in Nat /\ MaxMishaps \in Nat
    /\ None \notin Windows \cup Images \cup Backups

VARIABLES
    files,      \* content by role
    manifest,   \* [sha |-> hash by role, contextSource |-> provenance]
    lock,       \* the window whose request holds _lock, or None
    window,     \* each window: what it has loaded and where its request is
    preview,    \* the context preview each window has asked for, on disk
    backup,     \* the newest backup directory
    tool,       \* the command-line script that is running
    importer,   \* MySQLRegionRepository.import_directory, reading the package
    made,       \* how many contents have been made
    raced,      \* history: scripts that ran while the editor held before-images
    wounds,     \* history: how often a write was cut short, or its rollback failed
    mishaps     \* how many there have been

packageVars == <<files, manifest>>
historyVars == <<made, raced, wounds>>
editorVars == <<files, manifest, lock, window, preview, backup, tool, importer, made, raced, wounds, mishaps>>

\* file_revision: the POI document and the manifest are not part of it.
Revision(f) == <<f.network, f.annotations, f.context>>

\* load_region(verify=True)
Verified == manifest.sha = files

\* graph_revision(apply_manual_edits(base, annotations)) = that of the network
Replays(f) == f.network = f.annotations

Image == [files |-> files, manifest |-> manifest]

ImporterOff == [pc |-> "off", by |-> None, manifest |-> None, got |-> <<>>]

PackageInit ==
    /\ files = [r \in Roles |-> 0]
    /\ manifest = [sha |-> files, contextSource |-> 0]
    /\ lock = None
    /\ window = [w \in Windows |-> [pc |-> "idle", kind |-> "draft", rev |-> None,
                                    canvas |-> 0, before |-> None, todo |-> <<>>]]
    /\ preview = [w \in Windows |-> None]
    /\ backup = None
    /\ tool = [pc |-> "off", kind |-> "export", seen |-> None, before |-> None]
    /\ importer = ImporterOff
    /\ made = 0
    /\ raced = {}
    /\ wounds = 0
    /\ mishaps = 0

----------------------------------------------------------------------------
(* The window, up to the lock.                                             *)

Busy(w) == window[w].pc # "idle"
Fresh   == made + 1

\* mutant: the file hashes are checked, the revision the window loaded is not.
CurrentIfWhole(w) == Verified

\* read_editor, and the comparison every request opens with.
Current(w) == Verified /\ Revision(files) = window[w].rev

\* Nothing of a request is left once it has been answered.
AtRest(win) == [win EXCEPT !.pc = "idle", !.kind = "draft", !.before = None, !.todo = <<>>]

\* The request is refused: the window is told to load the package again, and keeps
\* what it has until it does.
Refuse(w) == window' = [window EXCEPT ![w] = AtRest(window[w])]

\* GET: read_editor under the lock.
Load(w) ==
    /\ ~Busy(w) /\ lock = None /\ Verified
    /\ window' = [window EXCEPT ![w].rev = Revision(files), ![w].canvas = files.network]
    /\ UNCHANGED <<packageVars, lock, preview, backup, tool, importer,
                   historyVars, mishaps>>

\* The user draws, in the browser.
Draw(w) ==
    /\ ~Busy(w) /\ window[w].rev # None /\ Fresh <= MaxContents
    /\ made' = Fresh
    /\ window' = [window EXCEPT ![w].canvas = Fresh]
    /\ UNCHANGED <<packageVars, lock, preview, backup, tool, importer,
                   raced, wounds, mishaps>>

\* check_candidate, of PUT: the comparison under the lock, then the engine without.
Check(w) ==
    /\ ~Busy(w) /\ window[w].rev # None /\ lock = None
    /\ IF Current(w)
       THEN window' = [window EXCEPT ![w].pc = "engine"]
       ELSE Refuse(w)
    /\ UNCHANGED <<packageVars, lock, preview, backup, tool, importer,
                   historyVars, mishaps>>

\* run_engine is busy or refuses the graph.  If it accepts, the save goes on.
EngineRefuses(w) ==
    /\ window[w].pc = "engine"
    /\ window' = [window EXCEPT ![w] = AtRest(window[w])]
    /\ UNCHANGED <<packageVars, lock, preview, backup, tool, importer, historyVars, mishaps>>

\* preview_context: the comparison, then the map service without the lock.
PreviewStarts(w) ==
    /\ ~Busy(w) /\ window[w].rev # None /\ lock = None
    /\ IF Current(w)
       THEN window' = [window EXCEPT ![w].pc = "osm"]
       ELSE Refuse(w)
    /\ UNCHANGED <<packageVars, lock, preview, backup, tool, importer,
                   historyVars, mishaps>>

\* The record is kept under the revision the window asked for.
PreviewReady(w) ==
    /\ window[w].pc = "osm" /\ Fresh <= MaxContents
    /\ made' = Fresh
    /\ preview' = [preview EXCEPT ![w] = [rev |-> window[w].rev, context |-> Fresh]]
    /\ window' = [window EXCEPT ![w].pc = "idle"]
    /\ UNCHANGED <<packageVars, lock, backup, tool, importer, raced,
                   wounds, mishaps>>

PreviewFails(w) ==
    /\ window[w].pc = "osm"
    /\ window' = [window EXCEPT ![w].pc = "idle"]
    /\ UNCHANGED <<packageVars, lock, preview, backup, tool, importer,
                   historyVars, mishaps>>

----------------------------------------------------------------------------
(* Under the lock.                                                         *)

\* A preview is good for the revision it was made for, for 86400 seconds.
PreviewHolds(w, old) == preview[w].rev = window[w].rev /\ ~old

\* with _lock: candidate_graph, or read_editor for a context or a publication.
\* A save comes here after the engine; a draft (generation,
\* refinement plan or decision), a context and a publication begin here.
Enter(w, kind) ==
    /\ lock = None
    /\ IF kind = "save" THEN window[w].pc = "engine"
       ELSE ~Busy(w) /\ window[w].rev # None
    /\ kind = "context" => preview[w] # None
    /\ \E old \in BOOLEAN :
       IF Current(w) /\ (kind = "context" => PreviewHolds(w, old))
       THEN /\ lock' = w
            /\ window' = [window EXCEPT ![w].pc = "locked", ![w].kind = kind]
       ELSE Refuse(w) /\ UNCHANGED lock
    /\ UNCHANGED <<packageVars, preview, backup, tool, importer,
                   historyVars, mishaps>>

\* An error before any file of the package is touched: a draft or a patch that cannot
\* be made, files that cannot be read or backed up, a database that is not there.  A
\* save ends so, in any case, where the package it replaces cannot be replayed.
GivesUp(w) ==
    /\ window[w].pc = "locked" /\ importer.by # w
    /\ Refuse(w) /\ lock' = None
    /\ UNCHANGED <<packageVars, preview, backup, tool, importer,
                   historyVars, mishaps>>

\* Everything a save needs is read, and a backup is written before the package
\* is touched.
Prepare(w) ==
    /\ window[w].pc = "locked" /\ window[w].kind \in {"save", "context"}
    /\ window[w].kind = "save" => Replays(files)
    /\ backup' = [Image EXCEPT !.files = [r \in (IF window[w].kind = "save"
                                              THEN {"network", "annotations"}
                                              ELSE {"context"}) |-> files[r]]]
    /\ window' = [window EXCEPT ![w].pc = "prepared", ![w].before = Image]
    /\ UNCHANGED <<packageVars, lock, preview, tool, importer,
                   historyVars, mishaps>>

\* mutant: the manifest is sealed before the network is replaced.
WritesSealEarly(kind) == IF kind = "save" THEN <<"annotations", "seal", "network">>
                         ELSE <<"context", "contextSource", "seal", "verify">>

\* What is replaced, in the order of the code; "seal" is refresh_manifest.
Writes(kind) == IF kind = "save" THEN <<"annotations", "network", "seal">>
                ELSE <<"context", "contextSource", "seal", "verify">>

\* The second look at the revision, "while preparing the save".
Recheck(w) ==
    /\ window[w].pc = "prepared"
    /\ IF Current(w)
       THEN /\ window' = [window EXCEPT ![w].pc = "writing",
                                        ![w].todo = Writes(window[w].kind)]
            /\ UNCHANGED lock
       ELSE Refuse(w) /\ lock' = None
    /\ UNCHANGED <<packageVars, preview, backup, tool, importer,
                   historyVars, mishaps>>

\* A draft becomes the window's canvas if the files it was made from are still
\* those of the revision it is answered under.
DraftAnswers(w) ==
    /\ window[w].pc = "locked" /\ window[w].kind = "draft" /\ Fresh <= MaxContents
    /\ IF Current(w)
       THEN /\ made' = Fresh
            /\ window' = [window EXCEPT ![w] = [AtRest(window[w]) EXCEPT !.canvas = Fresh]]
       ELSE Refuse(w) /\ UNCHANGED made
    /\ lock' = None
    /\ UNCHANGED <<packageVars, preview, backup, tool, importer, raced,
                   wounds, mishaps>>

\* A script that is running now has read the package before this write.
Races == raced' = IF tool.pc = "off" THEN raced ELSE raced \cup {tool.kind}

\* One file replaced through a temporary file and os.replace.
Replaced(w, item) ==
    CASE item \in {"annotations", "network"} ->
            /\ files' = [files EXCEPT ![item] = window[w].canvas]
            /\ UNCHANGED manifest
      [] item = "context" ->
            /\ files' = [files EXCEPT !.context = preview[w].context]
            /\ UNCHANGED manifest
      \* The code takes the manifest it has read on entering, which differs at most in
      \* hashes, and the seal comes next.
      [] item = "contextSource" ->
            /\ manifest' = [window[w].before.manifest EXCEPT
                                !.contextSource = preview[w].context]
            /\ UNCHANGED files
      [] item = "seal" -> manifest' = [manifest EXCEPT !.sha = files] /\ UNCHANGED files
      [] item = "verify" -> Verified /\ UNCHANGED packageVars

Write(w) ==
    /\ window[w].pc = "writing" /\ window[w].todo # <<>>
    /\ Replaced(w, Head(window[w].todo))
    /\ Races
    /\ window' = [window EXCEPT ![w].todo = Tail(@)]
    /\ UNCHANGED <<lock, preview, backup, tool, importer, made, wounds,
                   mishaps>>

\* mutant: the network is not put back.
RestoresInPart(kind) == IF kind = "save" THEN <<"annotations", "manifest">>
                        ELSE <<"context", "manifest">>

\* The before-images, in the order they were taken.
Restores(kind) == IF kind = "save" THEN <<"annotations", "network", "manifest">>
                  ELSE <<"context", "manifest">>

\* A write raises OSError or ValueError, or the sealed package does not verify.
WriteFails(w) ==
    /\ window[w].pc = "writing" /\ window[w].todo # <<>>
    /\ \/ mishaps < MaxMishaps /\ mishaps' = mishaps + 1
       \/ Head(window[w].todo) = "verify" /\ ~Verified /\ UNCHANGED mishaps
    /\ window' = [window EXCEPT ![w].pc = "undoing", ![w].todo = Restores(window[w].kind)]
    /\ UNCHANGED <<packageVars, lock, preview, backup, tool, importer,
                   made, raced, wounds>>

\* One before-image put back.
Undo(w) ==
    /\ window[w].pc = "undoing" /\ window[w].todo # <<>>
    /\ LET item == Head(window[w].todo)  IN
       IF item = "manifest"
       THEN manifest' = window[w].before.manifest /\ UNCHANGED files
       ELSE files' = [files EXCEPT ![item] = window[w].before.files[item]]
            /\ UNCHANGED manifest
    /\ Races
    /\ window' = [window EXCEPT ![w].todo = Tail(@)]
    /\ UNCHANGED <<lock, preview, backup, tool, importer, made, wounds,
                   mishaps>>

\* Putting one back fails as well: the others are not tried.
UndoFails(w) ==
    /\ window[w].pc = "undoing" /\ window[w].todo # <<>>
    /\ mishaps < MaxMishaps /\ mishaps' = mishaps + 1
    /\ wounds' = wounds + 1
    /\ window' = [window EXCEPT ![w] = AtRest(window[w])] /\ lock' = None
    /\ UNCHANGED <<packageVars, preview, backup, tool, importer, made,
                   raced>>

\* The answer: the package as it now is, or the error, under which the window
\* keeps what it had loaded.  A saved preview is of a revision that cannot come
\* back: it is forgotten here.
Answer(w) ==
    /\ window[w].pc \in {"writing", "undoing"} /\ window[w].todo = <<>>
    /\ IF window[w].pc = "writing" /\ Verified
       THEN /\ window' = [window EXCEPT ![w] = [AtRest(window[w]) EXCEPT !.rev = Revision(files)]]
            /\ preview' = IF window[w].kind = "context" THEN [preview EXCEPT ![w] = None]
                          ELSE preview
       ELSE window' = [window EXCEPT ![w] = AtRest(window[w])] /\ UNCHANGED preview
    /\ lock' = None
    /\ UNCHANGED <<packageVars, backup, tool, importer,
                   historyVars, mishaps>>

----------------------------------------------------------------------------
(* Readers and writers the lock does not know.                             *)

\* publish_saved_region reads under the lock, the command-line import does not.
ImportStarts(by) ==
    /\ importer.pc = "off"
    /\ IF by \in Windows THEN UNCHANGED mishaps
       ELSE mishaps < MaxMishaps /\ mishaps' = mishaps + 1
    /\ by \in Windows => window[by].pc = "locked" /\ window[by].kind = "publish"
    /\ Verified
    /\ importer' = [importer EXCEPT !.pc = "reading", !.by = by, !.manifest = manifest]
    /\ UNCHANGED <<packageVars, lock, window, preview, backup, tool,
                   historyVars>>

\* One file after the other, in the order of the manifest.
ReadOrder == <<"network", "context", "annotations", "pois">>

ImportReads ==
    /\ importer.pc = "reading" /\ Len(importer.got) < Len(ReadOrder)
    /\ importer' = [importer EXCEPT !.got = Append(@, files[ReadOrder[Len(@) + 1]])]
    /\ UNCHANGED <<packageVars, lock, window, preview, backup, tool,
                   historyVars, mishaps>>

FilesRead == [r \in Roles |-> importer.got[CHOOSE i \in 1..Len(ReadOrder) : ReadOrder[i] = r]]

\* _snapshot hashes the bytes it was given against the manifest it was given.
Matches == FilesRead = importer.manifest.sha

\* A file cannot be read, or the snapshot is refused, or is handed to the transaction.
ImportEnds ==
    /\ importer.pc = "reading"
    /\ importer' = ImporterOff
    /\ IF importer.by \in Windows
       THEN /\ window' = [window EXCEPT ![importer.by] = AtRest(@)]
            /\ lock' = None
       ELSE UNCHANGED <<window, lock>>
    /\ UNCHANGED <<packageVars, preview, backup, tool, historyVars, mishaps>>

\* export_synthetic_preview and bundle_region_pois both load the package first.
ToolLoads(kind) ==
    /\ tool.pc = "off" /\ mishaps < MaxMishaps /\ Verified
    /\ tool' = [pc |-> "loaded", kind |-> kind, seen |-> Image, before |-> None]
    /\ mishaps' = mishaps + 1
    /\ UNCHANGED <<packageVars, lock, window, preview, backup, importer,
                   historyVars>>

ToolRaces == raced' = IF \E w \in Windows : window[w].before # None
                      THEN raced \cup {tool.kind} ELSE raced

\* The export writes the network its annotations made; the bundle keeps the two
\* files it is about to replace and replaces the POI document.
ToolWrites ==
    /\ tool.pc = "loaded"
    /\ IF tool.kind = "export"
       THEN /\ files' = [files EXCEPT !.network = tool.seen.files.annotations]
            /\ UNCHANGED made
       ELSE /\ Fresh <= MaxContents /\ made' = Fresh
            /\ files' = [files EXCEPT !.pois = Fresh]
    /\ tool' = [tool EXCEPT !.pc = "wrote", !.before = Image]
    /\ ToolRaces
    /\ UNCHANGED <<manifest, lock, window, preview, backup, importer,
                   wounds, mishaps>>

\* Both rewrite the manifest from the copy they loaded: the export with the
\* hashes of the files as they are, the bundle with its own hash alone.
ToolSeals ==
    /\ tool.pc = "wrote"
    /\ manifest' = IF tool.kind = "export"
                   THEN [tool.seen.manifest EXCEPT !.sha = files]
                   ELSE [tool.seen.manifest EXCEPT !.sha.pois = files.pois]
    /\ tool' = [tool EXCEPT !.pc = IF tool.kind = "export" THEN "off" ELSE "sealed",
                            !.seen = None,
                            !.before = IF tool.kind = "export" THEN None ELSE @]
    /\ ToolRaces
    /\ UNCHANGED <<files, lock, window, preview, backup, importer, made,
                   wounds, mishaps>>

\* The bundle loads what it made, and puts both files back if that fails.
ToolChecks ==
    /\ tool.pc = "sealed"
    /\ IF Verified THEN UNCHANGED packageVars
       ELSE /\ manifest' = tool.before.manifest
            /\ files' = [files EXCEPT !.pois = tool.before.files.pois]
    /\ tool' = [tool EXCEPT !.pc = "off", !.before = None]
    /\ ToolRaces
    /\ UNCHANGED <<lock, window, preview, backup, importer, made,
                   wounds, mishaps>>

\* The editor's process dies in a request and is started again; the disk keeps
\* its files.
Crash ==
    /\ mishaps < MaxMishaps /\ mishaps' = mishaps + 1
    /\ \E w \in Windows : Busy(w)
    /\ wounds' = IF \E w \in Windows : window[w].pc \in {"writing", "undoing"} THEN wounds + 1 ELSE wounds
    /\ lock' = None
    /\ window' = [w \in Windows |-> AtRest(window[w])]
    /\ importer' = IF importer.by \in Windows THEN ImporterOff ELSE importer
    /\ UNCHANGED <<packageVars, preview, backup, tool, made, raced>>

Request(w) ==
    \/ Load(w) \/ Draw(w) \/ EngineRefuses(w)
    \/ Check(w) \/ PreviewStarts(w) \/ PreviewReady(w) \/ PreviewFails(w)

Locked(w) ==
    \/ \E k \in {"save", "draft", "context", "publish"} : Enter(w, k)
    \/ GivesUp(w) \/ Prepare(w) \/ Recheck(w) \/ DraftAnswers(w)
    \/ Write(w) \/ WriteFails(w) \/ Undo(w) \/ UndoFails(w) \/ Answer(w)

Outside ==
    \/ \E by \in Windows \cup {None} : ImportStarts(by)
    \/ ImportReads \/ ImportEnds
    \/ \E k \in {"export", "bundle"} : ToolLoads(k)
    \/ ToolWrites \/ ToolSeals \/ ToolChecks
    \/ Crash

PackageNext == (\E w \in Windows : Request(w) \/ Locked(w)) \/ Outside

PackageSpec == PackageInit /\ [][PackageNext]_editorVars

----------------------------------------------------------------------------
(* Properties.                                                             *)

\* Whatever was interrupted, and wherever: a package that passes verification has
\* the network its annotations replay to, unless the export script ran into a
\* save.  Its manifest names the origin of the context it holds, except from
\* the first to the second file of a rollback: the rollback restores the context
\* before the manifest, and if it is cut short there the package still verifies.
VerifiedIsWhole ==
    Verified =>
        /\ "export" \notin raced => Replays(files)
        /\ raced = {} /\ wounds = 0 /\ (\A w \in Windows : window[w].pc # "undoing") =>
              manifest.contextSource = files.context

Restored(b) == [r \in Roles |-> IF r \in DOMAIN b.files THEN b.files[r] ELSE files[r]]

\* One failed write is rolled back: with nobody writing, the package loads.  It
\* does not only when a write was cut short or its rollback failed as well, and
\* then the newest backup still completes it to a whole package.  The first time
\* it has the right origin, too; later the backup may be of a package whose
\* rollback stopped between the context and the manifest.
InterruptionsRepairable ==
    (raced = {} /\ tool.pc = "off" /\ ~Verified
       /\ \A w \in Windows : window[w].pc \notin {"writing", "undoing"}) =>
        /\ wounds > 0
        /\ backup # None
        /\ LET f == Restored(backup)
           IN /\ f = backup.manifest.sha
              /\ Replays(f)
              /\ wounds = 1 => f.context = backup.manifest.contextSource

\* A save replaces the very canvas, or context, that the window had loaded when
\* it drew, or asked for the preview, and never what another window has saved
\* since, however long the engine check or the map service took.
NoLostSave ==
    [][\A w \in Windows : window[w].pc = "writing" /\ raced' = {} =>
          /\ files'.network # files.network => files.network = window[w].rev[1]
          /\ files'.context # files.context => files.context = preview[w].rev[3]]_editorVars

\* "Detect changes made by another process while preparing the save": what a save
\* keeps to roll back to is the package it is about to change.
PreparationSeesChanges ==
    [][\A w \in Windows :
          window[w].pc = "prepared" /\ window'[w].pc = "writing" =>
              window[w].before = Image]_editorVars

\* What import_directory hands to the database is one package, not files of two,
\* although the command-line import reads file by file without the lock; and what
\* a window publishes is the revision that window had loaded.
ImportedWhole ==
    (importer.pc = "reading" /\ Len(importer.got) = Len(ReadOrder) /\ Matches
       /\ "export" \notin raced) =>
        /\ Replays(FilesRead)
        /\ importer.by \in Windows => Revision(FilesRead) = window[importer.by].rev

TypeOK ==
    /\ Image \in Images
    /\ lock \in Windows \cup {None}
    /\ made \in Contents
    /\ \A w \in Windows : window[w].pc \in {"idle", "engine", "osm", "locked",
                                            "prepared", "writing", "undoing"}

\* What the files say of themselves is true, and so is what is read of them.
PackageSound == TypeOK /\ VerifiedIsWhole /\ ImportedWhole
=============================================================================
