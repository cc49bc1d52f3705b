------------------------- MODULE NetworkEditor_proofs -------------------------
(***************************************************************************)
(* Theorems about the network editor: whatever is interrupted and whoever  *)
(* else reads or writes, a package that verifies is whole, a broken one    *)
(* can be repaired from the newest backup, and no save is lost.            *)
(***************************************************************************)
EXTENDS NetworkEditor, SequenceTheorems, TLAPS

----------------------------------------------------------------------------
(* The inductive invariant.                                                *)

Revisions == Contents \X Contents \X Contents
Previews  == [rev : Revisions \cup {None}, context : Contents]

\* What a request may have left to write, and to put back.
ToWrite(kind) ==
    IF kind = "save" THEN {<<"annotations", "network", "seal">>, <<"network", "seal">>, <<"seal">>, <<>>}
    ELSE {<<"context", "contextSource", "seal", "verify">>, <<"contextSource", "seal", "verify">>,
          <<"seal", "verify">>, <<"verify">>, <<>>}
ToRestore(kind) ==
    IF kind = "save" THEN {<<"annotations", "network", "manifest">>, <<"network", "manifest">>, <<"manifest">>, <<>>}
    ELSE {<<"context", "manifest">>, <<"manifest">>, <<>>}

Kinds == {"draft", "save", "context", "publish"}
Plans == ToWrite("save") \cup ToWrite("context") \cup ToRestore("save") \cup ToRestore("context")

WindowStates ==
    [pc : {"idle", "engine", "osm", "locked", "prepared", "writing", "undoing"},
     kind : Kinds, rev : Revisions \cup {None}, canvas : Contents,
     before : Images \cup {None}, todo : Plans]

ToolStates ==
    [pc : {"off", "loaded", "wrote", "sealed"}, kind : {"export", "bundle"},
     seen : Images \cup {None}, before : Images \cup {None}]

ImporterStates ==
    [pc : {"off", "reading"}, by : Windows \cup {None},
     manifest : Manifests \cup {None}, got : Seq(Contents)]

TypeInv ==
    /\ files \in [Roles -> Contents] /\ manifest \in Manifests
    /\ lock \in Windows \cup {None}
    /\ window \in [Windows -> WindowStates]
    /\ preview \in [Windows -> Previews \cup {None}]
    /\ tool \in ToolStates
    /\ tool.pc \in {"loaded", "wrote"} => tool.seen \in Images
    /\ tool.pc \in {"wrote", "sealed"} => tool.before \in Images
    /\ tool.pc = "sealed" => tool.kind = "bundle"
    /\ importer \in ImporterStates
    /\ importer.pc = "reading" => importer.manifest \in Manifests
    /\ made \in Contents
    /\ raced \subseteq {"export", "bundle"}
    /\ wounds \in Nat /\ mishaps \in Nat

\* A request inside the lock, one that keeps before-images, one that replaces files.
Inside(w)  == window[w].pc \in {"locked", "prepared", "writing", "undoing"}
Keeps(w)   == window[w].pc \in {"prepared", "writing", "undoing"}
Changes(w) == window[w].pc \in {"writing", "undoing"}

\* Only the holder of the lock is inside; who replaces files has the before-images,
\* and who replaces the context a preview for the revision it has loaded.
Owns(w) ==
    /\ Inside(w) => lock = w
    /\ Keeps(w) <=> window[w].before # None
    /\ Keeps(w) => window[w].kind \in {"save", "context"} /\ window[w].before \in Images
    /\ window[w].pc = "writing" => window[w].todo \in ToWrite(window[w].kind)
    /\ window[w].pc = "undoing" => window[w].todo \in ToRestore(window[w].kind)
    /\ Inside(w) /\ window[w].kind = "context" =>
          preview[w] \in Previews /\ preview[w].rev = window[w].rev

OwnerInv ==
    /\ \A w \in Windows : Owns(w)
    /\ importer.pc = "reading" /\ importer.by \in Windows =>
          window[importer.by].pc = "locked" /\ window[importer.by].kind = "publish"

\* A script that nobody has raced finds the package as it has loaded it.
ToolInv ==
    tool.kind \notin raced =>
        /\ tool.pc = "loaded" => Image = tool.seen /\ Verified
        /\ tool.pc = "wrote" =>
              /\ manifest = tool.seen.manifest /\ tool.seen.manifest.sha = tool.seen.files
              /\ files = IF tool.kind = "export"
                         THEN [tool.seen.files EXCEPT !.network = tool.seen.files.annotations]
                         ELSE [tool.seen.files EXCEPT !.pois = files.pois]
        /\ tool.pc = "sealed" => Verified

\* The hashes of a manifest are those of a network and its own annotations.
Whole(m) == m.sha.network = m.sha.annotations

\* So are those of every manifest there is, and a locked window has loaded the files
\* as they are, unless the export script ran into a save.
KeepsWhole(w) ==
    /\ Keeps(w) => Whole(window[w].before.manifest)
    /\ window[w].pc = "locked" => Revision(files) = window[w].rev
    /\ window[w].pc = "writing" =>
          /\ window[w].kind = "context" => Replays(files)
          /\ window[w].todo = <<"network", "seal">> => files.annotations = window[w].canvas
          /\ window[w].todo = <<"seal">> =>
                files.annotations = window[w].canvas /\ files.network = window[w].canvas

WholeInv ==
    "export" \notin raced =>
        /\ Whole(manifest)
        /\ \A w \in Windows : KeepsWhole(w)
        /\ tool.pc \in {"loaded", "wrote"} => Whole(tool.seen.manifest)
        /\ tool.pc \in {"wrote", "sealed"} => Whole(tool.before.manifest)
        /\ importer.pc = "reading" =>
              /\ Whole(importer.manifest)
              /\ importer.by \in Windows =>
                    Revision(importer.manifest.sha) = window[importer.by].rev

----------------------------------------------------------------------------
(* While no script has run into a save.                                    *)

ReplacedBy(kind) == IF kind = "save" THEN {"network", "annotations"} ELSE {"context"}

\* What Prepare has put into the backup.
BackupOf(win) ==
    [win.before EXCEPT !.files = [r \in ReplacedBy(win.kind) |-> win.before.files[r]]]

\* What a request may rely on that replaces files: its before-images are those of a
\* package that verified, and of the revision the window had loaded.
Grounded(win) ==
    /\ win.before.manifest.sha = win.before.files
    /\ Revision(win.before.files) = win.rev
    /\ \A r \in Roles \ ReplacedBy(win.kind) : files[r] = win.before.files[r]
    /\ wounds = 0 => win.before.files.context = win.before.manifest.contextSource

\* How far a save, a context and a rollback have come.
SaveStands(win) ==
    /\ win.todo # <<>> => manifest = win.before.manifest
    /\ win.todo = <<"annotations", "network", "seal">> => files = win.before.files
    /\ win.todo = <<"network", "seal">> => files.network = win.before.files.network
    /\ win.todo = <<>> => Verified /\ manifest.contextSource = win.before.manifest.contextSource

ContextStands(win) ==
    /\ win.todo = <<"context", "contextSource", "seal", "verify">> =>
          files = win.before.files /\ manifest = win.before.manifest
    /\ win.todo = <<"contextSource", "seal", "verify">> => manifest = win.before.manifest
    /\ win.todo = <<"seal", "verify">> =>
          manifest.contextSource = files.context /\ manifest.sha = win.before.manifest.sha
    /\ win.todo \in {<<"verify">>, <<>>} => Verified /\ manifest.contextSource = files.context

RollbackStands(win) ==
    /\ win.todo \in {<<"network", "manifest">>, <<"manifest">>, <<>>} /\ win.kind = "save" =>
          files.annotations = win.before.files.annotations
    /\ win.todo \in {<<"manifest">>, <<>>} => files = win.before.files
    /\ win.todo = <<>> => manifest = win.before.manifest

BackupCompletes ==
    /\ wounds > 0 /\ backup # None
    /\ Restored(backup) = backup.manifest.sha
    /\ Whole(backup.manifest)
    /\ wounds = 1 => backup.manifest.sha.context = backup.manifest.contextSource

CanBeUndone(w) ==
    /\ Keeps(w) => backup = BackupOf(window[w])
    /\ window[w].pc = "prepared" => window[w].before = Image
    /\ Changes(w) => Grounded(window[w])
    /\ window[w].pc = "writing" /\ window[w].kind = "save" => SaveStands(window[w])
    /\ window[w].pc = "writing" /\ window[w].kind = "context" =>
          /\ ContextStands(window[w])
          /\ window[w].todo = <<"contextSource", "seal", "verify">> => files.context = preview[w].context
    /\ window[w].pc = "undoing" => RollbackStands(window[w])
    /\ window[w].pc \in {"locked", "prepared"} /\ tool.pc = "off" => Verified

\* With nobody writing.
Settled ==
    /\ wounds = 0 => manifest.contextSource = files.context
    /\ tool.pc = "off" => Verified \/ BackupCompletes

SavedInv ==
    raced = {} =>
        /\ \A w \in Windows : CanBeUndone(w)
        /\ (\A w \in Windows : ~Changes(w)) => Settled

EditorInv == TypeInv /\ OwnerInv /\ ToolInv /\ WholeInv /\ SavedInv
----------------------------------------------------------------------------
(* Types.                                                                  *)

LEMMA Tails ==
    /\ Tail(<<"annotations", "network", "seal">>) = <<"network", "seal">>
    /\ Tail(<<"network", "seal">>) = <<"seal">>
    /\ Tail(<<"seal">>) = <<>>
    /\ Tail(<<"context", "contextSource", "seal", "verify">>) = <<"contextSource", "seal", "verify">>
    /\ Tail(<<"contextSource", "seal", "verify">>) = <<"seal", "verify">>
    /\ Tail(<<"seal", "verify">>) = <<"verify">>
    /\ Tail(<<"verify">>) = <<>>
    /\ Tail(<<"annotations", "network", "manifest">>) = <<"network", "manifest">>
    /\ Tail(<<"network", "manifest">>) = <<"manifest">>
    /\ Tail(<<"manifest">>) = <<>>
    /\ Tail(<<"context", "manifest">>) = <<"manifest">>
OBVIOUS

\* No two stages of a plan are the same.
LEMMA PlansDiffer ==
    /\ <<"annotations", "network", "seal">> \notin {<<"network", "seal">>, <<"seal">>, <<>>}
    /\ <<"network", "seal">> \notin {<<"seal">>, <<>>} /\ <<"seal">> # <<>>
    /\ <<"context", "contextSource", "seal", "verify">> \notin
          {<<"contextSource", "seal", "verify">>, <<"seal", "verify">>, <<"verify">>, <<>>}
    /\ <<"contextSource", "seal", "verify">> \notin {<<"seal", "verify">>, <<"verify">>, <<>>}
    /\ <<"seal", "verify">> \notin {<<"verify">>, <<>>} /\ <<"verify">> # <<>>
    /\ <<"annotations", "network", "manifest">> \notin {<<"network", "manifest">>, <<"manifest">>, <<>>}
    /\ <<"network", "manifest">> \notin {<<"manifest">>, <<>>} /\ <<"manifest">> # <<>>
    /\ <<"context", "manifest">> \notin {<<"network", "manifest">>, <<"manifest">>, <<>>}
    /\ {<<"contextSource", "seal", "verify">>, <<"seal", "verify">>, <<"verify">>, <<>>}
          \cap {<<"network", "seal">>, <<"seal">>} = {}
OBVIOUS

LEMMA PlansAre ==
    /\ <<>> \in Plans
    /\ \A kind \in {"save", "context"} : ToWrite(kind) \subseteq Plans /\ ToRestore(kind) \subseteq Plans
    /\ \A p \in Plans : p # <<>> => Tail(p) \in Plans
<1>1. \A p \in ToWrite("save") \cup ToRestore("save") : p # <<>> => Tail(p) \in ToWrite("save") \cup ToRestore("save")
  BY Tails DEF ToWrite, ToRestore
<1>2. \A p \in ToWrite("context") : p # <<>> => Tail(p) \in ToWrite("context")
  BY Tails DEF ToWrite
<1>3. \A p \in ToRestore("context") : p # <<>> => Tail(p) \in ToRestore("context")
  BY Tails DEF ToRestore
<1>4. <<>> \in ToWrite("save")
  BY DEF ToWrite
<1> QED BY <1>1, <1>2, <1>3, <1>4 DEF Plans

LEMMA RevisionType == ASSUME NEW f \in [Roles -> Contents] PROVE Revision(f) \in Revisions
BY DEF Revision, Revisions, Roles

LEMMA RestType == ASSUME NEW win \in WindowStates
                  PROVE  /\ AtRest(win) \in WindowStates
                         /\ AtRest(win).pc = "idle" /\ AtRest(win).before = None
                         /\ AtRest(win).rev = win.rev /\ AtRest(win).canvas = win.canvas
<1> USE DEF AtRest, WindowStates, Kinds
<1>1. [win EXCEPT !.pc = "idle"] \in WindowStates
  OBVIOUS
<1>2. [win EXCEPT !.pc = "idle", !.kind = "draft", !.before = None] \in WindowStates
  OBVIOUS
<1> QED BY PlansAre

LEMMA InitType == PackageInit => TypeInv
<1> SUFFICES ASSUME PackageInit PROVE TypeInv
  OBVIOUS
<1>1. 0 \in Contents
  BY EditorAssumption DEF Contents
<1>2. files \in [Roles -> Contents] /\ manifest \in Manifests
  BY <1>1 DEF PackageInit, Manifests
<1>3. window \in [Windows -> WindowStates] /\ preview \in [Windows -> Previews \cup {None}]
  BY <1>1, PlansAre DEF PackageInit, WindowStates, Kinds
<1>4. tool \in ToolStates /\ importer \in ImporterStates
  BY <1>1 DEF PackageInit, ToolStates, ImporterStates, ImporterOff
<1> QED BY <1>1, <1>2, <1>3, <1>4 DEF PackageInit, TypeInv, ImporterOff

LEMMA RequestType == ASSUME TypeInv, NEW w \in Windows, Request(w)
                     PROVE  TypeInv'
<1> USE EditorAssumption DEF TypeInv
<1>0. window[w] \in WindowStates
  OBVIOUS
<1>1. CASE Load(w)
  <2>1. window'[w] \in WindowStates
    BY <1>0, <1>1, RevisionType DEF Load, WindowStates, Roles, packageVars
  <2> QED BY <1>1, <2>1 DEF Load, packageVars, historyVars
<1>2. CASE Draw(w)
  <2>1. made' \in Contents
    BY <1>2 DEF Draw, Fresh, Contents
  <2> QED BY <1>0, <1>2, <2>1 DEF Draw, WindowStates, Fresh, packageVars
<1>3. CASE EngineRefuses(w)
  BY <1>0, <1>3, RestType DEF EngineRefuses, packageVars, historyVars
<1>4. CASE Check(w) \/ PreviewStarts(w)
  <2>1. CASE Current(w)
    <3>1. [window[w] EXCEPT !.pc = "engine"] \in WindowStates /\ [window[w] EXCEPT !.pc = "osm"] \in WindowStates
      BY <1>0 DEF WindowStates
    <3> QED BY <1>4, <2>1, <3>1 DEF Check, PreviewStarts, packageVars, historyVars
  <2>2. CASE ~Current(w)
    BY <1>0, <1>4, <2>2, RestType DEF Check, PreviewStarts, Refuse, packageVars, historyVars
  <2> QED BY <2>1, <2>2
<1>5. CASE PreviewReady(w)
  <2>1. made' \in Contents
    BY <1>5 DEF PreviewReady, Fresh, Contents
  <2>2. preview' \in [Windows -> Previews \cup {None}]
    BY <1>0, <1>5, <2>1 DEF PreviewReady, Previews, WindowStates
  <2> QED BY <1>0, <1>5, <2>1, <2>2 DEF PreviewReady, WindowStates, packageVars
<1>6. CASE PreviewFails(w)
  BY <1>0, <1>6 DEF PreviewFails, WindowStates, packageVars, historyVars
<1> QED BY <1>1, <1>2, <1>3, <1>4, <1>5, <1>6 DEF Request

\* The record kept before a change is one of a package.
LEMMA ImageType == ASSUME TypeInv PROVE Image \in Images
BY DEF TypeInv, Image, Images, Manifests

LEMMA WritesArePlans ==
    /\ \A kind \in {"save", "context"} : Writes(kind) \in ToWrite(kind) /\ Restores(kind) \in ToRestore(kind)
    /\ \A kind \in {"save", "context"} : Writes(kind) \in Plans /\ Restores(kind) \in Plans
BY PlansAre DEF Writes, Restores, ToWrite, ToRestore

\* One file, or the manifest, replaced.
LEMMA ReplacedType == ASSUME TypeInv, OwnerInv, NEW w \in Windows, window[w].pc = "writing",
                             window[w].todo # <<>>, Replaced(w, Head(window[w].todo))
                      PROVE  files' \in [Roles -> Contents] /\ manifest' \in Manifests
<1> DEFINE item == Head(window[w].todo)
<1>0. window[w] \in WindowStates /\ window[w].kind \in {"save", "context"} /\ window[w].before \in Images
  BY DEF TypeInv, OwnerInv, Owns, Keeps
<1>1. CASE item \in {"annotations", "network"}
  <2>1. files' = [files EXCEPT ![item] = window[w].canvas] /\ manifest' = manifest
    BY <1>1 DEF Replaced
  <2> QED BY <2>1, <1>0, <1>1 DEF TypeInv, WindowStates, Roles
<1>2. CASE item \in {"context", "contextSource"}
  <2>1. window[w].kind = "context"
    BY <1>0, <1>2 DEF OwnerInv, Owns, ToWrite
  <2>2. preview[w].context \in Contents
    BY <2>1 DEF OwnerInv, Owns, Inside, Previews
  <2>3. CASE item = "context"
    BY <2>2, <2>3 DEF Replaced, TypeInv, Roles
  <2>4. CASE item = "contextSource"
    BY <2>2, <2>4, <1>0 DEF Replaced, TypeInv, Images, Manifests
  <2> QED BY <1>2, <2>3, <2>4
<1>3. CASE item = "seal"
  BY <1>3 DEF Replaced, TypeInv, Manifests
<1>4. CASE item = "verify"
  BY <1>4 DEF Replaced, TypeInv, packageVars
<1>5. item \in {"annotations", "network", "seal", "context", "contextSource", "verify"}
  BY <1>0 DEF OwnerInv, Owns, ToWrite
<1> QED BY <1>1, <1>2, <1>3, <1>4, <1>5

LEMMA UndoneType == ASSUME TypeInv, OwnerInv, NEW w \in Windows, Undo(w)
                    PROVE  files' \in [Roles -> Contents] /\ manifest' \in Manifests
<1> DEFINE item == Head(window[w].todo)
<1>0. window[w].before \in Images /\ window[w].kind \in {"save", "context"}
  BY DEF TypeInv, OwnerInv, Owns, Keeps, Undo
<1>1. item \in {"annotations", "network", "context", "manifest"}
  BY <1>0 DEF OwnerInv, Owns, ToRestore, Undo
<1> QED BY <1>0, <1>1 DEF Undo, TypeInv, Roles, Images, Manifests

LEMMA RacesType == ASSUME TypeInv, Races \/ ToolRaces PROVE raced' \subseteq {"export", "bundle"}
BY DEF TypeInv, Races, ToolRaces, ToolStates

LEMMA LockedType == ASSUME TypeInv, OwnerInv, NEW w \in Windows, Locked(w)
                    PROVE  TypeInv'
<1> USE EditorAssumption DEF TypeInv
<1>0. window[w] \in WindowStates
  OBVIOUS
<1>a. AtRest(window[w]) \in WindowStates
  BY <1>0, RestType
<1> HIDE DEF AtRest
<1>1. ASSUME NEW k \in Kinds, Enter(w, k) PROVE TypeInv'
  <2>1. [window[w] EXCEPT !.pc = "locked", !.kind = k] \in WindowStates
    BY <1>0 DEF WindowStates
  <2> QED BY <1>1, <1>a, <2>1 DEF Enter, Refuse, packageVars, historyVars
<1>2. CASE GivesUp(w)
  BY <1>2, <1>a DEF GivesUp, Refuse, packageVars, historyVars
<1>3. CASE Prepare(w)
  <2>1. [window[w] EXCEPT !.pc = "prepared", !.before = Image] \in WindowStates
    BY <1>0, ImageType DEF WindowStates
  <2> QED BY <1>3, <2>1 DEF Prepare, packageVars, historyVars
<1>4. CASE Recheck(w)
  <2>1. [window[w] EXCEPT !.pc = "writing", !.todo = Writes(window[w].kind)] \in WindowStates
    BY <1>0, <1>4, WritesArePlans DEF Recheck, OwnerInv, Owns, Keeps, WindowStates
  <2> QED BY <1>4, <1>a, <2>1 DEF Recheck, Refuse, packageVars, historyVars
<1>5. CASE DraftAnswers(w)
  <2>1. Fresh \in Contents
    BY <1>5 DEF DraftAnswers, Fresh, Contents
  <2>2. [AtRest(window[w]) EXCEPT !.canvas = Fresh] \in WindowStates
    BY <1>a, <2>1 DEF WindowStates
  <2> QED BY <1>5, <1>a, <2>1, <2>2 DEF DraftAnswers, Refuse, packageVars
<1>6. CASE Write(w)
  <2>1. [window[w] EXCEPT !.todo = Tail(@)] \in WindowStates
    BY <1>0, <1>6, PlansAre DEF Write, WindowStates
  <2>2. files' \in [Roles -> Contents] /\ manifest' \in Manifests
    BY <1>6, ReplacedType DEF Write
  <2> QED BY <1>6, <2>1, <2>2, RacesType DEF Write
<1>7. CASE WriteFails(w)
  <2>1. [window[w] EXCEPT !.pc = "undoing", !.todo = Restores(window[w].kind)] \in WindowStates
    BY <1>0, <1>7, WritesArePlans DEF WriteFails, OwnerInv, Owns, Keeps, WindowStates
  <2> QED BY <1>7, <2>1 DEF WriteFails, packageVars
<1>8. CASE Undo(w)
  <2>1. [window[w] EXCEPT !.todo = Tail(@)] \in WindowStates
    BY <1>0, <1>8, PlansAre DEF Undo, WindowStates
  <2> QED BY <1>8, <2>1, UndoneType, RacesType DEF Undo
<1>9. CASE UndoFails(w)
  BY <1>9, <1>a DEF UndoFails, packageVars
<1>10. CASE Answer(w)
  <2>1. [AtRest(window[w]) EXCEPT !.rev = Revision(files)] \in WindowStates
    BY <1>a, RevisionType DEF WindowStates
  <2> QED BY <1>10, <1>a, <2>1 DEF Answer, packageVars, historyVars
<1> QED BY <1>1, <1>2, <1>3, <1>4, <1>5, <1>6, <1>7, <1>8, <1>9, <1>10 DEF Locked, Kinds

LEMMA OutsideType == ASSUME TypeInv, OwnerInv, Outside
                     PROVE  TypeInv'
<1> USE EditorAssumption DEF TypeInv
<1>1. ASSUME NEW by \in Windows \cup {None}, ImportStarts(by) PROVE TypeInv'
  <2>1. importer' \in ImporterStates /\ importer'.manifest = manifest
    BY <1>1 DEF ImportStarts, ImporterStates
  <2>2. mishaps' \in Nat
    BY <1>1 DEF ImportStarts
  <2> QED BY <1>1, <2>1, <2>2 DEF ImportStarts, packageVars, historyVars
<1>2. CASE ImportReads
  <2>1. ReadOrder[Len(importer.got) + 1] \in Roles
    BY <1>2 DEF ImportReads, ReadOrder, Roles, ImporterStates
  <2>2. Append(importer.got, files[ReadOrder[Len(importer.got) + 1]]) \in Seq(Contents)
    BY <2>1 DEF ImporterStates
  <2> QED BY <1>2, <2>2 DEF ImportReads, ImporterStates, packageVars, historyVars
<1>3. CASE ImportEnds
  <2>1. ImporterOff \in ImporterStates
    BY DEF ImporterOff, ImporterStates
  <2> QED BY <1>3, <2>1, RestType DEF ImportEnds, ImporterOff, packageVars, historyVars
<1>4. ASSUME NEW k \in {"export", "bundle"}, ToolLoads(k) PROVE TypeInv'
  BY <1>4, ImageType DEF ToolLoads, ToolStates, packageVars, historyVars
<1>5. CASE ToolWrites
  <2>1. files' \in [Roles -> Contents] /\ made' \in Contents
    BY <1>5 DEF ToolWrites, Fresh, Contents, Roles, Images
  <2> QED BY <1>5, <2>1, ImageType, RacesType DEF ToolWrites, ToolStates
<1>6. CASE ToolSeals
  <2>1. manifest' \in Manifests
    BY <1>6 DEF ToolSeals, Manifests, Images, Roles
  <2> QED BY <1>6, <2>1, RacesType DEF ToolSeals, ToolStates
<1>7. CASE ToolChecks
  <2>1. files' \in [Roles -> Contents] /\ manifest' \in Manifests
    BY <1>7 DEF ToolChecks, packageVars, Images, Roles
  <2> QED BY <1>7, <2>1, RacesType DEF ToolChecks, ToolStates
<1>8. CASE Crash
  <2>1. ImporterOff \in ImporterStates
    BY DEF ImporterOff, ImporterStates
  <2>2. window' \in [Windows -> WindowStates]
    BY <1>8, RestType DEF Crash
  <2> QED BY <1>8, <2>1, <2>2 DEF Crash, ImporterOff, packageVars
<1> QED BY <1>1, <1>2, <1>3, <1>4, <1>5, <1>6, <1>7, <1>8 DEF Outside

LEMMA TypeStep == ASSUME TypeInv, OwnerInv, [PackageNext]_editorVars PROVE TypeInv'
<1>1. CASE UNCHANGED editorVars
  BY <1>1 DEF editorVars, TypeInv
<1>2. CASE PackageNext
  BY <1>2, RequestType, LockedType, OutsideType DEF PackageNext
<1> QED BY <1>1, <1>2

----------------------------------------------------------------------------
(* Steps of a window that leave the package alone.                         *)

\* Who is inside is alone there.
LEMMA Alone == ASSUME OwnerInv, NEW w \in Windows, Inside(w) \/ lock = None, NEW v \in Windows, v # w
               PROVE  ~Inside(v)
BY EditorAssumption DEF OwnerInv, Owns

\* A request comes no further than to the lock, or leaves it without a change.
Browses(w) ==
    /\ ~Changes(w) /\ ~(importer.pc = "reading" /\ importer.by = w)
    /\ \/ ~Inside(w) /\ lock' = lock
       \/ lock' = None /\ \A v \in Windows \ {w} : ~Inside(v)
    /\ \A v \in Windows \ {w} : window'[v] = window[v] /\ preview'[v] = preview[v]
    /\ window'[w].pc \in {"idle", "engine", "osm"} /\ window'[w].before = None
    /\ UNCHANGED <<files, manifest, backup, tool, importer, raced, wounds>>

\* How an answered or refused request looks.
LEMMA AtRestLooks ==
    ASSUME TypeInv, NEW w \in Windows
    PROVE  /\ AtRest(window[w]).pc = "idle" /\ AtRest(window[w]).before = None
           /\ Refuse(w) => /\ window'[w].pc = "idle" /\ window'[w].before = None
                           /\ \A v \in Windows \ {w} : window'[v] = window[v]
           /\ window' = [window EXCEPT ![w] = AtRest(window[w])] =>
                 /\ window'[w].pc = "idle" /\ window'[w].before = None
                 /\ \A v \in Windows \ {w} : window'[v] = window[v]
<1>0. window[w] \in WindowStates
  BY DEF TypeInv
<1>1. AtRest(window[w]).pc = "idle" /\ AtRest(window[w]).before = None /\ AtRest(window[w]) \in WindowStates
  BY <1>0, RestType
<1> HIDE DEF AtRest
<1> QED BY <1>1 DEF Refuse, TypeInv

LEMMA RequestsBrowse == ASSUME TypeInv, OwnerInv, NEW w \in Windows, Request(w)
                        PROVE  Browses(w)
<1> USE DEF Browses, TypeInv, packageVars, historyVars
<1>0. window[w] \in WindowStates
  OBVIOUS
<1>a. /\ ~Inside(w) /\ ~Changes(w) /\ window[w].pc # "locked" /\ window[w].before = None
      /\ ~(importer.pc = "reading" /\ importer.by = w)
  BY DEF Request, Load, Draw, EngineRefuses, Check, PreviewStarts, PreviewReady, PreviewFails, Busy, Inside, Changes, OwnerInv, Owns, Keeps
<1>1. CASE Load(w) \/ Draw(w)
  BY <1>0, <1>a, <1>1 DEF Load, Draw, Busy, WindowStates
<1>2. CASE EngineRefuses(w)
  BY <1>0, <1>a, <1>2, AtRestLooks DEF EngineRefuses
<1>3. CASE Check(w) \/ PreviewStarts(w)
  <2>1. CASE Current(w)
    BY <1>0, <1>a, <1>3, <2>1 DEF Check, PreviewStarts, WindowStates
  <2>2. CASE ~Current(w)
    BY <1>a, <1>3, <2>2, AtRestLooks DEF Check, PreviewStarts
  <2> QED BY <2>1, <2>2
<1>4. CASE PreviewReady(w) \/ PreviewFails(w)
  BY <1>0, <1>a, <1>4 DEF PreviewReady, PreviewFails, WindowStates
<1> QED BY <1>1, <1>2, <1>3, <1>4 DEF Request

\* A request that is refused under the lock, or before, or that only draws.
Refused(w) ==
    \/ \E k \in Kinds : Enter(w, k) /\ Refuse(w)
    \/ GivesUp(w)
    \/ Recheck(w) /\ ~Current(w)
    \/ DraftAnswers(w)

LEMMA RefusalsBrowse == ASSUME TypeInv, OwnerInv, NEW w \in Windows, Refused(w)
                        PROVE  Browses(w)
<1> USE DEF Browses, packageVars, historyVars
<1>0. window[w] \in WindowStates
  BY DEF TypeInv
<1>1. ASSUME NEW k \in Kinds, Enter(w, k), Refuse(w) PROVE Browses(w)
  <2>1. ~Inside(w) /\ ~Changes(w) /\ ~(importer.pc = "reading" /\ importer.by = w)
    BY <1>1 DEF Enter, Busy, Inside, Changes, OwnerInv
  <2>2. lock' = lock
    <3>1. window'[w].pc = "idle"
      BY <1>1, AtRestLooks
    <3>2. CASE window' = [window EXCEPT ![w].pc = "locked", ![w].kind = k]
      BY <3>1, <3>2, <1>0 DEF TypeInv, WindowStates
    <3> QED BY <1>1, <3>2 DEF Enter
  <2> QED BY <1>1, <2>1, <2>2, AtRestLooks DEF Enter
<1>2. ASSUME Inside(w), ~Changes(w), ~(importer.pc = "reading" /\ importer.by = w),
             lock' = None, UNCHANGED <<files, manifest, preview, backup, tool, importer, raced, wounds>>,
             window'[w].pc = "idle", window'[w].before = None,
             \A v \in Windows \ {w} : window'[v] = window[v]
      PROVE  Browses(w)
  BY <1>2, Alone
<1>3. CASE GivesUp(w)
  BY <1>2, <1>3, AtRestLooks DEF GivesUp, Inside, Changes
<1>4. CASE Recheck(w) /\ ~Current(w)
  BY <1>2, <1>4, AtRestLooks DEF Recheck, Inside, Changes, OwnerInv
<1>5. CASE DraftAnswers(w)
  <2>1. [AtRest(window[w]) EXCEPT !.canvas = Fresh].pc = "idle" /\ [AtRest(window[w]) EXCEPT !.canvas = Fresh].before = None
    BY <1>0, RestType DEF WindowStates
  <2>2. window'[w].pc = "idle" /\ window'[w].before = None /\ \A v \in Windows \ {w} : window'[v] = window[v]
    BY <1>5, <2>1, AtRestLooks DEF DraftAnswers, TypeInv
  <2> QED BY <1>2, <1>5, <2>2 DEF DraftAnswers, Inside, Changes, OwnerInv
<1> QED BY <1>1, <1>3, <1>4, <1>5 DEF Refused

LEMMA BrowsingKeeps ==
    ASSUME TypeInv, OwnerInv, ToolInv, WholeInv, SavedInv, NEW w \in Windows, Browses(w)
    PROVE  OwnerInv' /\ ToolInv' /\ WholeInv' /\ SavedInv'
<1> USE DEF Browses
<1>a. \A v \in Windows : v # w => window'[v] = window[v] /\ preview'[v] = preview[v]
  OBVIOUS
<1>b. ~Inside(w)' /\ ~Keeps(w)' /\ ~Changes(w)' /\ ~Changes(w)
  BY DEF Inside, Keeps, Changes
<1>1. OwnerInv'
  <2>1. importer.pc = "reading" /\ importer.by \in Windows => importer.by # w
    BY DEF OwnerInv, Owns
  <2> QED BY <1>a, <1>b, <2>1 DEF OwnerInv, Owns, Inside, Keeps
<1>2. ToolInv'
  BY DEF ToolInv, Image, Verified
<1>3. WholeInv'
  <2>1. importer.pc = "reading" /\ importer.by \in Windows => importer.by # w
    BY DEF OwnerInv, Owns
  <2> QED BY <1>a, <1>b, <2>1 DEF WholeInv, KeepsWhole, Inside, Keeps, Replays, Revision, Whole
<1>4. SavedInv'
  <2>1. BackupCompletes' <=> BackupCompletes
    BY DEF BackupCompletes, Restored
  <2>2. \A v \in Windows : Changes(v)' <=> Changes(v)
    BY <1>a, <1>b DEF Changes
  <2>3. \A v \in Windows : v # w => (Keeps(v)' <=> Keeps(v))
    BY <1>a DEF Keeps
  <2>4. ASSUME NEW v \in Windows, v # w
        PROVE  /\ BackupOf(window'[v]) = BackupOf(window[v])
               /\ Grounded(window[v])' <=> Grounded(window[v])
               /\ SaveStands(window[v])' <=> SaveStands(window[v])
               /\ ContextStands(window[v])' <=> ContextStands(window[v])
               /\ RollbackStands(window[v])' <=> RollbackStands(window[v])
    BY <1>a, <2>4 DEF Grounded, SaveStands, ContextStands, RollbackStands, Verified
  <2>5. Verified' <=> Verified
    BY DEF Verified
  <2> QED BY <1>a, <1>b, <2>1, <2>2, <2>3, <2>4, <2>5 DEF SavedInv, CanBeUndone, Settled, Keeps, Changes, Inside, Image
<1> QED BY <1>1, <1>2, <1>3, <1>4

----------------------------------------------------------------------------
(* Steps under the lock.                                                   *)

\* The other windows are outside and stay as they are.
OthersOut(w) ==
    \A v \in Windows \ {w} : ~Inside(v) /\ window'[v] = window[v] /\ preview'[v] = preview[v]

\* Of the invariant only what it says of w, and of the package, is then left to show.
LEMMA OthersOutside ==
    ASSUME NEW w \in Windows, OthersOut(w)
    PROVE  \A v \in Windows \ {w} :
              /\ ~Inside(v) /\ ~Keeps(v) /\ ~Changes(v)
              /\ ~Inside(v)' /\ ~Keeps(v)' /\ ~Changes(v)'
              /\ window'[v] = window[v] /\ preview'[v] = preview[v]
              /\ window[v].pc \notin {"locked", "prepared", "writing", "undoing"}
BY DEF OthersOut, Inside, Keeps, Changes

\* A request that goes on, and touches no more than it said, keeps its ground.
GoesOn(w) ==
    /\ window'[w].kind = window[w].kind /\ window'[w].rev = window[w].rev
    /\ window'[w].before = window[w].before

LEMMA GroundKept ==
    ASSUME NEW w \in Windows, GoesOn(w), wounds' = wounds,
           \A r \in Roles \ ReplacedBy(window[w].kind) : files'[r] = files[r]
    PROVE  /\ BackupOf(window[w])' = BackupOf(window[w])
           /\ Grounded(window[w]) => Grounded(window[w])'
BY DEF GoesOn, BackupOf, Grounded, Revision

LEMMA EnterKeeps ==
    ASSUME EditorInv, NEW w \in Windows, NEW k \in Kinds, Enter(w, k), ~Refused(w)
    PROVE  OwnerInv' /\ ToolInv' /\ WholeInv' /\ SavedInv'
<1> USE DEF EditorInv
<1>0. window[w] \in WindowStates
  BY DEF TypeInv
<1>1. /\ Current(w) /\ lock = None /\ lock' = w
      /\ window' = [window EXCEPT ![w].pc = "locked", ![w].kind = k]
      /\ k = "context" => preview[w] # None /\ preview[w].rev = window[w].rev
      /\ UNCHANGED <<files, manifest, preview, backup, tool, importer, raced, wounds>>
  BY DEF Enter, Refused, PreviewHolds, packageVars, historyVars
<1>2. /\ window'[w].pc = "locked" /\ window'[w].kind = k /\ window'[w].rev = window[w].rev
      /\ window'[w].before = window[w].before /\ window'[w].todo = window[w].todo
      /\ \A v \in Windows \ {w} : window'[v] = window[v]
  BY <1>0, <1>1 DEF TypeInv, WindowStates
<1>3. \A v \in Windows : ~Inside(v) /\ ~Keeps(v) /\ ~Changes(v) /\ window[v].before = None
  BY <1>1, EditorAssumption DEF OwnerInv, Owns, Inside, Keeps, Changes
<1>4. OthersOut(w)
  BY <1>1, <1>2, <1>3 DEF OthersOut
<1>5. \A v \in Windows : ~Keeps(v)' /\ ~Changes(v)'
  BY <1>2, <1>4, OthersOutside DEF Keeps, Changes
<1>6. OwnerInv'
  <2>1. k = "context" => preview'[w] \in Previews /\ preview'[w].rev = window'[w].rev
    BY <1>1, <1>2 DEF TypeInv
  <2>2. ~(importer.pc = "reading" /\ importer.by \in Windows)
    BY <1>3 DEF OwnerInv, Owns, Inside
  <2>3. Owns(w)'
    BY <1>1, <1>2, <1>3, <2>1 DEF Owns, Inside, Keeps
  <2>4. ASSUME NEW v \in Windows, v # w PROVE Owns(v)'
    BY <2>4, <1>2, <1>3, <1>4, OthersOutside DEF Owns, Inside, Keeps
  <2> QED BY <1>1, <2>2, <2>3, <2>4 DEF OwnerInv
<1>7. ToolInv'
  BY <1>1 DEF ToolInv, Image, Verified
<1>8. WholeInv'
  <2>1. ~(importer.pc = "reading" /\ importer.by \in Windows)
    BY <1>3 DEF OwnerInv, Owns, Inside
  <2>2. KeepsWhole(w)'
    BY <1>1, <1>2, <1>5 DEF KeepsWhole, Current, Revision
  <2>3. ASSUME NEW v \in Windows, v # w PROVE KeepsWhole(v)'
    BY <2>3, <1>4, <1>5, OthersOutside DEF KeepsWhole
  <2> QED BY <1>1, <2>1, <2>2, <2>3 DEF WholeInv, Whole
<1>9. SavedInv'
  <2>1. BackupCompletes' <=> BackupCompletes
    BY <1>1 DEF BackupCompletes, Restored
  <2>2. Verified'
    BY <1>1 DEF Current, Verified
  <2>3. ASSUME NEW v \in Windows PROVE CanBeUndone(v)'
    BY <1>2, <1>4, <1>5, <2>2, OthersOutside DEF CanBeUndone, Changes, Keeps
  <2> QED BY <1>1, <1>3, <2>1, <2>2, <2>3 DEF SavedInv, Settled
<1> QED BY <1>6, <1>7, <1>8, <1>9

LEMMA PrepareKeeps ==
    ASSUME EditorInv, NEW w \in Windows, Prepare(w)
    PROVE  OwnerInv' /\ ToolInv' /\ WholeInv' /\ SavedInv'
<1> USE DEF EditorInv
<1>0. window[w] \in WindowStates
  BY DEF TypeInv
<1>1. /\ window[w].pc = "locked" /\ window[w].kind \in {"save", "context"} /\ lock = w
      /\ window' = [window EXCEPT ![w].pc = "prepared", ![w].before = Image]
      /\ UNCHANGED <<files, manifest, lock, preview, tool, importer, raced, wounds>>
  BY DEF Prepare, OwnerInv, Owns, Inside, packageVars, historyVars
<1>2. /\ window'[w].pc = "prepared" /\ window'[w].kind = window[w].kind /\ window'[w].rev = window[w].rev
      /\ window'[w].before = Image /\ window'[w].todo = window[w].todo
      /\ \A v \in Windows \ {w} : window'[v] = window[v]
  BY <1>0, <1>1 DEF TypeInv, WindowStates
<1>3. OthersOut(w)
  BY <1>1, <1>2, Alone DEF OthersOut, Inside
<1>4. Image \in Images /\ Image # None
  BY ImageType, EditorAssumption
<1>5. backup' = BackupOf(window'[w])
  <2> DEFINE roles == ReplacedBy(window[w].kind)
  <2>1. backup' = [Image EXCEPT !.files = [r \in roles |-> files[r]]]
    BY DEF Prepare, ReplacedBy
  <2>2. [r \in roles |-> Image.files[r]] = [r \in roles |-> files[r]]
    BY DEF Image
  <2>3. BackupOf(window'[w]) = [Image EXCEPT !.files = [r \in roles |-> Image.files[r]]]
    BY <1>2 DEF BackupOf
  <2> HIDE DEF roles
  <2> QED BY <2>1, <2>2, <2>3
<1>6. OwnerInv'
  <2>1. ~(importer.pc = "reading" /\ importer.by = w)
    BY <1>1 DEF OwnerInv, Owns
  <2>2. window[w].kind = "context" => preview'[w] \in Previews /\ preview'[w].rev = window'[w].rev
    BY <1>1, <1>2 DEF OwnerInv, Owns, Inside
  <2>3. Owns(w)'
    BY <1>1, <1>2, <1>4, <2>2 DEF Owns, Inside, Keeps
  <2>4. ASSUME NEW v \in Windows, v # w PROVE Owns(v)'
    BY <2>4, <1>2, <1>3, OthersOutside DEF OwnerInv, Owns, Inside, Keeps
  <2> QED BY <1>1, <1>3, <2>1, <2>3, <2>4 DEF OwnerInv, OthersOut
<1>7. ToolInv'
  BY <1>1 DEF ToolInv, Image, Verified
<1>8. WholeInv'
  <2>1. ~(importer.pc = "reading" /\ importer.by = w)
    BY <1>1 DEF OwnerInv, Owns
  <2>2. window'[w].before.manifest = manifest
    BY <1>2 DEF Image
  <2>3. "export" \notin raced => KeepsWhole(w)'
    BY <1>1, <1>2, <2>2 DEF KeepsWhole, WholeInv, Whole
  <2>4. ASSUME NEW v \in Windows, v # w PROVE KeepsWhole(v)'
    BY <2>4, <1>3, OthersOutside DEF KeepsWhole
  <2> QED BY <1>1, <1>3, <2>1, <2>3, <2>4 DEF WholeInv, Whole, OthersOut
<1>9. SavedInv'
  <2>1. ~Changes(w) /\ ~Changes(w)'
    BY <1>1, <1>2 DEF Changes
  <2>2. \A v \in Windows : ~Changes(v) /\ ~Changes(v)'
    BY <2>1, <1>3, OthersOutside
  <2>3. Image' = Image /\ (Verified' <=> Verified)
    BY <1>1 DEF Image, Verified
  <2>4. raced = {} /\ tool.pc = "off" => Verified
    BY <1>1 DEF SavedInv, CanBeUndone, Settled
  <2>5. raced = {} => CanBeUndone(w)'
    BY <1>1, <1>2, <1>5, <2>1, <2>3, <2>4 DEF CanBeUndone
  <2>6. ASSUME NEW v \in Windows, v # w PROVE CanBeUndone(v)'
    BY <2>6, <1>3, OthersOutside DEF CanBeUndone
  <2>7. raced = {} => Settled'
    BY <1>1, <2>2, <2>3, <2>4 DEF SavedInv, Settled
  <2> QED BY <1>1, <2>5, <2>6, <2>7 DEF SavedInv
<1> QED BY <1>6, <1>7, <1>8, <1>9

LEMMA RecheckKeeps ==
    ASSUME EditorInv, NEW w \in Windows, Recheck(w), Current(w)
    PROVE  OwnerInv' /\ ToolInv' /\ WholeInv' /\ SavedInv'
<1> USE DEF EditorInv
<1>0. window[w] \in WindowStates
  BY DEF TypeInv
<1>1. /\ window[w].pc = "prepared" /\ window[w].kind \in {"save", "context"} /\ lock = w
      /\ window' = [window EXCEPT ![w].pc = "writing", ![w].todo = Writes(window[w].kind)]
      /\ Verified /\ Revision(files) = window[w].rev
      /\ UNCHANGED <<files, manifest, lock, preview, backup, tool, importer, raced, wounds>>
  BY DEF Recheck, Current, OwnerInv, Owns, Inside, Keeps, packageVars, historyVars
<1>2. /\ window'[w].pc = "writing" /\ window'[w].kind = window[w].kind /\ window'[w].rev = window[w].rev
      /\ window'[w].before = window[w].before /\ window'[w].todo = Writes(window[w].kind)
      /\ window'[w].canvas = window[w].canvas
      /\ \A v \in Windows \ {w} : window'[v] = window[v]
  BY <1>0, <1>1 DEF TypeInv, WindowStates
<1>3. OthersOut(w)
  BY <1>1, <1>2, Alone DEF OthersOut, Inside
<1>4. window[w].before \in Images /\ window[w].before # None
  BY <1>1 DEF OwnerInv, Owns, Keeps
<1>5. Image' = Image /\ (Verified' <=> Verified) /\ ~(importer.pc = "reading" /\ importer.by = w)
  BY <1>1 DEF Image, Verified, OwnerInv
<1>6. OwnerInv'
  <2>1. window[w].kind = "context" => preview'[w] \in Previews /\ preview'[w].rev = window'[w].rev
    BY <1>1, <1>2 DEF OwnerInv, Owns, Inside
  <2>2. Owns(w)'
    BY <1>1, <1>2, <1>4, <2>1, WritesArePlans DEF Owns, Inside, Keeps
  <2>3. ASSUME NEW v \in Windows, v # w PROVE Owns(v)'
    BY <2>3, <1>2, <1>3, OthersOutside DEF OwnerInv, Owns, Inside, Keeps
  <2> QED BY <1>1, <1>3, <1>5, <2>2, <2>3 DEF OwnerInv, OthersOut
<1>7. ToolInv'
  BY <1>1, <1>5 DEF ToolInv
<1>8. WholeInv'
  <2>1. "export" \notin raced => Replays(files) /\ Whole(window[w].before.manifest)
    BY <1>1 DEF WholeInv, KeepsWhole, Whole, Verified, Replays, Keeps
  <2>2. "export" \notin raced => KeepsWhole(w)'
    BY <1>1, <1>2, <2>1 DEF KeepsWhole, Whole, Writes, Replays
  <2>3. ASSUME NEW v \in Windows, v # w PROVE KeepsWhole(v)'
    BY <2>3, <1>3, OthersOutside DEF KeepsWhole
  <2> QED BY <1>1, <1>3, <1>5, <2>2, <2>3 DEF WholeInv, Whole, OthersOut
<1>9. SavedInv'
  <2>1. ~Changes(w) /\ Changes(w)' /\ Keeps(w)
    BY <1>1, <1>2 DEF Changes, Keeps
  <2>2. \A v \in Windows : ~Changes(v)
    BY <2>1, <1>3, OthersOutside
  <2>3. raced = {} => CanBeUndone(w)'
    <3> SUFFICES ASSUME raced = {} PROVE CanBeUndone(w)'
      OBVIOUS
    <3>1. window[w].before = Image /\ backup = BackupOf(window[w])
      BY <1>1, <2>1 DEF SavedInv, CanBeUndone
    <3>2. backup' = BackupOf(window'[w])
      BY <1>1, <1>2, <3>1 DEF BackupOf
    <3>3. wounds = 0 => manifest.contextSource = files.context
      BY <2>2 DEF SavedInv, Settled
    <3>4. window[w].before.files = files /\ window[w].before.manifest = manifest
      BY <3>1 DEF Image
    <3>5. Grounded(window[w])'
      BY <1>1, <1>2, <3>3, <3>4 DEF Grounded, Verified
    <3>6. window[w].kind = "save" => SaveStands(window[w])'
      BY <1>1, <1>2, <3>4, PlansDiffer DEF SaveStands, Writes
    <3>7. window[w].kind = "context" => ContextStands(window[w])'
      BY <1>1, <1>2, <3>4, PlansDiffer DEF ContextStands, Writes
    <3>8. window'[w].todo # <<"contextSource", "seal", "verify">>
      BY <1>2, PlansDiffer DEF Writes
    <3> QED BY <1>2, <3>2, <3>5, <3>6, <3>7, <3>8 DEF CanBeUndone
  <2>4. ASSUME NEW v \in Windows, v # w PROVE CanBeUndone(v)'
    BY <2>4, <1>3, OthersOutside DEF CanBeUndone
  <2> QED BY <1>1, <2>1, <2>3, <2>4 DEF SavedInv
<1> QED BY <1>6, <1>7, <1>8, <1>9

LEMMA WriteFailsKeeps ==
    ASSUME EditorInv, NEW w \in Windows, WriteFails(w)
    PROVE  OwnerInv' /\ ToolInv' /\ WholeInv' /\ SavedInv'
<1> USE DEF EditorInv
<1>0. window[w] \in WindowStates
  BY DEF TypeInv
<1>1. /\ window[w].pc = "writing" /\ window[w].kind \in {"save", "context"} /\ lock = w
      /\ window' = [window EXCEPT ![w].pc = "undoing", ![w].todo = Restores(window[w].kind)]
      /\ UNCHANGED <<files, manifest, lock, preview, backup, tool, importer, raced, wounds>>
  BY DEF WriteFails, OwnerInv, Owns, Inside, Keeps, packageVars
<1>2. /\ window'[w].pc = "undoing" /\ window'[w].kind = window[w].kind /\ window'[w].rev = window[w].rev
      /\ window'[w].before = window[w].before /\ window'[w].todo = Restores(window[w].kind)
      /\ \A v \in Windows \ {w} : window'[v] = window[v]
  BY <1>0, <1>1 DEF TypeInv, WindowStates
<1>3. OthersOut(w)
  BY <1>1, <1>2, Alone DEF OthersOut, Inside
<1>4. window[w].before \in Images /\ window[w].before # None
  BY <1>1 DEF OwnerInv, Owns, Keeps
<1>5. Image' = Image /\ (Verified' <=> Verified) /\ ~(importer.pc = "reading" /\ importer.by = w)
  BY <1>1 DEF Image, Verified, OwnerInv
<1>6. OwnerInv'
  <2>1. window[w].kind = "context" => preview'[w] \in Previews /\ preview'[w].rev = window'[w].rev
    BY <1>1, <1>2 DEF OwnerInv, Owns, Inside
  <2>2. Owns(w)'
    BY <1>1, <1>2, <1>4, <2>1, WritesArePlans DEF Owns, Inside, Keeps
  <2>3. ASSUME NEW v \in Windows, v # w PROVE Owns(v)'
    BY <2>3, <1>2, <1>3, OthersOutside DEF OwnerInv, Owns, Inside, Keeps
  <2> QED BY <1>1, <1>3, <1>5, <2>2, <2>3 DEF OwnerInv, OthersOut
<1>7. ToolInv'
  BY <1>1, <1>5 DEF ToolInv
<1>8. WholeInv'
  <2>1. "export" \notin raced => KeepsWhole(w)'
    BY <1>1, <1>2 DEF WholeInv, KeepsWhole, Whole, Keeps
  <2>2. ASSUME NEW v \in Windows, v # w PROVE KeepsWhole(v)'
    BY <2>2, <1>3, OthersOutside DEF KeepsWhole
  <2> QED BY <1>1, <1>3, <1>5, <2>1, <2>2 DEF WholeInv, Whole, OthersOut
<1>9. SavedInv'
  <2>1. Changes(w)' /\ Changes(w) /\ Keeps(w)
    BY <1>1, <1>2 DEF Changes, Keeps
  <2>2. raced = {} => CanBeUndone(w)'
    <3> SUFFICES ASSUME raced = {} PROVE CanBeUndone(w)'
      OBVIOUS
    <3>a. backup = BackupOf(window[w]) /\ Grounded(window[w])
      BY <2>1 DEF SavedInv, CanBeUndone
    <3>b. GoesOn(w)
      BY <1>2 DEF GoesOn
    <3>1. backup' = BackupOf(window'[w])
      BY <1>1, <3>a, <3>b, GroundKept
    <3>2. Grounded(window[w])'
      BY <1>1, <3>a, <3>b, GroundKept
    <3>3. RollbackStands(window[w])'
      BY <1>1, <1>2, PlansDiffer DEF RollbackStands, Restores
    <3> QED BY <1>2, <3>1, <3>2, <3>3 DEF CanBeUndone
  <2>3. ASSUME NEW v \in Windows, v # w PROVE CanBeUndone(v)'
    BY <2>3, <1>3, OthersOutside DEF CanBeUndone
  <2> QED BY <1>1, <2>1, <2>2, <2>3 DEF SavedInv
<1> QED BY <1>6, <1>7, <1>8, <1>9

----------------------------------------------------------------------------
(* Files replaced and put back.                                            *)

\* One file, or the manifest, is replaced or put back by w.
Puts(w) ==
    /\ Changes(w) /\ window[w].todo # <<>>
    /\ window'[w].pc = window[w].pc /\ GoesOn(w) /\ window'[w].canvas = window[w].canvas
    /\ window'[w].todo = Tail(window[w].todo)
    /\ OthersOut(w)
    /\ UNCHANGED <<lock, preview, backup, tool, importer, wounds>>
    /\ raced \subseteq raced' /\ (tool.pc # "off" => tool.kind \in raced')

LEMMA WritePuts == ASSUME TypeInv, OwnerInv, NEW w \in Windows, Write(w) \/ Undo(w)
                   PROVE  Puts(w)
<1>0. window[w] \in WindowStates
  BY DEF TypeInv
<1>1. /\ Changes(w) /\ window[w].todo # <<>> /\ Races
      /\ window' = [window EXCEPT ![w].todo = Tail(@)]
      /\ UNCHANGED <<lock, preview, backup, tool, importer, wounds>>
  BY DEF Write, Undo, Changes
<1>2. /\ window'[w].pc = window[w].pc /\ GoesOn(w) /\ window'[w].canvas = window[w].canvas
      /\ window'[w].todo = Tail(window[w].todo)
      /\ \A v \in Windows \ {w} : window'[v] = window[v]
  BY <1>0, <1>1 DEF TypeInv, WindowStates, GoesOn
<1>3. OthersOut(w)
  BY <1>1, <1>2, Alone DEF OthersOut, Inside, Changes
<1>4. raced \subseteq raced' /\ (tool.pc # "off" => tool.kind \in raced')
  BY <1>1 DEF Races
<1> QED BY <1>1, <1>2, <1>3, <1>4 DEF Puts

\* What is left is a later stage of the same plan.
LEMMA StagesFollow ==
    /\ \A kind \in {"save", "context"} : \A p \in ToWrite(kind) : p # <<>> => Tail(p) \in ToWrite(kind)
    /\ \A kind \in {"save", "context"} : \A p \in ToRestore(kind) : p # <<>> => Tail(p) \in ToRestore(kind)
<1>1. \A p \in ToWrite("save") : p # <<>> => Tail(p) \in ToWrite("save")
  BY Tails DEF ToWrite
<1>2. \A p \in ToWrite("context") : p # <<>> => Tail(p) \in ToWrite("context")
  BY Tails DEF ToWrite
<1>3. \A p \in ToRestore("save") : p # <<>> => Tail(p) \in ToRestore("save")
  BY Tails DEF ToRestore
<1>4. \A p \in ToRestore("context") : p # <<>> => Tail(p) \in ToRestore("context")
  BY Tails DEF ToRestore
<1> QED BY <1>1, <1>2, <1>3, <1>4

\* What is left to show of such a step: what it says of the package and of w.
LEMMA PutsKeeps ==
    ASSUME EditorInv, NEW w \in Windows, Puts(w),
           "export" \notin raced' => Whole(manifest)' /\ KeepsWhole(w)',
           raced' = {} => CanBeUndone(w)'
    PROVE  OwnerInv' /\ ToolInv' /\ WholeInv' /\ SavedInv'
<1> USE DEF EditorInv
<1>1. /\ Changes(w) /\ window[w].todo # <<>> /\ window'[w].pc = window[w].pc
      /\ window'[w].kind = window[w].kind /\ window'[w].rev = window[w].rev
      /\ window'[w].before = window[w].before /\ window'[w].todo = Tail(window[w].todo)
      /\ OthersOut(w)
      /\ UNCHANGED <<lock, preview, backup, tool, importer, wounds>>
      /\ raced \subseteq raced' /\ (tool.pc # "off" => tool.kind \in raced')
  BY DEF Puts, GoesOn
<1>2. window[w].kind \in {"save", "context"} /\ ~(importer.pc = "reading" /\ importer.by = w)
  BY <1>1 DEF OwnerInv, Owns, Keeps, Changes
<1>3. OwnerInv'
  <2>1. /\ window[w].pc = "writing" => window'[w].todo \in ToWrite(window'[w].kind)
        /\ window[w].pc = "undoing" => window'[w].todo \in ToRestore(window'[w].kind)
    BY <1>1, <1>2, StagesFollow DEF OwnerInv, Owns
  <2>2. Owns(w)'
    BY <1>1, <2>1 DEF OwnerInv, Owns, Inside, Keeps
  <2>3. ASSUME NEW v \in Windows, v # w PROVE Owns(v)'
    BY <2>3, <1>1, OthersOutside DEF OwnerInv, Owns, Inside, Keeps
  <2> QED BY <1>1, <1>2, <2>2, <2>3 DEF OwnerInv, OthersOut
<1>4. ToolInv'
  BY <1>1 DEF ToolInv
<1>5. WholeInv'
  <2>1. ASSUME NEW v \in Windows, v # w PROVE KeepsWhole(v)'
    BY <2>1, <1>1, OthersOutside DEF KeepsWhole
  <2>2. "export" \notin raced' => "export" \notin raced
    BY <1>1
  <2> QED BY <1>1, <1>2, <2>1, <2>2 DEF WholeInv, Whole, OthersOut
<1>6. SavedInv'
  <2>1. Changes(w)'
    BY <1>1 DEF Changes
  <2>2. ASSUME NEW v \in Windows, v # w PROVE CanBeUndone(v)'
    BY <2>2, <1>1, OthersOutside DEF CanBeUndone
  <2> QED BY <2>1, <2>2 DEF SavedInv
<1> QED BY <1>3, <1>4, <1>5, <1>6

\* What a write does, stage by stage.
LEMMA SaveDoes ==
    ASSUME TypeInv, OwnerInv, NEW w \in Windows, Write(w), window[w].kind = "save"
    PROVE  \/ /\ window[w].todo = <<"annotations", "network", "seal">>
              /\ files' = [files EXCEPT !.annotations = window[w].canvas] /\ manifest' = manifest
              /\ Tail(window[w].todo) = <<"network", "seal">>
           \/ /\ window[w].todo = <<"network", "seal">>
              /\ files' = [files EXCEPT !.network = window[w].canvas] /\ manifest' = manifest
              /\ Tail(window[w].todo) = <<"seal">>
           \/ /\ window[w].todo = <<"seal">>
              /\ files' = files /\ manifest' = [manifest EXCEPT !.sha = files]
              /\ Tail(window[w].todo) = <<>>
<1>1. window[w].todo \in ToWrite("save") /\ window[w].todo # <<>> /\ Replaced(w, Head(window[w].todo))
  BY DEF Write, OwnerInv, Owns
<1>2. CASE window[w].todo = <<"annotations", "network", "seal">>
  BY <1>1, <1>2, Tails DEF Replaced
<1>3. CASE window[w].todo = <<"network", "seal">>
  BY <1>1, <1>3, Tails DEF Replaced
<1>4. CASE window[w].todo = <<"seal">>
  BY <1>1, <1>4, Tails DEF Replaced
<1> QED BY <1>1, <1>2, <1>3, <1>4 DEF ToWrite

LEMMA ContextDoes ==
    ASSUME TypeInv, OwnerInv, NEW w \in Windows, Write(w), window[w].kind = "context"
    PROVE  \/ /\ window[w].todo = <<"context", "contextSource", "seal", "verify">>
              /\ files' = [files EXCEPT !.context = preview[w].context] /\ manifest' = manifest
              /\ Tail(window[w].todo) = <<"contextSource", "seal", "verify">>
           \/ /\ window[w].todo = <<"contextSource", "seal", "verify">>
              /\ files' = files
              /\ manifest' = [window[w].before.manifest EXCEPT !.contextSource = preview[w].context]
              /\ Tail(window[w].todo) = <<"seal", "verify">>
           \/ /\ window[w].todo = <<"seal", "verify">>
              /\ files' = files /\ manifest' = [manifest EXCEPT !.sha = files]
              /\ Tail(window[w].todo) = <<"verify">>
           \/ /\ window[w].todo = <<"verify">> /\ Verified
              /\ files' = files /\ manifest' = manifest
              /\ Tail(window[w].todo) = <<>>
<1>1. window[w].todo \in ToWrite("context") /\ window[w].todo # <<>> /\ Replaced(w, Head(window[w].todo))
  BY DEF Write, OwnerInv, Owns
<1>2. CASE window[w].todo = <<"context", "contextSource", "seal", "verify">>
  BY <1>1, <1>2, Tails DEF Replaced
<1>3. CASE window[w].todo = <<"contextSource", "seal", "verify">>
  BY <1>1, <1>3, Tails DEF Replaced
<1>4. CASE window[w].todo = <<"seal", "verify">>
  BY <1>1, <1>4, Tails DEF Replaced
<1>5. CASE window[w].todo = <<"verify">>
  BY <1>1, <1>5, Tails DEF Replaced, packageVars
<1> QED BY <1>1, <1>2, <1>3, <1>4, <1>5 DEF ToWrite

\* A save: the annotations, the network, the hashes.
LEMMA SaveKeeps ==
    ASSUME EditorInv, NEW w \in Windows, Write(w), window[w].kind = "save"
    PROVE  OwnerInv' /\ ToolInv' /\ WholeInv' /\ SavedInv'
<1> USE DEF EditorInv
<1>0. /\ window[w] \in WindowStates /\ window[w].before \in Images
      /\ files \in [Roles -> Contents] /\ manifest \in Manifests
  BY DEF TypeInv, OwnerInv, Owns, Keeps, Write
<1>1. /\ Puts(w) /\ window[w].pc = "writing" /\ window'[w].pc = "writing" /\ GoesOn(w)
      /\ window'[w].kind = "save" /\ window'[w].before = window[w].before
      /\ window'[w].canvas = window[w].canvas
      /\ window'[w].todo = Tail(window[w].todo)
      /\ UNCHANGED <<backup, wounds>> /\ raced \subseteq raced'
  BY WritePuts DEF Puts, GoesOn, Write
<1>2. \A r \in Roles \ ReplacedBy("save") : files'[r] = files[r]
  BY <1>0, SaveDoes DEF ReplacedBy, Roles
<1>3. "export" \notin raced' => Whole(manifest)' /\ KeepsWhole(w)'
  <2> SUFFICES ASSUME "export" \notin raced' PROVE Whole(manifest)' /\ KeepsWhole(w)'
    OBVIOUS
  <2>1. Whole(manifest) /\ KeepsWhole(w)
    BY <1>1 DEF WholeInv
  <2>2. Whole(window[w].before.manifest)
    BY <1>1, <2>1 DEF KeepsWhole, Keeps
  <2>3. CASE window[w].todo = <<"annotations", "network", "seal">>
    BY <1>0, <1>1, <2>1, <2>2, <2>3, SaveDoes, PlansDiffer DEF KeepsWhole, Whole, Roles
  <2>4. CASE window[w].todo = <<"network", "seal">>
    BY <1>0, <1>1, <2>1, <2>2, <2>4, SaveDoes, PlansDiffer DEF KeepsWhole, Whole, Roles
  <2>5. CASE window[w].todo = <<"seal">>
    BY <1>0, <1>1, <2>1, <2>2, <2>5, SaveDoes, PlansDiffer DEF KeepsWhole, Whole, Manifests, Roles
  <2> QED BY <2>3, <2>4, <2>5, SaveDoes
<1>4. raced' = {} => CanBeUndone(w)'
  <2> SUFFICES ASSUME raced' = {} PROVE CanBeUndone(w)'
    OBVIOUS
  <2>1. CanBeUndone(w) /\ Changes(w) /\ Keeps(w)
    BY <1>1 DEF SavedInv, Changes, Keeps
  <2>2. backup = BackupOf(window[w]) /\ Grounded(window[w]) /\ SaveStands(window[w])
    BY <1>1, <2>1 DEF CanBeUndone, GoesOn
  <2>3. backup' = BackupOf(window'[w]) /\ Grounded(window[w])'
    BY <1>1, <1>2, <2>2, GroundKept DEF GoesOn
  <2>4. SaveStands(window[w])'
    <3>1. CASE window[w].todo = <<"annotations", "network", "seal">>
      BY <1>0, <1>1, <2>2, <3>1, SaveDoes, PlansDiffer DEF SaveStands, Roles
    <3>2. CASE window[w].todo = <<"network", "seal">>
      BY <1>0, <1>1, <2>2, <3>2, SaveDoes, PlansDiffer DEF SaveStands
    <3>3. CASE window[w].todo = <<"seal">>
      BY <1>0, <1>1, <2>2, <3>3, SaveDoes, PlansDiffer DEF SaveStands, Manifests, Verified
    <3> QED BY <3>1, <3>2, <3>3, SaveDoes
  <2> QED BY <1>1, <2>3, <2>4 DEF CanBeUndone
<1> QED BY <1>1, <1>3, <1>4, PutsKeeps

\* A context: the file, its origin, the hashes, and the last look at all of them.
LEMMA ContextKeeps ==
    ASSUME EditorInv, NEW w \in Windows, Write(w), window[w].kind = "context"
    PROVE  OwnerInv' /\ ToolInv' /\ WholeInv' /\ SavedInv'
<1> USE DEF EditorInv
<1>0. /\ window[w] \in WindowStates /\ window[w].before \in Images
      /\ files \in [Roles -> Contents] /\ manifest \in Manifests
  BY DEF TypeInv, OwnerInv, Owns, Keeps, Write
<1>1. /\ Puts(w) /\ window[w].pc = "writing" /\ window'[w].pc = "writing" /\ GoesOn(w)
      /\ window'[w].kind = "context" /\ window'[w].before = window[w].before
      /\ window'[w].todo = Tail(window[w].todo) /\ preview' = preview
      /\ UNCHANGED <<backup, wounds>> /\ raced \subseteq raced'
  BY WritePuts DEF Puts, GoesOn, Write
<1>2. \A r \in Roles \ ReplacedBy("context") : files'[r] = files[r]
  BY <1>0, ContextDoes DEF ReplacedBy, Roles
<1>3. "export" \notin raced' => Whole(manifest)' /\ KeepsWhole(w)'
  <2> SUFFICES ASSUME "export" \notin raced' PROVE Whole(manifest)' /\ KeepsWhole(w)'
    OBVIOUS
  <2>1. Whole(manifest) /\ KeepsWhole(w)
    BY <1>1 DEF WholeInv
  <2>2. Whole(window[w].before.manifest) /\ Replays(files)
    BY <1>1, <2>1 DEF KeepsWhole, Keeps
  <2>3. Replays(files)'
    BY <1>2, <2>2 DEF ReplacedBy, Roles, Replays
  <2>4. Whole(manifest)'
    BY <1>0, <2>1, <2>2, ContextDoes DEF Whole, Replays, Manifests, Images
  <2>5. window'[w].todo \notin {<<"network", "seal">>, <<"seal">>}
    BY <1>1, ContextDoes, PlansDiffer
  <2> QED BY <1>1, <2>2, <2>3, <2>4, <2>5 DEF KeepsWhole
<1>4. raced' = {} => CanBeUndone(w)'
  <2> SUFFICES ASSUME raced' = {} PROVE CanBeUndone(w)'
    OBVIOUS
  <2>1. CanBeUndone(w) /\ Changes(w) /\ Keeps(w)
    BY <1>1 DEF SavedInv, Changes, Keeps
  <2>2. /\ backup = BackupOf(window[w]) /\ Grounded(window[w]) /\ ContextStands(window[w])
        /\ window[w].todo = <<"contextSource", "seal", "verify">> => files.context = preview[w].context
    BY <1>1, <2>1 DEF CanBeUndone, GoesOn
  <2>3. backup' = BackupOf(window'[w]) /\ Grounded(window[w])'
    BY <1>1, <1>2, <2>2, GroundKept DEF GoesOn
  <2>4. /\ ContextStands(window[w])'
        /\ window'[w].todo = <<"contextSource", "seal", "verify">> => files'.context = preview'[w].context
    <3>1. CASE window[w].todo = <<"context", "contextSource", "seal", "verify">>
      BY <1>0, <1>1, <2>2, <3>1, ContextDoes, PlansDiffer DEF ContextStands, Roles
    <3>2. CASE window[w].todo = <<"contextSource", "seal", "verify">>
      BY <1>0, <1>1, <2>2, <3>2, ContextDoes, PlansDiffer DEF ContextStands, Manifests, Images
    <3>3. CASE window[w].todo = <<"seal", "verify">>
      BY <1>0, <1>1, <2>2, <3>3, ContextDoes, PlansDiffer DEF ContextStands, Manifests, Verified
    <3>4. CASE window[w].todo = <<"verify">>
      BY <1>0, <1>1, <2>2, <3>4, ContextDoes, PlansDiffer DEF ContextStands, Verified
    <3> QED BY <3>1, <3>2, <3>3, <3>4, ContextDoes
  <2> QED BY <1>1, <2>3, <2>4 DEF CanBeUndone
<1> QED BY <1>1, <1>3, <1>4, PutsKeeps

LEMMA WriteKeeps ==
    ASSUME EditorInv, NEW w \in Windows, Write(w)
    PROVE  OwnerInv' /\ ToolInv' /\ WholeInv' /\ SavedInv'
<1>1. window[w].kind \in {"save", "context"}
  BY DEF EditorInv, OwnerInv, Owns, Keeps, Write
<1> QED BY <1>1, SaveKeeps, ContextKeeps

\* What a rollback does, stage by stage.
LEMMA UndoDoes ==
    ASSUME TypeInv, OwnerInv, NEW w \in Windows, Undo(w)
    PROVE  \/ /\ window[w].kind = "save" /\ window[w].todo = <<"annotations", "network", "manifest">>
              /\ files' = [files EXCEPT !.annotations = window[w].before.files.annotations]
              /\ manifest' = manifest /\ Tail(window[w].todo) = <<"network", "manifest">>
           \/ /\ window[w].kind = "save" /\ window[w].todo = <<"network", "manifest">>
              /\ files' = [files EXCEPT !.network = window[w].before.files.network]
              /\ manifest' = manifest /\ Tail(window[w].todo) = <<"manifest">>
           \/ /\ window[w].kind = "context" /\ window[w].todo = <<"context", "manifest">>
              /\ files' = [files EXCEPT !.context = window[w].before.files.context]
              /\ manifest' = manifest /\ Tail(window[w].todo) = <<"manifest">>
           \/ /\ window[w].todo = <<"manifest">>
              /\ files' = files /\ manifest' = window[w].before.manifest
              /\ Tail(window[w].todo) = <<>>
<1>1. window[w].kind \in {"save", "context"} /\ window[w].todo \in ToRestore(window[w].kind) /\ window[w].todo # <<>>
  BY DEF Undo, OwnerInv, Owns, Keeps
<1>2. CASE window[w].todo = <<"annotations", "network", "manifest">>
  <2>1. window[w].kind = "save"
    BY <1>1, <1>2 DEF ToRestore
  <2> QED BY <1>2, <2>1, Tails DEF Undo
<1>3. CASE window[w].todo = <<"network", "manifest">>
  <2>1. window[w].kind = "save"
    BY <1>1, <1>3, PlansDiffer DEF ToRestore
  <2> QED BY <1>3, <2>1, Tails DEF Undo
<1>4. CASE window[w].todo = <<"context", "manifest">>
  <2>1. window[w].kind = "context"
    BY <1>1, <1>4, PlansDiffer DEF ToRestore
  <2> QED BY <1>4, <2>1, Tails DEF Undo
<1>5. CASE window[w].todo = <<"manifest">>
  BY <1>5, Tails DEF Undo
<1> QED BY <1>1, <1>2, <1>3, <1>4, <1>5 DEF ToRestore

LEMMA UndoKeeps ==
    ASSUME EditorInv, NEW w \in Windows, Undo(w)
    PROVE  OwnerInv' /\ ToolInv' /\ WholeInv' /\ SavedInv'
<1> USE DEF EditorInv
<1>0. /\ window[w] \in WindowStates /\ window[w].before \in Images /\ window[w].kind \in {"save", "context"}
      /\ files \in [Roles -> Contents] /\ manifest \in Manifests
  BY DEF TypeInv, OwnerInv, Owns, Keeps, Undo
<1>1. /\ Puts(w) /\ window[w].pc = "undoing" /\ window'[w].pc = "undoing" /\ GoesOn(w)
      /\ window'[w].kind = window[w].kind /\ window'[w].before = window[w].before
      /\ window'[w].todo = Tail(window[w].todo)
      /\ UNCHANGED <<backup, wounds>> /\ raced \subseteq raced'
  BY WritePuts DEF Puts, GoesOn, Undo
<1>2. \A r \in Roles \ ReplacedBy(window[w].kind) : files'[r] = files[r]
  BY <1>0, UndoDoes DEF ReplacedBy, Roles
<1>3. "export" \notin raced' => Whole(manifest)' /\ KeepsWhole(w)'
  <2> SUFFICES ASSUME "export" \notin raced' PROVE Whole(manifest)' /\ KeepsWhole(w)'
    OBVIOUS
  <2>1. Whole(manifest) /\ Whole(window[w].before.manifest)
    BY <1>1 DEF WholeInv, KeepsWhole, Keeps
  <2>2. Whole(manifest)'
    BY <2>1, UndoDoes DEF Whole
  <2> QED BY <1>1, <2>1, <2>2 DEF KeepsWhole, Whole
<1>4. raced' = {} => CanBeUndone(w)'
  <2> SUFFICES ASSUME raced' = {} PROVE CanBeUndone(w)'
    OBVIOUS
  <2>1. CanBeUndone(w) /\ Changes(w) /\ Keeps(w)
    BY <1>1 DEF SavedInv, Changes, Keeps
  <2>2. backup = BackupOf(window[w]) /\ Grounded(window[w]) /\ RollbackStands(window[w])
    BY <1>1, <2>1 DEF CanBeUndone
  <2>3. backup' = BackupOf(window'[w]) /\ Grounded(window[w])'
    BY <1>1, <1>2, <2>2, GroundKept
  <2>4. RollbackStands(window[w])'
    <3>a. files' \in [Roles -> Contents] /\ window[w].before.files \in [Roles -> Contents]
      BY <1>0, UndoneType DEF Images
    <3>b. \A r \in Roles \ ReplacedBy(window[w].kind) : files[r] = window[w].before.files[r]
      BY <2>2 DEF Grounded
    <3>1. CASE window[w].kind = "save" /\ window[w].todo = <<"annotations", "network", "manifest">>
      BY <1>0, <1>1, <3>1, UndoDoes, PlansDiffer DEF RollbackStands, Roles
    <3>2. CASE window[w].kind = "save" /\ window[w].todo = <<"network", "manifest">>
      <4>1. files' = [files EXCEPT !.network = window[w].before.files.network] /\ window'[w].todo = <<"manifest">>
        BY <1>1, <3>2, UndoDoes, PlansDiffer
      <4>2. files.annotations = window[w].before.files.annotations
        BY <2>2, <3>2 DEF RollbackStands
      <4>3. \A r \in Roles : files'[r] = window[w].before.files[r]
        BY <1>0, <3>2, <3>b, <4>1, <4>2 DEF ReplacedBy, Roles
      <4>4. files' = window[w].before.files
        BY <3>a, <4>3
      <4> QED BY <1>1, <4>1, <4>4, PlansDiffer DEF RollbackStands
    <3>3. CASE window[w].kind = "context" /\ window[w].todo = <<"context", "manifest">>
      <4>1. files' = [files EXCEPT !.context = window[w].before.files.context] /\ window'[w].todo = <<"manifest">>
        BY <1>1, <3>3, UndoDoes, PlansDiffer
      <4>2. \A r \in Roles : files'[r] = window[w].before.files[r]
        BY <1>0, <3>3, <3>b, <4>1 DEF ReplacedBy, Roles
      <4>3. files' = window[w].before.files
        BY <3>a, <4>2
      <4> QED BY <1>1, <4>1, <3>3, <4>3, PlansDiffer DEF RollbackStands
    <3>4. CASE window[w].todo = <<"manifest">>
      BY <1>1, <2>2, <3>4, UndoDoes, PlansDiffer DEF RollbackStands
    <3> QED BY <3>1, <3>2, <3>3, <3>4, UndoDoes
  <2> QED BY <1>1, <2>3, <2>4 DEF CanBeUndone
<1> QED BY <1>1, <1>3, <1>4, PutsKeeps

----------------------------------------------------------------------------
(* Requests that changed files, answered or cut short.                     *)

\* Cut short, the request leaves a backup that completes the package.
LEMMA CutShort ==
    ASSUME TypeInv, OwnerInv, WholeInv, SavedInv, raced = {}, NEW w \in Windows, Changes(w),
           wounds' = wounds + 1, UNCHANGED <<files, backup>>
    PROVE  wounds' # 0 /\ BackupCompletes'
<1> DEFINE b == window[w].before
           roles == ReplacedBy(window[w].kind)
<1>1. Keeps(w) /\ b \in Images /\ Whole(b.manifest) /\ window[w].kind \in {"save", "context"}
  BY DEF Keeps, Changes, OwnerInv, Owns, WholeInv, KeepsWhole
<1>2. backup = BackupOf(window[w]) /\ Grounded(window[w])
  BY <1>1 DEF SavedInv, CanBeUndone
<1>3. roles \subseteq Roles
  BY DEF ReplacedBy, Roles
<1>4. b.files \in [Roles -> Contents] /\ b.manifest \in Manifests /\ files \in [Roles -> Contents]
  BY <1>1 DEF Images, TypeInv
<1> HIDE DEF roles
<1>5. backup = [b EXCEPT !.files = [r \in roles |-> b.files[r]]]
  BY <1>2 DEF BackupOf, roles
<1>6. backup.files = [r \in roles |-> b.files[r]] /\ backup.manifest = b.manifest
  BY <1>1, <1>5 DEF Images
<1>7. backup \in Backups
  <2>1. [r \in roles |-> b.files[r]] \in [roles -> Contents]
    BY <1>3, <1>4
  <2>2. [r \in roles |-> b.files[r]] \in UNION {[R -> Contents] : R \in SUBSET Roles}
    BY <1>3, <2>1
  <2> QED BY <1>1, <1>4, <1>5, <2>2 DEF Backups, Images
<1>8. Restored(backup) = b.files
  <2>1. \A r \in Roles : Restored(backup)[r] = b.files[r]
    BY <1>2, <1>6 DEF Restored, Grounded, roles
  <2>2. Restored(backup) = [r \in Roles |-> b.files[r]]
    BY <2>1, <1>6, <1>2 DEF Restored, Grounded, roles
  <2> QED BY <2>2, <1>4
<1>9. wounds \in Nat
  BY DEF TypeInv
<1>10. b.manifest.sha = b.files /\ (wounds = 0 => b.files.context = b.manifest.contextSource)
  BY <1>2 DEF Grounded
<1>11. Restored(backup)' = Restored(backup)
  BY DEF Restored
<1> QED BY <1>1, <1>6, <1>7, <1>8, <1>9, <1>10, <1>11, EditorAssumption DEF BackupCompletes

\* A request leaves the lock, and the package as it stands.
Leaves(w) ==
    /\ Changes(w) /\ lock' = None
    /\ window'[w].pc = "idle" /\ window'[w].before = None /\ OthersOut(w)
    /\ UNCHANGED <<files, manifest, backup, tool, importer, raced>>

LEMMA LeavesKeeps ==
    ASSUME EditorInv, NEW w \in Windows, Leaves(w), raced = {} => Settled'
    PROVE  OwnerInv' /\ ToolInv' /\ WholeInv' /\ SavedInv'
<1> USE DEF EditorInv, Leaves
<1>1. ~Inside(w)' /\ ~Keeps(w)' /\ ~Changes(w)' /\ ~(importer.pc = "reading" /\ importer.by = w)
  BY DEF Inside, Keeps, Changes, OwnerInv, Owns
<1>2. OwnerInv'
  <2>1. Owns(w)'
    BY <1>1 DEF Owns, Inside, Keeps
  <2>2. ASSUME NEW v \in Windows, v # w PROVE Owns(v)'
    BY <2>2, OthersOutside DEF OwnerInv, Owns, Inside, Keeps
  <2> QED BY <1>1, <2>1, <2>2 DEF OwnerInv, OthersOut
<1>3. ToolInv'
  BY DEF ToolInv, Image, Verified
<1>4. WholeInv'
  <2>1. ASSUME NEW v \in Windows PROVE KeepsWhole(v)'
    BY <1>1, OthersOutside DEF KeepsWhole
  <2> QED BY <1>1, <2>1 DEF WholeInv, Whole, OthersOut
<1>5. SavedInv'
  <2>1. ASSUME NEW v \in Windows PROVE CanBeUndone(v)'
    BY <1>1, OthersOutside DEF CanBeUndone
  <2> QED BY <2>1 DEF SavedInv
<1> QED BY <1>2, <1>3, <1>4, <1>5

LEMMA UndoFailsKeeps ==
    ASSUME EditorInv, NEW w \in Windows, UndoFails(w)
    PROVE  OwnerInv' /\ ToolInv' /\ WholeInv' /\ SavedInv'
<1> USE DEF EditorInv
<1>1. /\ Changes(w) /\ lock' = None /\ wounds' = wounds + 1
      /\ UNCHANGED <<files, manifest, preview, backup, tool, importer, raced>>
  BY DEF UndoFails, Changes, packageVars
<1>2. window'[w].pc = "idle" /\ window'[w].before = None /\ \A v \in Windows \ {w} : window'[v] = window[v]
  BY AtRestLooks DEF UndoFails
<1>3. OthersOut(w)
  BY <1>1, <1>2, Alone DEF OthersOut, Inside, Changes
<1>4. raced = {} => Settled'
  BY <1>1, CutShort DEF Settled
<1> QED BY <1>1, <1>2, <1>3, <1>4, LeavesKeeps DEF Leaves

LEMMA AnswerKeeps ==
    ASSUME EditorInv, NEW w \in Windows, Answer(w)
    PROVE  OwnerInv' /\ ToolInv' /\ WholeInv' /\ SavedInv'
<1> USE DEF EditorInv
<1>0. window[w] \in WindowStates /\ AtRest(window[w]) \in WindowStates
  BY RestType DEF TypeInv
<1>1. /\ Changes(w) /\ window[w].todo = <<>> /\ lock' = None
      /\ UNCHANGED <<files, manifest, backup, tool, importer, raced, wounds>>
  BY DEF Answer, Changes, packageVars, historyVars
<1>2. /\ window'[w].pc = "idle" /\ window'[w].before = None
      /\ \A v \in Windows \ {w} : window'[v] = window[v] /\ preview'[v] = preview[v]
  <2>1. /\ [AtRest(window[w]) EXCEPT !.rev = Revision(files)].pc = "idle"
        /\ [AtRest(window[w]) EXCEPT !.rev = Revision(files)].before = None
    BY <1>0, AtRestLooks DEF WindowStates
  <2>2. CASE window[w].pc = "writing" /\ Verified
    <3> HIDE DEF AtRest
    <3> QED BY <2>1, <2>2 DEF Answer, TypeInv
  <2>3. CASE ~(window[w].pc = "writing" /\ Verified)
    BY <2>3, AtRestLooks DEF Answer
  <2> QED BY <2>2, <2>3
<1>3. OthersOut(w)
  BY <1>1, <1>2, Alone DEF OthersOut, Inside, Changes
<1>4. raced = {} => Settled'
  <2> SUFFICES ASSUME raced = {} PROVE Settled'
    OBVIOUS
  <2>1. Grounded(window[w]) /\ window[w].kind \in {"save", "context"}
    BY <1>1 DEF SavedInv, CanBeUndone, OwnerInv, Owns, Keeps, Changes
  <2>2. CASE window[w].pc = "writing" /\ window[w].kind = "save"
    <3>1. Verified /\ manifest.contextSource = window[w].before.manifest.contextSource
      BY <1>1, <2>2 DEF SavedInv, CanBeUndone, SaveStands
    <3>2. files.context = window[w].before.files.context
      BY <2>1, <2>2 DEF Grounded, ReplacedBy, Roles
    <3> QED BY <1>1, <2>1, <3>1, <3>2 DEF Settled, Verified, Grounded
  <2>3. CASE window[w].pc = "writing" /\ window[w].kind = "context"
    <3>1. Verified /\ manifest.contextSource = files.context
      BY <1>1, <2>3 DEF SavedInv, CanBeUndone, ContextStands
    <3> QED BY <1>1, <3>1 DEF Settled, Verified
  <2>4. CASE window[w].pc = "undoing"
    <3>1. files = window[w].before.files /\ manifest = window[w].before.manifest
      BY <1>1, <2>4 DEF SavedInv, CanBeUndone, RollbackStands
    <3> QED BY <1>1, <2>1, <3>1 DEF Settled, Verified, Grounded
  <2> QED BY <1>1, <2>1, <2>2, <2>3, <2>4 DEF Changes
<1> QED BY <1>1, <1>2, <1>3, <1>4, LeavesKeeps DEF Leaves

----------------------------------------------------------------------------
(* Readers and writers the lock does not know.                             *)

\* A step that leaves the package, the windows and the script alone.
LEMMA ReadsKeep ==
    ASSUME EditorInv,
           UNCHANGED <<files, manifest, lock, window, preview, backup, tool, raced, wounds>>,
           importer'.pc = "reading" =>
              /\ importer'.by \in Windows =>
                    window[importer'.by].pc = "locked" /\ window[importer'.by].kind = "publish"
              /\ "export" \notin raced =>
                    /\ Whole(importer'.manifest)
                    /\ importer'.by \in Windows => Revision(importer'.manifest.sha) = window[importer'.by].rev
    PROVE  OwnerInv' /\ ToolInv' /\ WholeInv' /\ SavedInv'
<1> USE DEF EditorInv
<1>1. OwnerInv'
  BY DEF OwnerInv, Owns, Inside, Keeps
<1>2. ToolInv'
  BY DEF ToolInv, Image, Verified
<1>3. WholeInv'
  BY DEF WholeInv, KeepsWhole, Whole, Keeps, Replays, Revision
<1>4. SavedInv'
  BY DEF SavedInv, CanBeUndone, Settled, BackupCompletes, Restored, Grounded, SaveStands, ContextStands,
         RollbackStands, BackupOf, Keeps, Changes, Verified, Image
<1> QED BY <1>1, <1>2, <1>3, <1>4

LEMMA ImportStartsKeeps ==
    ASSUME EditorInv, NEW by \in Windows \cup {None}, ImportStarts(by)
    PROVE  OwnerInv' /\ ToolInv' /\ WholeInv' /\ SavedInv'
<1> USE DEF EditorInv
<1>1. /\ by \in Windows => window[by].pc = "locked" /\ window[by].kind = "publish"
      /\ Verified /\ importer' = [importer EXCEPT !.pc = "reading", !.by = by, !.manifest = manifest]
      /\ UNCHANGED <<files, manifest, lock, window, preview, backup, tool, raced, wounds>>
  BY DEF ImportStarts, packageVars, historyVars
<1>2. importer'.by = by /\ importer'.manifest = manifest
  BY <1>1 DEF TypeInv, ImporterStates
<1>3. "export" \notin raced => Whole(manifest) /\ (by \in Windows => Revision(manifest.sha) = window[by].rev)
  BY <1>1 DEF WholeInv, KeepsWhole, Verified
<1> QED BY <1>1, <1>2, <1>3, ReadsKeep

LEMMA ImportReadsKeeps ==
    ASSUME EditorInv, ImportReads
    PROVE  OwnerInv' /\ ToolInv' /\ WholeInv' /\ SavedInv'
<1>1. /\ importer.pc = "reading" /\ importer'.pc = importer.pc /\ importer'.by = importer.by
      /\ importer'.manifest = importer.manifest
      /\ UNCHANGED <<files, manifest, lock, window, preview, backup, tool, raced, wounds>>
  BY DEF ImportReads, EditorInv, TypeInv, ImporterStates, packageVars, historyVars
<1> QED BY <1>1, ReadsKeep DEF EditorInv, OwnerInv, WholeInv

LEMMA ImportEndsKeeps ==
    ASSUME EditorInv, ImportEnds
    PROVE  OwnerInv' /\ ToolInv' /\ WholeInv' /\ SavedInv'
<1>1. /\ importer'.pc = "off"
      /\ UNCHANGED <<files, manifest, preview, backup, tool, raced, wounds>>
  BY DEF ImportEnds, ImporterOff, packageVars, historyVars
<1>2. CASE importer.by \in Windows
  <2>1. PICK w \in Windows :
        /\ window[w].pc = "locked" /\ lock' = None
        /\ window' = [window EXCEPT ![w] = AtRest(window[w])]
    BY <1>2 DEF ImportEnds, EditorInv, OwnerInv
  <2>2. window'[w].pc = "idle" /\ window'[w].before = None /\ \A v \in Windows \ {w} : window'[v] = window[v]
    BY <2>1, AtRestLooks DEF EditorInv
  <2>3. OthersOut(w) /\ ~Changes(w) /\ ~Changes(w)' /\ ~Keeps(w)'
    BY <1>1, <2>1, <2>2, Alone DEF EditorInv, OthersOut, Inside, Changes, Keeps
  <2>4. OwnerInv'
    <3>1. ASSUME NEW v \in Windows PROVE Owns(v)'
      BY <2>2, <2>3, OthersOutside DEF EditorInv, OwnerInv, Owns, Inside, Keeps
    <3> QED BY <1>1, <3>1 DEF OwnerInv
  <2>5. ToolInv'
    BY <1>1 DEF EditorInv, ToolInv, Image, Verified
  <2>6. WholeInv'
    <3>1. ASSUME NEW v \in Windows PROVE KeepsWhole(v)'
      BY <2>2, <2>3, OthersOutside DEF KeepsWhole
    <3> QED BY <1>1, <3>1 DEF EditorInv, WholeInv, Whole
  <2>7. SavedInv'
    <3>1. ASSUME NEW v \in Windows PROVE CanBeUndone(v)'
      BY <2>2, <2>3, OthersOutside DEF CanBeUndone
    <3>2. \A v \in Windows : ~Changes(v)
      BY <2>3, OthersOutside
    <3> QED BY <1>1, <3>1, <3>2 DEF EditorInv, SavedInv, Settled, BackupCompletes, Restored, Verified
  <2> QED BY <2>4, <2>5, <2>6, <2>7
<1>3. CASE importer.by \notin Windows
  BY <1>1, <1>3, ReadsKeep DEF ImportEnds
<1> QED BY <1>2, <1>3

LEMMA ToolLoadsKeeps ==
    ASSUME EditorInv, NEW k \in {"export", "bundle"}, ToolLoads(k)
    PROVE  OwnerInv' /\ ToolInv' /\ WholeInv' /\ SavedInv'
<1> USE DEF EditorInv
<1>1. /\ tool'.pc = "loaded" /\ tool'.seen = Image /\ Verified
      /\ UNCHANGED <<files, manifest, lock, window, preview, backup, importer, raced, wounds>>
  BY DEF ToolLoads, packageVars, historyVars
<1>2. OwnerInv'
  BY <1>1 DEF OwnerInv, Owns, Inside, Keeps
<1>3. ToolInv'
  BY <1>1 DEF ToolInv, Image, Verified
<1>4. WholeInv'
  BY <1>1 DEF WholeInv, KeepsWhole, Whole, Keeps, Replays, Revision, Image
<1>5. SavedInv'
  BY <1>1 DEF SavedInv, CanBeUndone, Settled, Grounded, SaveStands, ContextStands,
              RollbackStands, BackupOf, Keeps, Changes, Verified, Image
<1> QED BY <1>2, <1>3, <1>4, <1>5

\* A script's step leaves the windows alone; what it writes it has read before,
\* unless it ran into a save.
ToolSteps ==
    /\ ToolRaces /\ tool'.kind = tool.kind
    /\ UNCHANGED <<lock, window, preview, backup, importer, wounds>>

LEMMA ToolKeeps ==
    ASSUME EditorInv, ToolSteps, tool.kind \notin raced' => ToolInv',
           "export" \notin raced' =>
              /\ Whole(manifest)'
              /\ files'.network = files.network /\ files'.annotations = files.annotations
              /\ files'.context = files.context
              /\ tool'.pc \in {"loaded", "wrote"} => Whole(tool'.seen.manifest)
              /\ tool'.pc \in {"wrote", "sealed"} => Whole(tool'.before.manifest),
           raced' = {} =>
              /\ manifest'.contextSource = manifest.contextSource
              /\ tool'.pc = "off" => Verified'
    PROVE  OwnerInv' /\ ToolInv' /\ WholeInv' /\ SavedInv'
<1> USE DEF EditorInv, ToolSteps
<1>1. /\ raced \subseteq raced'
      /\ raced' = {} => \A v \in Windows : window[v].before = None
  BY DEF ToolRaces
<1>2. OwnerInv'
  BY DEF OwnerInv, Owns, Inside, Keeps
<1>3. ToolInv'
  BY DEF ToolInv
<1>4. WholeInv'
  <2> SUFFICES ASSUME "export" \notin raced' PROVE WholeInv'
    BY DEF WholeInv
  <2>1. "export" \notin raced
    BY <1>1
  <2>2. ASSUME NEW v \in Windows PROVE KeepsWhole(v)'
    <3>1. KeepsWhole(v)
      BY <2>1 DEF WholeInv
    <3>2. (Replays(files) => Replays(files)') /\ Revision(files)' = Revision(files) /\ (Keeps(v)' <=> Keeps(v))
      BY DEF Replays, Revision, Keeps
    <3> QED BY <3>1, <3>2 DEF KeepsWhole, Whole
  <2> QED BY <2>1, <2>2 DEF WholeInv, Whole
<1>5. SavedInv'
  <2> SUFFICES ASSUME raced' = {} PROVE SavedInv'
    BY DEF SavedInv
  <2>1. raced = {} /\ \A v \in Windows : ~Keeps(v) /\ ~Changes(v) /\ window[v].pc # "prepared"
    BY <1>1 DEF OwnerInv, Owns, Keeps, Changes
  <2>2. ASSUME NEW v \in Windows PROVE CanBeUndone(v)'
    <3>1. ~Keeps(v)' /\ ~Changes(v)' /\ window'[v].pc \notin {"prepared", "writing", "undoing"}
      BY <2>1 DEF Keeps, Changes
    <3> QED BY <3>1 DEF CanBeUndone
  <2>3. Settled
    BY <2>1 DEF SavedInv
  <2>4. Settled'
    BY <2>3 DEF Settled
  <2> QED BY <2>2, <2>4 DEF SavedInv
<1> QED BY <1>2, <1>3, <1>4, <1>5

LEMMA ToolWritesKeeps ==
    ASSUME EditorInv, ToolWrites
    PROVE  OwnerInv' /\ ToolInv' /\ WholeInv' /\ SavedInv'
<1> USE DEF EditorInv
<1>0. /\ tool \in ToolStates /\ tool.seen \in Images /\ tool.pc = "loaded"
      /\ files \in [Roles -> Contents]
  BY DEF ToolWrites, TypeInv
<1>1. /\ tool'.pc = "wrote" /\ tool'.kind = tool.kind /\ tool'.seen = tool.seen /\ tool'.before = Image
      /\ ToolSteps /\ manifest' = manifest
  BY <1>0 DEF ToolWrites, ToolStates, ToolSteps
<1>2. raced \subseteq raced'
  BY <1>1 DEF ToolSteps, ToolRaces
<1>3. \/ tool.kind = "export" /\ files' = [files EXCEPT !.network = tool.seen.files.annotations]
      \/ tool.kind = "bundle" /\ files' = [files EXCEPT !.pois = Fresh]
  BY <1>0 DEF ToolWrites, ToolStates
<1>4. tool.kind \notin raced' => Image = tool.seen /\ Verified
  BY <1>0, <1>2 DEF ToolInv
<1>5. tool.kind \notin raced' => ToolInv'
  <2> SUFFICES ASSUME tool.kind \notin raced' PROVE ToolInv'
    OBVIOUS
  <2>1. tool.seen.files = files /\ tool.seen.manifest = manifest
    BY <1>4 DEF Image
  <2>2. tool.seen.manifest.sha = tool.seen.files
    BY <1>4, <2>1 DEF Verified
  <2>3. files' = IF tool.kind = "export"
                 THEN [tool.seen.files EXCEPT !.network = tool.seen.files.annotations]
                 ELSE [tool.seen.files EXCEPT !.pois = files'.pois]
    BY <1>0, <1>3, <2>1 DEF Roles
  <2> QED BY <1>1, <2>1, <2>2, <2>3 DEF ToolInv
<1>6. "export" \notin raced' =>
         /\ files'.network = files.network /\ files'.annotations = files.annotations
         /\ files'.context = files.context
  <2> SUFFICES ASSUME "export" \notin raced'
               PROVE  /\ files'.network = files.network /\ files'.annotations = files.annotations
                      /\ files'.context = files.context
    OBVIOUS
  <2>1. CASE tool.kind = "bundle"
    BY <1>0, <1>3, <2>1 DEF Roles
  <2>2. CASE tool.kind = "export"
    <3>1. tool.seen.files = files /\ files.network = files.annotations
      BY <1>2, <1>4, <2>2 DEF Image, Verified, WholeInv, Whole
    <3> QED BY <1>0, <1>3, <2>2, <3>1 DEF Roles
  <2> QED BY <1>3, <2>1, <2>2
<1>7. "export" \notin raced' => Whole(manifest)' /\ Whole(tool'.seen.manifest) /\ Whole(tool'.before.manifest)
  BY <1>0, <1>1, <1>2 DEF WholeInv, Whole, Image
<1> QED BY <1>1, <1>5, <1>6, <1>7, ToolKeeps

LEMMA ToolSealsKeeps ==
    ASSUME EditorInv, ToolSeals
    PROVE  OwnerInv' /\ ToolInv' /\ WholeInv' /\ SavedInv'
<1> USE DEF EditorInv
<1>0. /\ tool \in ToolStates /\ tool.seen \in Images /\ tool.pc = "wrote"
      /\ files \in [Roles -> Contents] /\ tool.seen.manifest \in Manifests
      /\ tool.seen.files \in [Roles -> Contents] /\ tool.seen.manifest.sha \in [Roles -> Contents]
  BY DEF ToolSeals, TypeInv, Images, Manifests
<1>1. /\ tool'.pc = (IF tool.kind = "export" THEN "off" ELSE "sealed") /\ tool'.kind = tool.kind
      /\ tool.kind = "bundle" => tool'.before = tool.before
      /\ ToolSteps /\ files' = files
  BY <1>0 DEF ToolSeals, ToolStates, ToolSteps
<1>2. raced \subseteq raced'
  BY <1>1 DEF ToolSteps, ToolRaces
<1>3. \/ tool.kind = "export" /\ manifest' = [tool.seen.manifest EXCEPT !.sha = files]
      \/ tool.kind = "bundle" /\ manifest' = [tool.seen.manifest EXCEPT !.sha.pois = files.pois]
  BY <1>0 DEF ToolSeals, ToolStates
<1>4. tool.kind \notin raced' =>
         /\ manifest = tool.seen.manifest /\ tool.seen.manifest.sha = tool.seen.files
         /\ files = IF tool.kind = "export"
                    THEN [tool.seen.files EXCEPT !.network = tool.seen.files.annotations]
                    ELSE [tool.seen.files EXCEPT !.pois = files.pois]
  BY <1>0, <1>2 DEF ToolInv
<1>5. manifest'.contextSource = tool.seen.manifest.contextSource
  BY <1>0, <1>3 DEF Manifests
<1>6. tool.kind \notin raced' => Verified'
  <2>1. CASE tool.kind = "export"
    BY <1>0, <1>1, <1>3, <2>1 DEF Verified, Manifests
  <2>2. CASE tool.kind = "bundle"
    <3>1. manifest'.sha = [tool.seen.manifest.sha EXCEPT !.pois = files.pois]
      BY <1>0, <1>3, <2>2 DEF Manifests
    <3> QED BY <1>1, <1>4, <2>2, <3>1 DEF Verified
  <2> QED BY <1>3, <2>1, <2>2
<1>7. tool.kind \notin raced' => ToolInv'
  BY <1>1, <1>6 DEF ToolInv
<1>8. "export" \notin raced' => Whole(manifest)' /\ (tool'.pc = "sealed" => Whole(tool'.before.manifest))
  <2> SUFFICES ASSUME "export" \notin raced' PROVE Whole(manifest)' /\ (tool'.pc = "sealed" => Whole(tool'.before.manifest))
    OBVIOUS
  <2>1. Whole(tool.seen.manifest) /\ Whole(tool.before.manifest)
    BY <1>0, <1>2 DEF WholeInv
  <2>2. CASE tool.kind = "export"
    <3>1. files.network = files.annotations /\ manifest'.sha = files
      BY <1>0, <1>3, <1>4, <2>2 DEF Manifests, Roles
    <3> QED BY <1>1, <2>2, <3>1 DEF Whole
  <2>3. CASE tool.kind = "bundle"
    <3>1. manifest'.sha = [tool.seen.manifest.sha EXCEPT !.pois = files.pois]
      BY <1>0, <1>3, <2>3 DEF Manifests
    <3>2. manifest'.sha.network = tool.seen.manifest.sha.network /\ manifest'.sha.annotations = tool.seen.manifest.sha.annotations
      BY <1>0, <3>1 DEF Roles
    <3> QED BY <1>1, <2>1, <2>3, <3>2 DEF Whole
  <2> QED BY <1>3, <2>2, <2>3
<1> QED BY <1>1, <1>4, <1>5, <1>6, <1>7, <1>8, ToolKeeps

LEMMA ToolChecksKeeps ==
    ASSUME EditorInv, ToolChecks
    PROVE  OwnerInv' /\ ToolInv' /\ WholeInv' /\ SavedInv'
<1> USE DEF EditorInv
<1>0. tool \in ToolStates /\ tool.pc = "sealed" /\ files \in [Roles -> Contents]
  BY DEF ToolChecks, TypeInv
<1>1. tool'.pc = "off" /\ tool'.kind = tool.kind /\ ToolSteps
  BY <1>0 DEF ToolChecks, ToolStates, ToolSteps
<1>2. raced \subseteq raced'
  BY <1>1 DEF ToolSteps, ToolRaces
<1>3. \/ Verified /\ files' = files /\ manifest' = manifest
      \/ ~Verified /\ manifest' = tool.before.manifest /\ files' = [files EXCEPT !.pois = tool.before.files.pois]
  BY DEF ToolChecks, packageVars
<1>4. tool.kind \notin raced' => Verified
  BY <1>0, <1>2 DEF ToolInv
<1>5. tool.kind \notin raced' => ToolInv'
  BY <1>1 DEF ToolInv
<1>6. "export" \notin raced' => Whole(manifest)'
  BY <1>0, <1>2, <1>3 DEF WholeInv, Whole
<1>7. files'.network = files.network /\ files'.annotations = files.annotations /\ files'.context = files.context
  BY <1>0, <1>3 DEF Roles
<1>8. raced' = {} => manifest'.contextSource = manifest.contextSource /\ Verified'
  BY <1>3, <1>4 DEF Verified
<1> QED BY <1>1, <1>5, <1>6, <1>7, <1>8, ToolKeeps

LEMMA CrashKeeps ==
    ASSUME EditorInv, Crash
    PROVE  OwnerInv' /\ ToolInv' /\ WholeInv' /\ SavedInv'
<1> USE DEF EditorInv
<1>1. /\ lock' = None /\ UNCHANGED <<files, manifest, preview, backup, tool, raced>>
      /\ wounds' = IF \E w \in Windows : Changes(w) THEN wounds + 1 ELSE wounds
      /\ importer' = IF importer.by \in Windows THEN ImporterOff ELSE importer
  BY DEF Crash, packageVars, Changes
<1>2. \A w \in Windows : window'[w].pc = "idle" /\ window'[w].before = None
  <2> HIDE DEF AtRest
  <2> QED BY AtRestLooks DEF Crash
<1>3. \A w \in Windows : ~Inside(w)' /\ ~Keeps(w)' /\ ~Changes(w)'
  BY <1>2 DEF Inside, Keeps, Changes
<1>4. ~(importer'.pc = "reading" /\ importer'.by \in Windows)
  BY <1>1 DEF ImporterOff
<1>5. OwnerInv'
  BY <1>2, <1>3, <1>4 DEF OwnerInv, Owns
<1>6. ToolInv'
  BY <1>1 DEF ToolInv, Image, Verified
<1>7. WholeInv'
  <2>1. ASSUME NEW v \in Windows PROVE KeepsWhole(v)'
    BY <1>2, <1>3 DEF KeepsWhole
  <2>2. importer'.pc = "reading" => importer' = importer
    BY <1>1 DEF ImporterOff
  <2> QED BY <1>1, <1>4, <2>1, <2>2 DEF WholeInv, Whole
<1>8. SavedInv'
  <2> SUFFICES ASSUME raced = {} PROVE SavedInv'
    BY <1>1 DEF SavedInv
  <2>1. ASSUME NEW v \in Windows PROVE CanBeUndone(v)'
    BY <1>2, <1>3 DEF CanBeUndone
  <2>2. CASE \E w \in Windows : Changes(w)
    <3>1. PICK w \in Windows : Changes(w)
      BY <2>2
    <3>2. wounds' # 0 /\ BackupCompletes'
      BY <1>1, <3>1, CutShort
    <3> QED BY <2>1, <3>2 DEF SavedInv, Settled
  <2>3. CASE ~\E w \in Windows : Changes(w)
    <3>1. Settled /\ wounds' = wounds
      BY <1>1, <2>3 DEF SavedInv
    <3>2. Settled'
      BY <1>1, <3>1 DEF Settled, Verified, BackupCompletes, Restored
    <3> QED BY <2>1, <3>2 DEF SavedInv
  <2> QED BY <2>2, <2>3
<1> QED BY <1>5, <1>6, <1>7, <1>8

----------------------------------------------------------------------------
(* The invariant holds at the start and is kept.                           *)

LEMMA EditorInit == PackageInit => EditorInv
<1> SUFFICES ASSUME PackageInit PROVE EditorInv
  OBVIOUS
<1>1. TypeInv
  BY InitType
<1>2. \A w \in Windows : window[w].pc = "idle" /\ window[w].before = None
  BY DEF PackageInit
<1>3. \A w \in Windows : ~Inside(w) /\ ~Keeps(w) /\ ~Changes(w)
  BY <1>2 DEF Inside, Keeps, Changes
<1>4. OwnerInv
  BY <1>2, <1>3 DEF OwnerInv, Owns, PackageInit, ImporterOff
<1>5. ToolInv
  BY DEF ToolInv, PackageInit
<1>6. WholeInv
  BY <1>2, <1>3 DEF WholeInv, KeepsWhole, Whole, PackageInit, ImporterOff, Roles
<1>7. SavedInv
  BY <1>2, <1>3 DEF SavedInv, CanBeUndone, Settled, Verified, PackageInit, Roles
<1> QED BY <1>1, <1>4, <1>5, <1>6, <1>7 DEF EditorInv

LEMMA LockedKeeps ==
    ASSUME EditorInv, NEW w \in Windows, Locked(w)
    PROVE  OwnerInv' /\ ToolInv' /\ WholeInv' /\ SavedInv'
<1>1. CASE Refused(w)
  BY <1>1, RefusalsBrowse, BrowsingKeeps DEF EditorInv
<1>2. ASSUME NEW k \in Kinds, Enter(w, k), ~Refused(w)
      PROVE  OwnerInv' /\ ToolInv' /\ WholeInv' /\ SavedInv'
  BY <1>2, EnterKeeps
<1>3. CASE GivesUp(w) \/ DraftAnswers(w)
  BY <1>1, <1>3 DEF Refused
<1>4. CASE Prepare(w)
  BY <1>4, PrepareKeeps
<1>5. CASE Recheck(w)
  BY <1>1, <1>5, RecheckKeeps DEF Refused
<1>6. CASE Write(w)
  BY <1>6, WriteKeeps
<1>7. CASE WriteFails(w)
  BY <1>7, WriteFailsKeeps
<1>8. CASE Undo(w)
  BY <1>8, UndoKeeps
<1>9. CASE UndoFails(w)
  BY <1>9, UndoFailsKeeps
<1>10. CASE Answer(w)
  BY <1>10, AnswerKeeps
<1> QED BY <1>1, <1>2, <1>3, <1>4, <1>5, <1>6, <1>7, <1>8, <1>9, <1>10 DEF Locked, Kinds

LEMMA OutsideKeeps ==
    ASSUME EditorInv, Outside
    PROVE  OwnerInv' /\ ToolInv' /\ WholeInv' /\ SavedInv'
BY ImportStartsKeeps, ImportReadsKeeps, ImportEndsKeeps, ToolLoadsKeeps, ToolWritesKeeps,
   ToolSealsKeeps, ToolChecksKeeps, CrashKeeps DEF Outside

LEMMA EditorStep == ASSUME EditorInv, [PackageNext]_editorVars PROVE EditorInv'
<1>1. TypeInv'
  BY TypeStep DEF EditorInv
<1>2. ASSUME NEW w \in Windows, Request(w) PROVE OwnerInv' /\ ToolInv' /\ WholeInv' /\ SavedInv'
  BY <1>2, RequestsBrowse, BrowsingKeeps DEF EditorInv
<1>3. CASE UNCHANGED editorVars
  <2>1. OwnerInv' /\ ToolInv' /\ WholeInv' /\ SavedInv'
    BY <1>3, ReadsKeep DEF editorVars, EditorInv, OwnerInv, WholeInv
  <2> QED BY <1>1, <2>1 DEF EditorInv
<1>4. CASE PackageNext
  BY <1>1, <1>2, <1>4, LockedKeeps, OutsideKeeps DEF PackageNext, EditorInv
<1> QED BY <1>3, <1>4

\* What a state of the editor satisfies whatever interleaved: who holds the lock
\* keeps before-images of a package that verified, and a script that raced nobody
\* finds the package it has loaded.
THEOREM EditorInvariant == PackageSpec => []EditorInv
<1>1. PackageInit => EditorInv
  BY EditorInit
<1>2. EditorInv /\ [PackageNext]_editorVars => EditorInv'
  BY EditorStep
<1> QED BY <1>1, <1>2, PTL DEF PackageSpec

----------------------------------------------------------------------------
(* What the files say of themselves is true.                               *)

LEMMA VerifiedWhole == ASSUME EditorInv PROVE VerifiedIsWhole
<1> USE DEF EditorInv
<1> SUFFICES ASSUME Verified
             PROVE  /\ "export" \notin raced => Replays(files)
                    /\ raced = {} /\ wounds = 0 /\ (\A w \in Windows : window[w].pc # "undoing") =>
                          manifest.contextSource = files.context
  BY DEF VerifiedIsWhole
<1>1. "export" \notin raced => Replays(files)
  BY DEF WholeInv, Whole, Verified, Replays
<1>2. ASSUME raced = {}, wounds = 0, \A w \in Windows : window[w].pc # "undoing"
      PROVE  manifest.contextSource = files.context
  <2>1. CASE \A w \in Windows : ~Changes(w)
    BY <1>2, <2>1 DEF SavedInv, Settled
  <2>2. CASE \E w \in Windows : Changes(w)
    <3>1. PICK w \in Windows : window[w].pc = "writing"
      BY <1>2, <2>2 DEF Changes
    <3>2. /\ Grounded(window[w]) /\ window[w].kind \in {"save", "context"}
          /\ window[w].todo \in ToWrite(window[w].kind)
      BY <1>2, <3>1 DEF SavedInv, CanBeUndone, Changes, OwnerInv, Owns, Keeps
    <3>3. CASE window[w].kind = "save"
      <4>1. manifest.contextSource = window[w].before.manifest.contextSource
        BY <1>2, <3>1, <3>3 DEF SavedInv, CanBeUndone, SaveStands
      <4>2. files.context = window[w].before.files.context
        BY <3>2, <3>3 DEF Grounded, ReplacedBy, Roles
      <4> QED BY <1>2, <3>2, <4>1, <4>2 DEF Grounded
    <3>4. CASE window[w].kind = "context"
      <4>0. ContextStands(window[w])
        BY <1>2, <3>1, <3>4 DEF SavedInv, CanBeUndone
      <4>1. CASE window[w].todo = <<"context", "contextSource", "seal", "verify">>
        BY <1>2, <3>2, <4>0, <4>1 DEF ContextStands, Grounded
      <4>2. CASE window[w].todo = <<"contextSource", "seal", "verify">>
        BY <1>2, <3>2, <4>0, <4>2 DEF ContextStands, Grounded, Verified
      <4>3. CASE window[w].todo \in {<<"seal", "verify">>, <<"verify">>, <<>>}
        BY <4>0, <4>3 DEF ContextStands
      <4> QED BY <3>2, <3>4, <4>1, <4>2, <4>3 DEF ToWrite
    <3> QED BY <3>2, <3>3, <3>4
  <2> QED BY <2>1, <2>2
<1> QED BY <1>1, <1>2

LEMMA ReadWhole == ASSUME EditorInv PROVE ImportedWhole
<1> SUFFICES ASSUME importer.pc = "reading", Matches, "export" \notin raced
             PROVE  /\ Replays(FilesRead)
                    /\ importer.by \in Windows => Revision(FilesRead) = window[importer.by].rev
  BY DEF ImportedWhole
<1>1. /\ Whole(importer.manifest)
      /\ importer.by \in Windows => Revision(importer.manifest.sha) = window[importer.by].rev
  BY DEF EditorInv, WholeInv
<1>2. FilesRead = importer.manifest.sha
  BY DEF Matches
<1> HIDE DEF FilesRead
<1> QED BY <1>1, <1>2 DEF Whole, Replays

\* However requests, scripts, imports, failures and crashes interleave: a package
\* that passes verification is whole, its origin is named, and an import that
\* matches its manifest has read one package, the revision its window had loaded
\* (read_editor, save_editor, apply_context, publish_saved_region).
THEOREM PackagesAreSound == PackageSpec => []PackageSound
<1>1. EditorInv => PackageSound
  <2> SUFFICES ASSUME EditorInv PROVE PackageSound
    OBVIOUS
  <2>1. TypeOK
    BY ImageType DEF EditorInv, TypeInv, TypeOK, WindowStates
  <2> QED BY <2>1, VerifiedWhole, ReadWhole DEF PackageSound
<1> QED BY <1>1, EditorInvariant, PTL

\* A save whose write failed is rolled back, and what a crash or a failed rollback
\* leaves behind the newest backup completes to a whole package (_write_backup,
\* _rollback).
THEOREM BackupsRepair == PackageSpec => []InterruptionsRepairable
<1>1. EditorInv => InterruptionsRepairable
  <2> SUFFICES ASSUME EditorInv, raced = {}, tool.pc = "off", ~Verified,
                      \A w \in Windows : window[w].pc \notin {"writing", "undoing"}
               PROVE  /\ wounds > 0 /\ backup # None
                      /\ LET f == Restored(backup)
                         IN /\ f = backup.manifest.sha /\ Replays(f)
                            /\ wounds = 1 => f.context = backup.manifest.contextSource
    BY DEF InterruptionsRepairable
  <2>1. BackupCompletes
    BY DEF EditorInv, SavedInv, Settled, Changes
  <2> HIDE DEF Restored
  <2> QED BY <2>1 DEF BackupCompletes, Whole, Replays
<1> QED BY <1>1, EditorInvariant, PTL

----------------------------------------------------------------------------
(* What a step may do.                                                     *)

\* The network and the context change under a writing window only by its own write
\* or by a script's, and a script that is there is in raced afterwards.
LEMMA WritersReplace ==
    ASSUME EditorInv, PackageNext, NEW w \in Windows, window[w].pc = "writing", raced' = {}
    PROVE  \/ files' = files
           \/ Write(w)
<1> USE DEF EditorInv
<1>1. /\ Keeps(w) /\ window[w].before # None /\ Inside(w)
  BY DEF Keeps, Inside, OwnerInv, Owns
<1>2. CASE ToolWrites \/ ToolSeals \/ ToolChecks
  BY <1>1, <1>2 DEF ToolWrites, ToolSeals, ToolChecks, ToolRaces
<1>3. ASSUME NEW v \in Windows, Write(v) \/ Undo(v), ~Write(w) PROVE FALSE
  <2>1. Inside(v)
    BY <1>3 DEF Write, Undo, Inside
  <2>2. v = w
    BY <1>1, <2>1, Alone
  <2> QED BY <1>3, <2>2 DEF Undo
<1>4. ASSUME NEW v \in Windows, Request(v) PROVE files' = files
  BY <1>4 DEF Request, Load, Draw, EngineRefuses, Check, PreviewStarts, PreviewReady, PreviewFails, packageVars
<1>5. ASSUME NEW v \in Windows, Locked(v), ~Write(v), ~Undo(v) PROVE files' = files
  BY <1>5 DEF Locked, Enter, GivesUp, Prepare, Recheck, DraftAnswers, WriteFails, UndoFails, Answer, packageVars
<1>6. ASSUME Outside, ~(ToolWrites \/ ToolSeals \/ ToolChecks) PROVE files' = files
  BY <1>6 DEF Outside, ImportStarts, ImportReads, ImportEnds, ToolLoads, Crash, packageVars
<1> QED BY <1>2, <1>3, <1>4, <1>5, <1>6 DEF PackageNext

\* A save replaces the canvas, or the context, of the revision the window drew on,
\* whatever was saved while the engine or the map service was at work (save_editor
\* compares the revision under the lock and again before it writes).
THEOREM NoSaveIsLost == PackageSpec => NoLostSave
<1> DEFINE Replaces(w) ==
        window[w].pc = "writing" /\ raced' = {} =>
          /\ files'.network # files.network => files.network = window[w].rev[1]
          /\ files'.context # files.context => files.context = preview[w].rev[3]
<1>1. ASSUME EditorInv, [PackageNext]_editorVars, NEW w \in Windows
      PROVE  Replaces(w)
  <2> SUFFICES ASSUME window[w].pc = "writing", raced' = {}, files' # files
               PROVE  /\ files'.network # files.network => files.network = window[w].rev[1]
                      /\ files'.context # files.context => files.context = preview[w].rev[3]
    OBVIOUS
  <2>1. Write(w)
    BY <1>1, WritersReplace DEF editorVars
  <2>2. /\ raced = {} /\ Grounded(window[w]) /\ window[w].kind \in {"save", "context"}
        /\ files \in [Roles -> Contents]
    BY <1>1, <2>1, WritePuts DEF EditorInv, SavedInv, CanBeUndone, Changes, OwnerInv, Owns, Keeps, Puts, TypeInv
  <2>3. Revision(window[w].before.files) = window[w].rev
    BY <2>2 DEF Grounded
  <2>4. CASE window[w].kind = "save"
    <3>1. files'.context = files.context
      BY <1>1, <2>1, <2>2, <2>4, SaveDoes DEF EditorInv, Roles
    <3>2. CASE window[w].todo = <<"annotations", "network", "seal">>
      BY <1>1, <2>1, <2>2, <2>4, <3>1, <3>2, SaveDoes, PlansDiffer DEF EditorInv, Roles
    <3>3. CASE window[w].todo = <<"network", "seal">>
      <4>1. files.network = window[w].before.files.network
        BY <1>1, <2>2, <2>4, <3>3 DEF EditorInv, SavedInv, CanBeUndone, SaveStands
      <4> QED BY <2>3, <3>1, <4>1 DEF Revision
    <3>4. CASE window[w].todo = <<"seal">>
      BY <1>1, <2>1, <2>4, <3>4, SaveDoes, PlansDiffer DEF EditorInv
    <3> QED BY <1>1, <2>1, <2>4, <3>2, <3>3, <3>4, SaveDoes DEF EditorInv
  <2>5. CASE window[w].kind = "context"
    <3>1. files'.network = files.network
      BY <1>1, <2>1, <2>2, <2>5, ContextDoes DEF EditorInv, Roles
    <3>2. CASE window[w].todo = <<"context", "contextSource", "seal", "verify">>
      <4>1. files = window[w].before.files
        BY <1>1, <2>2, <2>5, <3>2 DEF EditorInv, SavedInv, CanBeUndone, ContextStands
      <4>2. preview[w].rev = window[w].rev
        BY <1>1, <2>5 DEF EditorInv, OwnerInv, Owns, Inside
      <4> QED BY <2>3, <3>1, <4>1, <4>2 DEF Revision
    <3> QED BY <1>1, <2>1, <2>5, <3>1, <3>2, ContextDoes DEF EditorInv
  <2> QED BY <2>2, <2>4, <2>5
<1>2. EditorInv /\ [PackageNext]_editorVars => [\A w \in Windows : Replaces(w)]_editorVars
  BY <1>1
<1> QED BY <1>2, EditorInvariant, PTL DEF PackageSpec, NoLostSave

=============================================================================
