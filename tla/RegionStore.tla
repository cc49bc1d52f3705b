----------------------------- MODULE RegionStore -----------------------------
(***************************************************************************)
(* Region packages in MySQL (backend/app/mysql_regions.py) and the set of  *)
(* them that one lifetime of the application serves                        *)
(* (backend/app/region_storage.py).                                        *)
(*                                                                         *)
(* Any number of command-line imports and publications, and the editor's,  *)
(* run against one database; each is one transaction of several            *)
(* statements.  A version is named by the digest of its content: the same  *)
(* package imported twice is the same version.  The application lists the  *)
(* published versions once at its start, in a worker thread, and writes    *)
(* their files into a temporary directory of its own.                      *)
(***************************************************************************)
EXTENDS Naturals, FiniteSets

CONSTANTS
    Clients,    \* runs of the import or publish command, or of the editor's
    Regions,
    Default,    \* settings.region_id
    Versions,   \* version ids, in every region
    None,       \* NULL; nobody
    FileCount,  \* region_files rows of one package
    MaxStarts   \* bound: lifetimes of the application

ASSUME StoreAssumption ==
    /\ Default \in Regions
    /\ None \notin Versions \cup Clients
    /\ None \notin [Regions -> Versions \cup {None}]
    /\ FileCount \in Nat \ {0} /\ MaxStarts \in Nat

VARIABLES
    stored,     \* region_versions, committed: region -> set of versions
    files,      \* region_files, committed: <<region, version>> -> number of rows
    current,    \* regions.current_version_id, committed
    rowLock,    \* the transaction that has locked the row of a region
    tx,         \* each client: its command and how far it is
    app,        \* the lifespan: "down", "starting", "up"
    cancelled,  \* the start has been cancelled
    thread,     \* initialize_region_storage in its worker thread
    directory,  \* region_storage._directory is set, or a thread owns one
    regions,    \* region_storage._regions: region -> version, or None
    starts,     \* how many lifetimes have begun
    moments     \* history: every committed value of current

dbVars  == <<stored, files, current, moments>>
appVars == <<app, cancelled, thread, directory, regions, starts>>
storeVars == <<dbVars, rowLock, tx, appVars>>

Pointers == [Regions -> Versions \cup {None}]

NewTx == [pc |-> "new", region |-> Default, version |-> None, publish |-> FALSE,
          row |-> FALSE, rows |-> 0]

NoThread == [pc |-> "off", releases |-> [r \in Regions |-> None],
             loaded |-> [r \in Regions |-> None]]

\* The database is empty, or every region has been published once.
StoreInit ==
    /\ \E seed \in {{}} \cup {{v} : v \in Versions} :
          /\ stored = [r \in Regions |-> seed]
          /\ files = [p \in Regions \X Versions |-> IF p[2] \in seed THEN FileCount ELSE 0]
          /\ current = [r \in Regions |-> IF seed = {} THEN None ELSE CHOOSE v \in seed : TRUE]
    /\ moments = {current}
    /\ rowLock = [r \in Regions |-> None]
    /\ tx = [c \in Clients |-> NewTx]
    /\ app = "down" /\ cancelled = FALSE
    /\ thread = NoThread
    /\ directory = FALSE
    /\ regions = None
    /\ starts = 0

----------------------------------------------------------------------------
(* import_directory(publish) and publish.                                  *)

\* A command's transaction goes on to its next statement.
Step(c, from, to) == tx[c].pc = from /\ tx' = [tx EXCEPT ![c].pc = to]

\* Nothing is left of a transaction that has committed or was rolled back.
Over(c) == tx' = [tx EXCEPT ![c] = [NewTx EXCEPT !.pc = "done"]]

\* The package has been read and its snapshot computed; or the command names a
\* version to publish.
Begin(c) ==
    /\ tx[c].pc = "new"
    /\ \E r \in Regions, v \in Versions :
          \/ \E p \in BOOLEAN : tx' = [tx EXCEPT ![c] = [NewTx EXCEPT !.pc = "import",
                                           !.region = r, !.version = v, !.publish = p]]
          \/ tx' = [tx EXCEPT ![c] = [NewTx EXCEPT !.pc = "check",
                                         !.region = r, !.version = v, !.publish = TRUE]]
    /\ UNCHANGED <<dbVars, rowLock, appVars>>

\* mutant: the row is inserted with INSERT IGNORE, which does not wait for the others
RowFreeIgnored(c) == TRUE

\* Another transaction that holds the row of the region keeps this one waiting.
RowFree(c) == rowLock[tx[c].region] = None

\* INSERT INTO regions ... ON DUPLICATE KEY UPDATE: takes the row and keeps it.
LockRow(c) ==
    /\ Step(c, "import", "look") /\ RowFree(c)
    /\ rowLock' = [rowLock EXCEPT ![tx[c].region] = c]
    /\ UNCHANGED <<dbVars, appVars>>

\* The first consistent read of the transaction sees what is committed by now.
Found(c) == tx[c].version \in stored[tx[c].region]

\* SELECT ... FROM region_versions, under the lock.
Look(c) ==
    /\ tx[c].pc = "look"
    /\ tx' = [tx EXCEPT ![c].pc = IF Found(c) THEN "point" ELSE "insert"]
    /\ UNCHANGED <<dbVars, rowLock, appVars>>

\* A row with the key of this version that another transaction has not committed.
KeyTaken(c) == \E d \in Clients \ {c} : /\ tx[d].row
                                        /\ tx[d].region = tx[c].region
                                        /\ tx[d].version = tx[c].version

\* INSERT INTO region_versions, and then its files, one INSERT each.
InsertVersion(c) ==
    /\ tx[c].pc = "insert" /\ ~Found(c) /\ ~KeyTaken(c)
    /\ tx' = [tx EXCEPT ![c].pc = "files", ![c].row = TRUE]
    /\ UNCHANGED <<dbVars, rowLock, appVars>>

InsertFile(c) ==
    /\ tx[c].pc = "files"
    /\ tx' = [tx EXCEPT ![c].rows = @ + 1,
                        ![c].pc = IF tx[c].rows + 1 = FileCount THEN "point" ELSE "files"]
    /\ UNCHANGED <<dbVars, rowLock, appVars>>

\* The publish command looks before it locks; versions are never deleted.
CheckVersion(c) ==
    /\ tx[c].pc = "check"
    /\ IF Found(c) THEN Step(c, "check", "take") ELSE Over(c)
    /\ UNCHANGED <<dbVars, rowLock, appVars>>

TakeRow(c) ==
    /\ Step(c, "take", "point") /\ RowFree(c)
    /\ rowLock' = [rowLock EXCEPT ![tx[c].region] = c]
    /\ UNCHANGED <<dbVars, appVars>>

Unlocked(c) == [r \in Regions |-> IF rowLock[r] = c THEN None ELSE rowLock[r]]

\* The pointer is moved, if asked for, and everything is committed at once.
Commit(c) ==
    /\ tx[c].pc = "point" /\ Over(c)
    /\ LET r == tx[c].region  v == tx[c].version  IN
       /\ stored' = IF tx[c].row THEN [stored EXCEPT ![r] = @ \cup {v}] ELSE stored
       /\ files' = IF tx[c].row THEN [files EXCEPT ![<<r, v>>] = tx[c].rows] ELSE files
       /\ current' = IF tx[c].publish THEN [current EXCEPT ![r] = v] ELSE current
    /\ moments' = moments \cup {current'}
    /\ rowLock' = Unlocked(c)
    /\ UNCHANGED appVars

\* A statement fails, or the process dies: the open transaction is rolled back.
\* So does the INSERT of a version that another import has committed since.
Fail(c) ==
    /\ tx[c].pc \notin {"new", "done"} /\ Over(c)
    /\ rowLock' = Unlocked(c)
    /\ UNCHANGED <<dbVars, appVars>>

----------------------------------------------------------------------------
(* One lifetime of the application.                                        *)

\* lifespan starts the initialisation in a worker thread.
StartUp ==
    /\ app = "down" /\ starts < MaxStarts
    /\ app' = "starting" /\ starts' = starts + 1
    /\ cancelled' = FALSE
    /\ thread' = [NoThread EXCEPT !.pc = "listing"]
    /\ UNCHANGED <<dbVars, rowLock, tx, directory, regions>>

\* list_published.  Without the default region, or over a snapshot set that is
\* still there, the start fails.
List ==
    /\ thread.pc = "listing"
    /\ LET ok == current[Default] # None /\ ~directory
       IN /\ thread' = [thread EXCEPT !.pc = IF ok THEN "loading" ELSE "failed",
                                      !.releases = current]
          /\ directory' = (directory \/ ok)
    /\ UNCHANGED <<dbVars, rowLock, tx, app, cancelled, regions, starts>>

Listed(r) == thread.releases[r]

\* load_version and write_package of one more listed region, which verify what
\* they read against the version's digest.
Load(r) ==
    /\ thread.pc = "loading" /\ thread.releases[r] # None /\ thread.loaded[r] = None
    /\ IF files[<<r, Listed(r)>>] = FileCount
       THEN /\ thread' = [thread EXCEPT !.loaded[r] = Listed(r)]
            /\ UNCHANGED directory
       ELSE /\ thread' = [thread EXCEPT !.pc = "failed"]
            /\ directory' = FALSE
    /\ UNCHANGED <<dbVars, rowLock, tx, app, cancelled, regions, starts>>

\* The database or the disk fails: the directory goes.
LoadFails ==
    /\ thread.pc \in {"listing", "loading"}
    /\ thread' = [thread EXCEPT !.pc = "failed"]
    /\ directory' = (directory /\ thread.pc = "listing")
    /\ UNCHANGED <<dbVars, rowLock, tx, app, cancelled, regions, starts>>

\* mutant: the set is published once the region of the settings has been loaded
SelectedDefault == thread.loaded[Default] # None

\* Published only after every selected package has loaded.
Selected == \A r \in Regions : thread.releases[r] # None => thread.loaded[r] # None

PublishSet ==
    /\ thread.pc = "loading" /\ Selected
    /\ regions' = thread.loaded
    /\ thread' = [thread EXCEPT !.pc = "finished"]
    /\ UNCHANGED <<dbVars, rowLock, tx, app, cancelled, directory, starts>>

\* The lifespan's task is cancelled while it awaits the thread.
CancelStart ==
    /\ app = "starting" /\ ~cancelled
    /\ cancelled' = TRUE
    /\ UNCHANGED <<dbVars, rowLock, tx, app, thread, directory, regions, starts>>

\* mutant: a cancelled start does not wait for its thread
ThreadOverOrLeft == thread.pc \in {"finished", "failed"} \/ cancelled

\* _prepare_analysis_input: even a cancelled start outlasts its thread.
ThreadOver == thread.pc \in {"finished", "failed"}

\* close_region_storage, last of all in the lifespan's cleanup.
ClosedStorage == regions' = None /\ directory' = (directory /\ regions = None)

StartEnds ==
    /\ app = "starting" /\ ThreadOver
    /\ IF thread.pc = "finished" /\ ~cancelled
       THEN app' = "up" /\ thread' = NoThread /\ UNCHANGED <<directory, regions>>
       ELSE /\ app' = "down"
            /\ thread' = IF thread.pc \in {"finished", "failed"} THEN NoThread ELSE thread
            /\ ClosedStorage
    /\ UNCHANGED <<dbVars, rowLock, tx, cancelled, starts>>

ShutDown ==
    /\ app = "up"
    /\ app' = "down"
    /\ ClosedStorage
    /\ UNCHANGED <<dbVars, rowLock, tx, cancelled, thread, starts>>

ClientStep(c) ==
    \/ Begin(c) \/ LockRow(c) \/ Look(c) \/ InsertVersion(c) \/ InsertFile(c)
    \/ CheckVersion(c) \/ TakeRow(c) \/ Commit(c) \/ Fail(c)

AppStep ==
    \/ StartUp \/ List \/ (\E r \in Regions : Load(r)) \/ LoadFails \/ PublishSet
    \/ CancelStart \/ StartEnds \/ ShutDown

StoreNext == (\E c \in Clients : ClientStep(c)) \/ AppStep

StoreSpec == StoreInit /\ [][StoreNext]_storeVars

----------------------------------------------------------------------------
(* Properties.                                                             *)

\* Imports of one package, however many run at once, agree on who creates its
\* version: an import that found none meets no duplicate key when it inserts it.
NoDuplicateKey == \A c \in Clients : tx[c].pc = "insert" => ~Found(c) /\ ~KeyTaken(c)

\* What one lifetime serves was published at one moment, in all regions together,
\* and is complete, although the pointers move while the packages are loaded.
ServesOneMoment ==
    regions # None => /\ regions \in moments
                      /\ \A r \in Regions : regions[r] # None => files[<<r, regions[r]>>] = FileCount

\* A lifetime that is over, however it ended, leaves nothing to the next: no set,
\* no directory and no thread that would still make one.
DownIsClean == app = "down" => regions = None /\ ~directory /\ thread.pc = "off"

TypeOK ==
    /\ stored \in [Regions -> SUBSET Versions]
    /\ files \in [Regions \X Versions -> 0..FileCount]
    /\ current \in Pointers /\ moments \subseteq Pointers
    /\ rowLock \in [Regions -> Clients \cup {None}]
    /\ app \in {"down", "starting", "up"} /\ cancelled \in BOOLEAN
    /\ directory \in BOOLEAN
    /\ regions \in Pointers \cup {None}
    /\ starts \in 0..MaxStarts

\* A lifetime begins with nothing left of the last.
LifetimesClean == TypeOK /\ DownIsClean
=============================================================================
