-------------------------- MODULE RegionLife_proofs --------------------------
(***************************************************************************)
(* Theorems about a region from the canvas to the application that serves  *)
(* it, as RegionLife composes them: RegionStore, EditorCanvas, Refinement. *)
(***************************************************************************)
EXTENDS RegionLife, SequenceTheorems, TLAPS

Transactions ==
    [pc : {"new", "import", "look", "insert", "files", "check", "take", "point", "done"},
     region : Regions, version : Versions \cup {None}, publish : BOOLEAN,
     row : BOOLEAN, rows : 0..FileCount]

Threads ==
    [pc : {"off", "listing", "loading", "failed", "finished"},
     releases : Pointers, loaded : Pointers]

StoreTypes == TypeOK /\ tx \in [Clients -> Transactions] /\ thread \in Threads

\* Where a transaction that has locked the row of its region can be.
Holding == {"look", "insert", "files", "point"}

\* A transaction holds its region's row while it looks, writes and commits, and has
\* the row of a version with all its files when it commits one.
Sound(t) ==
    /\ t.pc \notin {"new", "done"} => t.version \in Versions
    /\ t.pc \in {"import", "look", "insert"} => t.rows = 0
    /\ t.pc = "files" => t.rows < FileCount
    /\ t.row => \/ t.pc = "files"
                \/ t.pc = "point" /\ t.rows = FileCount

LocksInv ==
    \A c \in Clients :
        /\ Sound(tx[c])
        /\ tx[c].pc \in Holding => rowLock[tx[c].region] = c
        /\ tx[c].pc = "insert" => ~Found(c)

\* A set of packages that are there with all their files.
Whole(set) == \A r \in Regions : set[r] # None => files[<<r, set[r]>>] = FileCount

\* What the thread has listed was current at one moment, and what it has loaded is
\* of that list.
ThreadInv ==
    /\ thread.pc \in {"loading", "finished"} => thread.releases \in moments
    /\ \A r \in Regions : thread.loaded[r] \in {None, thread.releases[r]}
    /\ thread.pc = "listing" => \A r \in Regions : thread.loaded[r] = None
    /\ Whole(thread.loaded)

\* The published set, the directory and the thread at each stage of a lifetime.
StageInv ==
    /\ app = "down" => thread.pc = "off" /\ regions = None /\ ~directory
    /\ app = "up" => thread.pc = "off" /\ regions # None
    /\ app = "starting" =>
          /\ thread.pc # "off"
          /\ thread.pc = "finished" <=> regions # None
          /\ directory <=> thread.pc \in {"loading", "finished"}
    /\ regions # None => regions \in moments /\ Whole(regions)

StoreInv == StoreTypes /\ current \in moments /\ LocksInv /\ ThreadInv /\ StageInv

----------------------------------------------------------------------------
(* The inductive invariant of the canvas of a patient user.                *)

\* What there can be of a graph now: an edge needs the node it ends in.
Drawn == {g \in Graphs : Connected(g) /\ \A i \in Items : g[i].at <= changes}

Requests ==
    [on : {"nothing", "saving", "reviewing"}, at : {"awaited", "answered", "failed"},
     graph : Drawn \cup {Nothing}, revision : Drawn \cup {Nothing},
     answer : Drawn \cup {Nothing}]

CanvasTypes ==
    /\ changes \in Nat /\ dirty \in BOOLEAN
    /\ saved \in Drawn
    /\ canvas \in Drawn \cup {Nothing} /\ revision \in Drawn \cup {Nothing}
    /\ canvas = Nothing <=> revision = Nothing
    /\ busy \in Requests
    /\ loading \in [at : {"no", "asked", "answered", "outline"},
                   graph : Drawn \cup {Nothing}, torn : BOOLEAN]
    /\ loading.at = "answered" => loading.graph \in Drawn
    /\ drag \in Drawn \cup {Nothing}
    /\ draft \in [revision : Drawn, graph : Drawn] \cup {Nothing}

\* While a request or a drag is under way nothing else changes the canvas, and
\* nothing at all does beside the history of another graph.
PatienceInv ==
    /\ ~Idle => /\ Shown /\ Careful
                /\ busy.graph = canvas /\ busy.revision = revision
                /\ busy.at = "answered" => busy.answer \in Drawn
                /\ busy.on = "saving" /\ busy.at = "answered" => busy.answer = canvas
    /\ ~Released => Shown /\ loading.at = "no" /\ ~loading.torn
    /\ loading.torn => Shown /\ canvas = revision
    /\ loading.at = "outline" => loading.torn

Patches == UNION {[changed -> [before : Records, after : Records]] : changed \in SUBSET Items}

\* The canvas of the last entry: a drag is not recorded before it ends.
Recorded == IF Released THEN canvas ELSE drag

\* An entry leads from one canvas of the trail to the next.
Leads == \A k \in 1..Len(entries) : entries[k] = PatchOf(trail[k], trail[k + 1])

HistoryInv ==
    /\ entries \in Seq(Patches) /\ trail \in Seq(Graphs \cup {Nothing})
    /\ Len(entries) \in 0..MaxSteps /\ cursor \in 0..Len(entries)
    /\ Len(trail) = Len(entries) + 1
    /\ Shown /\ ~loading.torn =>
          /\ \A k \in 1..Len(trail) : trail[k] \in Drawn
          /\ Leads
          /\ trail[cursor + 1] = Recorded
          /\ ~dirty => Recorded = revision

\* No older than what others have saved last; and theirs only if it is just that.
UpTo(last, g)   == \A i \in Items : g[i].at >= last[i]
Within(last, g) == UpTo(last, g) /\ \A i \in Items : g[i].by = "other" => g[i].at = last[i]

\* While the revision is not outdated, nothing the window has is; and a revision
\* that is outdated does not become current again.
Latest(last) ==
    /\ \A i \in Items : last[i] <= changes
    /\ Within(last, saved)
    /\ Shown /\ UpTo(last, revision) =>
          /\ Within(last, canvas) /\ Within(last, revision)
          /\ ~Released => Within(last, drag)
          /\ ~loading.torn => \A k \in 1..Len(trail) : Within(last, trail[k])
          /\ ~Idle /\ busy.at = "answered" => Within(last, busy.answer)
    /\ busy.on = "saving" /\ busy.at = "answered" /\ UpTo(last, canvas) => UpTo(last, revision)
    /\ loading.at = "answered" /\ UpTo(last, loading.graph) => Within(last, loading.graph)
    /\ draft # Nothing /\ UpTo(last, draft.revision) => Within(last, draft.graph)

LatestInv == \E last \in [Items -> 0..changes] : Latest(last)

CanvasInv == CanvasTypes /\ PatienceInv /\ HistoryInv /\ LatestInv

----------------------------------------------------------------------------
(* The commands.                                                           *)

\* A statement of c's transaction that commits nothing: what has to be shown of it.
LEMMA StatementKeeps ==
    ASSUME StoreInv, NEW c \in Clients, NEW t \in Transactions, tx' = [tx EXCEPT ![c] = t],
           Sound(t),
           t.pc \in Holding => rowLock'[t.region] = c,
           t.pc = "insert" => t.version \notin stored[t.region],
           rowLock' \in [Regions -> Clients \cup {None}],
           \A r \in Regions : rowLock[r] \notin {None, c} => rowLock'[r] = rowLock[r],
           UNCHANGED <<dbVars, appVars>>
    PROVE  StoreInv'
<1>1. StoreTypes /\ LocksInv /\ ThreadInv /\ StageInv
  BY DEF StoreInv
<1>2. tx \in [Clients -> Transactions]
  BY <1>1 DEF StoreTypes
<1>3. tx' \in [Clients -> Transactions] /\ tx'[c] = t /\ \A d \in Clients \ {c} : tx'[d] = tx[d]
  BY <1>2
<1>4. UNCHANGED <<stored, files, current, moments, app, cancelled, thread, directory, regions, starts>>
  BY DEF dbVars, appVars
<1>5. StoreTypes'
  BY <1>1, <1>3, <1>4 DEF StoreTypes, TypeOK
<1>6. ASSUME NEW d \in Clients
      PROVE  /\ Sound(tx'[d])
             /\ tx'[d].pc \in Holding => rowLock'[tx'[d].region] = d
             /\ tx'[d].pc = "insert" => tx'[d].version \notin stored'[tx'[d].region]
  <2>1. CASE d = c
    BY <1>3, <1>4, <2>1
  <2>2. CASE d # c
    <3>1. /\ Sound(tx[d]) /\ tx[d].region \in Regions
          /\ tx[d].pc \in Holding => rowLock[tx[d].region] = d
          /\ tx[d].pc = "insert" => tx[d].version \notin stored[tx[d].region]
      BY <1>1, <1>2 DEF LocksInv, Found, Transactions
    <3>2. tx'[d] = tx[d] /\ d \notin {None, c}
      BY <1>3, <2>2, StoreAssumption
    <3> QED  BY <1>4, <3>1, <3>2
  <2> QED  BY <2>1, <2>2
<1>7. LocksInv'
  BY <1>6 DEF LocksInv, Found, Sound
<1>8. ThreadInv' /\ StageInv'
  BY <1>1, <1>4 DEF ThreadInv, StageInv, Whole
<1> QED  BY <1>4, <1>5, <1>7, <1>8 DEF StoreInv

LEMMA NoRows == 0 \in 0..FileCount /\ Default \in Regions
BY StoreAssumption

\* An over transaction is a sound one.
LEMMA Emptied ==
    /\ [NewTx EXCEPT !.pc = "done"] \in Transactions
    /\ Sound([NewTx EXCEPT !.pc = "done"])
    /\ [NewTx EXCEPT !.pc = "done"].pc = "done"
BY NoRows DEF NewTx, Transactions, Sound

LEMMA BeginKeeps == ASSUME StoreInv, NEW c \in Clients, Begin(c) PROVE StoreInv'
<1>1. UNCHANGED <<dbVars, rowLock, appVars>> /\ rowLock \in [Regions -> Clients \cup {None}]
  BY DEF Begin, StoreInv, StoreTypes, TypeOK
<1>2. PICK r \in Regions, v \in Versions :
          \/ \E p \in BOOLEAN : tx' = [tx EXCEPT ![c] = [NewTx EXCEPT !.pc = "import",
                                           !.region = r, !.version = v, !.publish = p]]
          \/ tx' = [tx EXCEPT ![c] = [NewTx EXCEPT !.pc = "check",
                                         !.region = r, !.version = v, !.publish = TRUE]]
  BY DEF Begin
<1> DEFINE import(p) == [NewTx EXCEPT !.pc = "import", !.region = r, !.version = v, !.publish = p]
           check == [NewTx EXCEPT !.pc = "check", !.region = r, !.version = v, !.publish = TRUE]
<1>3. ASSUME NEW p \in BOOLEAN
      PROVE  import(p) \in Transactions /\ Sound(import(p)) /\ import(p).pc = "import"
  BY NoRows DEF NewTx, Transactions, Sound
<1>4. check \in Transactions /\ Sound(check) /\ check.pc = "check"
  BY NoRows DEF NewTx, Transactions, Sound
<1>5. PICK t \in Transactions : tx' = [tx EXCEPT ![c] = t] /\ Sound(t) /\ t.pc \in {"import", "check"}
  <2> HIDE DEF import, check
  <2>1. CASE \E p \in BOOLEAN : tx' = [tx EXCEPT ![c] = import(p)]
    BY <1>3, <2>1
  <2>2. CASE tx' = [tx EXCEPT ![c] = check]
    BY <1>4, <2>2
  <2> QED  BY <1>2, <2>1, <2>2 DEF import, check
<1> QED  BY <1>1, <1>5, StatementKeeps DEF Holding

\* A transaction that only goes on: to what it becomes.
LEMMA StepGoesOn ==
    ASSUME StoreInv, NEW c \in Clients, NEW pc, pc \in {"look", "insert", "point", "take"}
    PROVE  LET t == [tx[c] EXCEPT !.pc = pc] IN
           /\ t \in Transactions /\ t.pc = pc /\ t.region = tx[c].region /\ t.version = tx[c].version
           /\ t.row = tx[c].row /\ t.rows = tx[c].rows
           /\ tx[c].region \in Regions /\ tx[c] \in Transactions
BY DEF StoreInv, StoreTypes, Transactions

\* LockRow and TakeRow: the row is taken when nobody has it.
LEMMA LockingKeeps ==
    ASSUME StoreInv, NEW c \in Clients, NEW from, NEW to, Step(c, from, to), RowFree(c),
           <<from, to>> \in {<<"import", "look">>, <<"take", "point">>},
           rowLock' = [rowLock EXCEPT ![tx[c].region] = c], UNCHANGED <<dbVars, appVars>>
    PROVE  StoreInv'
<1> DEFINE t == [tx[c] EXCEPT !.pc = to]
<1>1. tx[c].pc = from /\ tx' = [tx EXCEPT ![c] = t]
  BY DEF Step
<1>2. /\ t \in Transactions /\ t.pc = to /\ t.region = tx[c].region /\ t.version = tx[c].version
      /\ t.row = tx[c].row /\ t.rows = tx[c].rows /\ tx[c].region \in Regions
  BY StepGoesOn
<1>3. Sound(tx[c]) /\ rowLock \in [Regions -> Clients \cup {None}]
  BY DEF StoreInv, LocksInv, StoreTypes, TypeOK
<1> HIDE DEF t
<1>4. Sound(t)
  BY <1>1, <1>2, <1>3 DEF Sound
<1>5. /\ rowLock' \in [Regions -> Clients \cup {None}] /\ rowLock'[tx[c].region] = c
      /\ \A r \in Regions : rowLock[r] \notin {None, c} => rowLock'[r] = rowLock[r]
  BY <1>2, <1>3 DEF RowFree
<1> QED  BY <1>1, <1>2, <1>4, <1>5, StatementKeeps

LEMMA LookKeeps == ASSUME StoreInv, NEW c \in Clients, Look(c) PROVE StoreInv'
<1> DEFINE pc == IF Found(c) THEN "point" ELSE "insert"
           t == [tx[c] EXCEPT !.pc = pc]
<1>1. tx[c].pc = "look" /\ tx' = [tx EXCEPT ![c] = t] /\ UNCHANGED <<dbVars, rowLock, appVars>>
  BY DEF Look
<1>2. pc \in {"point", "insert"} /\ (pc = "insert" => ~Found(c))
  OBVIOUS
<1> HIDE DEF pc
<1>3. /\ t \in Transactions /\ t.pc = pc /\ t.region = tx[c].region /\ t.version = tx[c].version
      /\ t.row = tx[c].row /\ t.rows = tx[c].rows /\ tx[c].region \in Regions
  BY <1>2, StepGoesOn
<1>4. /\ Sound(tx[c]) /\ rowLock \in [Regions -> Clients \cup {None}]
      /\ rowLock[tx[c].region] = c
  BY <1>1 DEF StoreInv, LocksInv, StoreTypes, TypeOK, Holding
<1> HIDE DEF t
<1>5. Sound(t)
  BY <1>1, <1>2, <1>3, <1>4 DEF Sound
<1>6. t.pc = "insert" => t.version \notin stored[t.region]
  BY <1>2, <1>3 DEF Found
<1> QED  BY <1>1, <1>3, <1>4, <1>5, <1>6, StatementKeeps

LEMMA InsertVersionKeeps == ASSUME StoreInv, NEW c \in Clients, InsertVersion(c) PROVE StoreInv'
<1> DEFINE t == [tx[c] EXCEPT !.pc = "files", !.row = TRUE]
<1>1. tx[c].pc = "insert" /\ UNCHANGED <<dbVars, rowLock, appVars>>
      /\ tx' = [tx EXCEPT ![c].pc = "files", ![c].row = TRUE]
  BY DEF InsertVersion
<1>2. /\ tx \in [Clients -> Transactions] /\ Sound(tx[c])
      /\ rowLock \in [Regions -> Clients \cup {None}] /\ rowLock[tx[c].region] = c
  BY <1>1 DEF StoreInv, LocksInv, StoreTypes, TypeOK, Holding
<1>3. tx' = [tx EXCEPT ![c] = t]
  BY <1>1, <1>2
<1>4. /\ t \in Transactions /\ t.pc = "files" /\ t.region = tx[c].region
      /\ t.version = tx[c].version /\ t.row /\ t.rows = tx[c].rows
  BY <1>2 DEF Transactions
<1> HIDE DEF t
<1>5. Sound(t)
  BY <1>1, <1>2, <1>4, StoreAssumption DEF Sound
<1> QED  BY <1>1, <1>2, <1>3, <1>4, <1>5, StatementKeeps

\* The last file is the FileCount-th.
LEMMA InsertFileKeeps == ASSUME StoreInv, NEW c \in Clients, InsertFile(c) PROVE StoreInv'
<1> DEFINE pc == IF tx[c].rows + 1 = FileCount THEN "point" ELSE "files"
           n == tx[c].rows + 1
           t == [tx[c] EXCEPT !.rows = n, !.pc = pc]
<1>1. tx[c].pc = "files" /\ UNCHANGED <<dbVars, rowLock, appVars>>
      /\ tx' = [tx EXCEPT ![c].rows = @ + 1, ![c].pc = pc]
  BY DEF InsertFile
<1>2. /\ tx \in [Clients -> Transactions] /\ Sound(tx[c])
      /\ rowLock \in [Regions -> Clients \cup {None}] /\ rowLock[tx[c].region] = c
  BY <1>1 DEF StoreInv, LocksInv, StoreTypes, TypeOK, Holding
<1>3. tx' = [tx EXCEPT ![c] = t]
  BY <1>1, <1>2
<1>4. n \in 0..FileCount /\ (pc = "files" => n < FileCount) /\ (pc = "point" => n = FileCount)
                         /\ pc \in {"files", "point"}
  BY <1>1, <1>2, StoreAssumption DEF Sound, Transactions
<1> HIDE DEF n, pc
<1>5. /\ t \in Transactions /\ t.pc = pc /\ t.region = tx[c].region
      /\ t.version = tx[c].version /\ t.row = tx[c].row /\ t.rows = n
  BY <1>2, <1>4 DEF Transactions
<1> HIDE DEF t
<1>6. Sound(t)
  BY <1>1, <1>2, <1>4, <1>5 DEF Sound
<1> QED  BY <1>1, <1>2, <1>3, <1>4, <1>5, <1>6, StatementKeeps

\* A transaction that ends without a commit gives back what it has locked.
LEMMA OverKeeps ==
    ASSUME StoreInv, NEW c \in Clients, Over(c), rowLock' \in {rowLock, Unlocked(c)},
           UNCHANGED <<dbVars, appVars>>
    PROVE  StoreInv'
<1>1. rowLock \in [Regions -> Clients \cup {None}]
  BY DEF StoreInv, StoreTypes, TypeOK
<1>2. /\ rowLock' \in [Regions -> Clients \cup {None}]
      /\ \A r \in Regions : rowLock[r] \notin {None, c} => rowLock'[r] = rowLock[r]
  BY <1>1 DEF Unlocked
<1> DEFINE t == [NewTx EXCEPT !.pc = "done"]
<1>3. tx' = [tx EXCEPT ![c] = t] /\ t \in Transactions /\ Sound(t) /\ t.pc = "done"
  BY Emptied DEF Over
<1> HIDE DEF t
<1> QED  BY <1>2, <1>3, StatementKeeps DEF Holding

LEMMA CheckVersionKeeps == ASSUME StoreInv, NEW c \in Clients, CheckVersion(c) PROVE StoreInv'
<1>1. tx[c].pc = "check" /\ UNCHANGED <<dbVars, rowLock, appVars>>
  BY DEF CheckVersion
<1>2. CASE Over(c)
  BY <1>1, <1>2, OverKeeps
<1>3. CASE Step(c, "check", "take")
  <2> DEFINE t == [tx[c] EXCEPT !.pc = "take"]
  <2>1. tx' = [tx EXCEPT ![c] = t]
    BY <1>3 DEF Step
  <2>2. /\ t \in Transactions /\ t.pc = "take" /\ t.version = tx[c].version
        /\ t.row = tx[c].row /\ t.rows = tx[c].rows
    BY StepGoesOn
  <2>3. Sound(tx[c]) /\ rowLock \in [Regions -> Clients \cup {None}]
    BY DEF StoreInv, LocksInv, StoreTypes, TypeOK
  <2> HIDE DEF t
  <2>4. Sound(t)
    BY <1>1, <2>2, <2>3 DEF Sound
  <2> QED  BY <1>1, <2>1, <2>2, <2>3, <2>4, StatementKeeps DEF Holding
<1> QED  BY <1>2, <1>3 DEF CheckVersion

\* Nobody else is about to insert into the region, for its row is locked; and no
\* package that is whole loses a file.
LEMMA CommitKeeps == ASSUME StoreInv, NEW c \in Clients, Commit(c) PROVE StoreInv'
<1> DEFINE r == tx[c].region
           v == tx[c].version
           t == [NewTx EXCEPT !.pc = "done"]
<1>1. StoreTypes /\ current \in moments /\ LocksInv /\ ThreadInv /\ StageInv
  BY DEF StoreInv
<1>2. /\ tx \in [Clients -> Transactions] /\ rowLock \in [Regions -> Clients \cup {None}]
      /\ stored \in [Regions -> SUBSET Versions]
      /\ files \in [Regions \X Versions -> 0..FileCount]
      /\ current \in Pointers /\ moments \subseteq Pointers
  BY <1>1 DEF StoreTypes, TypeOK
<1>3. /\ tx[c].pc = "point" /\ tx' = [tx EXCEPT ![c] = t] /\ rowLock' = Unlocked(c)
      /\ stored' = IF tx[c].row THEN [stored EXCEPT ![r] = @ \cup {v}] ELSE stored
      /\ files' = IF tx[c].row THEN [files EXCEPT ![<<r, v>>] = tx[c].rows] ELSE files
      /\ current' = IF tx[c].publish THEN [current EXCEPT ![r] = v] ELSE current
      /\ moments' = moments \cup {current'}
      /\ UNCHANGED <<app, cancelled, thread, directory, regions, starts>>
  BY DEF Commit, Over, appVars
<1>4. /\ Sound(tx[c]) /\ rowLock[r] = c /\ r \in Regions /\ v \in Versions
      /\ tx[c].row => tx[c].rows = FileCount
      /\ tx[c].rows \in 0..FileCount
  <2>1. Sound(tx[c]) /\ rowLock[r] = c
    BY <1>1, <1>3 DEF LocksInv, Holding
  <2>2. r \in Regions /\ tx[c].rows \in 0..FileCount
    BY <1>2 DEF Transactions
  <2> QED  BY <1>3, <2>1, <2>2 DEF Sound
<1>5. t \in Transactions /\ Sound(t) /\ t.pc = "done"
  BY Emptied
<1> HIDE DEF r, v, t
<1>6. tx' \in [Clients -> Transactions] /\ tx'[c] = t /\ \A d \in Clients \ {c} : tx'[d] = tx[d]
  BY <1>2, <1>3, <1>5
<1>7. /\ rowLock' \in [Regions -> Clients \cup {None}]
      /\ \A q \in Regions : rowLock[q] # c => rowLock'[q] = rowLock[q]
  BY <1>2, <1>3 DEF Unlocked
<1>8. /\ stored' \in [Regions -> SUBSET Versions]
      /\ \A q \in Regions : q # r => stored'[q] = stored[q]
  BY <1>2, <1>3, <1>4
<1>9. /\ files' \in [Regions \X Versions -> 0..FileCount]
      /\ \A p \in Regions \X Versions : files[p] = FileCount => files'[p] = FileCount
  <2>1. <<r, v>> \in Regions \X Versions
    BY <1>4
  <2>2. CASE tx[c].row
    <3>1. files' = [files EXCEPT ![<<r, v>>] = FileCount] /\ FileCount \in 0..FileCount
      BY <1>3, <1>4, <2>2
    <3> QED  BY <1>2, <2>1, <3>1
  <2>3. CASE ~tx[c].row
    BY <1>2, <1>3, <2>3
  <2> QED  BY <2>2, <2>3
<1>10. current' \in Pointers /\ moments' \subseteq Pointers /\ current' \in moments'
  BY <1>2, <1>3, <1>4 DEF Pointers
<1>11. StoreTypes'
  BY <1>1, <1>3, <1>6, <1>7, <1>8, <1>9, <1>10 DEF StoreTypes, TypeOK
<1>12. ASSUME NEW d \in Clients
       PROVE  /\ Sound(tx'[d])
              /\ tx'[d].pc \in Holding => rowLock'[tx'[d].region] = d
              /\ tx'[d].pc = "insert" => tx'[d].version \notin stored'[tx'[d].region]
  <2>1. CASE d = c
    BY <1>5, <1>6, <2>1 DEF Holding
  <2>2. CASE d # c
    <3>1. /\ Sound(tx[d]) /\ tx[d].region \in Regions /\ tx'[d] = tx[d]
          /\ tx[d].pc \in Holding => rowLock[tx[d].region] = d
          /\ tx[d].pc = "insert" => tx[d].version \notin stored[tx[d].region]
      BY <1>1, <1>2, <1>6, <2>2 DEF LocksInv, Found, Transactions
    <3>2. tx[d].pc = "insert" => tx[d].region # r
      BY <1>4, <2>2, <3>1 DEF Holding
    <3> QED  BY <1>7, <1>8, <2>2, <3>1, <3>2
  <2> QED  BY <2>1, <2>2
<1>13. LocksInv'
  BY <1>12 DEF LocksInv, Found, Sound
<1>14. ASSUME NEW set \in Pointers, Whole(set)
       PROVE  \A q \in Regions : set[q] # None => files'[<<q, set[q]>>] = FileCount
  <2>1. ASSUME NEW q \in Regions, set[q] # None PROVE <<q, set[q]>> \in Regions \X Versions
    BY <2>1 DEF Pointers
  <2> QED  BY <1>9, <1>14, <2>1 DEF Whole
<1>15. ThreadInv'
  <2>1. thread.loaded \in Pointers
    BY <1>1 DEF StoreTypes, Threads
  <2> QED  BY <1>1, <1>3, <1>14, <2>1 DEF ThreadInv, Whole
<1>16. StageInv'
  <2>1. regions # None => regions \in Pointers
    BY <1>1 DEF StoreTypes, TypeOK
  <2> QED  BY <1>1, <1>3, <1>14, <2>1 DEF StageInv, Whole
<1> QED  BY <1>10, <1>11, <1>13, <1>15, <1>16 DEF StoreInv

----------------------------------------------------------------------------
(* The application.                                                        *)

\* A step of a lifetime leaves the database and its clients alone.
LEMMA LifetimeKeeps ==
    ASSUME StoreInv, UNCHANGED <<dbVars, rowLock, tx>>,
           app' \in {"down", "starting", "up"}, cancelled' \in BOOLEAN, directory' \in BOOLEAN,
           regions' \in Pointers \cup {None}, starts' \in 0..MaxStarts,
           thread' \in Threads, ThreadInv', StageInv'
    PROVE  StoreInv'
<1>1. StoreTypes /\ current \in moments /\ LocksInv
  BY DEF StoreInv
<1>2. UNCHANGED <<stored, files, current, moments, rowLock, tx>>
  BY DEF dbVars
<1>3. StoreTypes'
  BY <1>1, <1>2 DEF StoreTypes, TypeOK
<1>4. LocksInv'
  BY <1>1, <1>2 DEF LocksInv, Found
<1> QED  BY <1>1, <1>2, <1>3, <1>4 DEF StoreInv

\* What is left of a thread that is over.
LEMMA ThreadsEnd ==
    /\ NoThread \in Threads /\ NoThread.pc = "off"
    /\ \A r \in Regions : NoThread.loaded[r] = None /\ NoThread.releases[r] = None
BY DEF NoThread, Threads, Pointers

\* The state of a lifetime, as the invariant has it.
LEMMA Lifetime ==
    ASSUME StoreInv
    PROVE  /\ app \in {"down", "starting", "up"} /\ cancelled \in BOOLEAN /\ directory \in BOOLEAN
           /\ regions \in Pointers \cup {None} /\ None \notin Pointers
           /\ starts \in 0..MaxStarts /\ MaxStarts \in Nat
           /\ thread \in Threads /\ ThreadInv /\ StageInv
           /\ current \in moments /\ current \in Pointers
BY StoreAssumption DEF StoreInv, StoreTypes, TypeOK, Pointers

LEMMA StartUpKeeps == ASSUME StoreInv, StartUp PROVE StoreInv'
<1> DEFINE t == [NoThread EXCEPT !.pc = "listing"]
<1>1. /\ app = "down" /\ starts < MaxStarts /\ app' = "starting" /\ starts' = starts + 1
      /\ cancelled' = FALSE /\ thread' = t /\ UNCHANGED <<dbVars, rowLock, tx, directory, regions>>
  BY DEF StartUp
<1>2. /\ t \in Threads /\ t.pc = "listing"
      /\ \A r \in Regions : t.loaded[r] = None
  BY DEF NoThread, Threads, Pointers
<1> HIDE DEF t
<1>3. starts' \in 0..MaxStarts
  BY <1>1, Lifetime
<1>4. ThreadInv'
  BY <1>1, <1>2 DEF ThreadInv, Whole
<1>5. StageInv'
  BY <1>1, <1>2, Lifetime DEF StageInv, dbVars, Whole
<1> QED  BY <1>1, <1>2, <1>3, <1>4, <1>5, Lifetime, LifetimeKeeps

\* A step of the thread while the start awaits it: what has to be shown of it.
LEMMA ThreadKeeps ==
    ASSUME StoreInv, UNCHANGED <<dbVars, rowLock, tx, app, cancelled, regions, starts>>,
           thread.pc \in {"listing", "loading"}, directory' \in BOOLEAN,
           thread' \in Threads, ThreadInv', thread'.pc \in {"loading", "failed"},
           directory' <=> thread'.pc = "loading"
    PROVE  StoreInv'
<1>1. app = "starting" /\ regions = None
  BY Lifetime DEF StageInv
<1>2. StageInv'
  BY <1>1 DEF StageInv
<1> QED  BY <1>2, Lifetime, LifetimeKeeps

LEMMA ListKeeps == ASSUME StoreInv, List PROVE StoreInv'
<1> DEFINE ok == current[Default] # None /\ ~directory
           pc == IF ok THEN "loading" ELSE "failed"
           t == [thread EXCEPT !.pc = pc, !.releases = current]
<1>1. /\ thread.pc = "listing" /\ thread' = t /\ directory' = (directory \/ ok)
      /\ UNCHANGED <<dbVars, rowLock, tx, app, cancelled, regions, starts>>
  BY DEF List
<1>2. ~directory /\ directory' = ok
  BY <1>1, Lifetime DEF StageInv
<1>3. /\ pc \in {"loading", "failed"} /\ ok \in BOOLEAN /\ (pc = "loading" <=> ok)
  OBVIOUS
<1> HIDE DEF ok, pc
<1>4. t \in Threads /\ t.pc = pc /\ t.releases = current /\ t.loaded = thread.loaded
  BY <1>3, Lifetime DEF Threads
<1> HIDE DEF t
<1>5. \A r \in Regions : thread.loaded[r] = None
  BY <1>1, Lifetime DEF ThreadInv
<1>6. ThreadInv'
  BY <1>1, <1>4, <1>5, Lifetime DEF ThreadInv, Whole, dbVars
<1> QED  BY <1>1, <1>2, <1>3, <1>4, <1>6, ThreadKeeps

\* A region is loaded as it was listed, with all its files.
LEMMA LoadKeeps == ASSUME StoreInv, NEW r \in Regions, Load(r) PROVE StoreInv'
<1>1. /\ thread.pc = "loading" /\ thread.releases[r] # None
      /\ UNCHANGED <<dbVars, rowLock, tx, app, cancelled, regions, starts>>
  BY DEF Load
<1>2. directory
  BY <1>1, Lifetime DEF StageInv
<1>3. /\ thread \in Threads /\ thread.releases \in Pointers /\ thread.loaded \in Pointers
      /\ thread.releases[r] \in Versions
  BY <1>1, Lifetime DEF Threads, Pointers
<1>4. CASE files[<<r, Listed(r)>>] = FileCount
  <2> DEFINE loaded == [thread.loaded EXCEPT ![r] = Listed(r)]
             t == [thread EXCEPT !.loaded = loaded]
  <2>1. thread' = t /\ directory' = directory
    BY <1>3, <1>4 DEF Load, Threads
  <2>2. loaded \in Pointers /\ loaded[r] = thread.releases[r]
        /\ \A q \in Regions \ {r} : loaded[q] = thread.loaded[q]
    BY <1>3 DEF Listed, Pointers
  <2> HIDE DEF loaded
  <2>3. t \in Threads /\ t.pc = "loading" /\ t.releases = thread.releases /\ t.loaded = loaded
    BY <1>1, <1>3, <2>2 DEF Threads
  <2> HIDE DEF t
  <2>4. \A q \in Regions : loaded[q] \in {None, thread.releases[q]}
    BY <2>2, Lifetime DEF ThreadInv
  <2>5. \A q \in Regions : loaded[q] # None => files[<<q, loaded[q]>>] = FileCount
    BY <1>4, <2>2, Lifetime DEF ThreadInv, Whole, Listed
  <2>6. ThreadInv'
    BY <1>1, <2>1, <2>3, <2>4, <2>5, Lifetime DEF ThreadInv, Whole, dbVars
  <2> QED  BY <1>1, <1>2, <2>1, <2>3, <2>6, ThreadKeeps
<1>5. CASE files[<<r, Listed(r)>>] # FileCount
  <2> DEFINE t == [thread EXCEPT !.pc = "failed"]
  <2>1. thread' = t /\ directory' = FALSE
    BY <1>5 DEF Load
  <2>2. t \in Threads /\ t.pc = "failed" /\ t.releases = thread.releases /\ t.loaded = thread.loaded
    BY <1>3 DEF Threads
  <2> HIDE DEF t
  <2>3. ThreadInv'
    BY <1>1, <2>1, <2>2, Lifetime DEF ThreadInv, Whole, dbVars
  <2> QED  BY <1>1, <2>1, <2>2, <2>3, ThreadKeeps
<1> QED  BY <1>4, <1>5

LEMMA LoadFailsKeeps == ASSUME StoreInv, LoadFails PROVE StoreInv'
<1> DEFINE t == [thread EXCEPT !.pc = "failed"]
<1>1. /\ thread.pc \in {"listing", "loading"} /\ thread' = t
      /\ directory' = (directory /\ thread.pc = "listing")
      /\ UNCHANGED <<dbVars, rowLock, tx, app, cancelled, regions, starts>>
  BY DEF LoadFails
<1>2. ~directory'
  BY <1>1, Lifetime DEF StageInv
<1>3. t \in Threads /\ t.pc = "failed" /\ t.releases = thread.releases /\ t.loaded = thread.loaded
  BY Lifetime DEF Threads
<1> HIDE DEF t
<1>4. ThreadInv'
  BY <1>1, <1>3, Lifetime DEF ThreadInv, Whole, dbVars
<1>5. directory' \in BOOLEAN
  BY <1>1, Lifetime
<1> QED  BY <1>1, <1>2, <1>3, <1>4, <1>5, ThreadKeeps

\* What is published is the whole of what was listed.
LEMMA PublishSetKeeps == ASSUME StoreInv, PublishSet PROVE StoreInv'
<1> DEFINE t == [thread EXCEPT !.pc = "finished"]
<1>1. /\ thread.pc = "loading" /\ Selected /\ regions' = thread.loaded /\ thread' = t
      /\ UNCHANGED <<dbVars, rowLock, tx, app, cancelled, directory, starts>>
  BY DEF PublishSet
<1>2. /\ thread \in Threads /\ thread.releases \in Pointers /\ thread.loaded \in Pointers
      /\ thread.releases \in moments
  BY <1>1, Lifetime DEF Threads, ThreadInv
<1>3. thread.loaded = thread.releases
  <2>1. \A r \in Regions : thread.loaded[r] = thread.releases[r]
    BY <1>1, Lifetime DEF Selected, ThreadInv
  <2> QED  BY <1>2, <2>1 DEF Pointers
<1>4. t \in Threads /\ t.pc = "finished" /\ t.releases = thread.releases /\ t.loaded = thread.loaded
  BY <1>2 DEF Threads
<1> HIDE DEF t
<1>5. ThreadInv'
  BY <1>1, <1>2, <1>4, Lifetime DEF ThreadInv, Whole, dbVars
<1>6. app = "starting" /\ directory /\ regions' # None
  BY <1>1, <1>2, Lifetime DEF StageInv
<1>7. StageInv'
  BY <1>1, <1>2, <1>3, <1>4, <1>6, Lifetime DEF StageInv, ThreadInv, Whole, dbVars
<1> QED  BY <1>1, <1>2, <1>4, <1>5, <1>7, Lifetime, LifetimeKeeps

LEMMA CancelStartKeeps == ASSUME StoreInv, CancelStart PROVE StoreInv'
<1>1. cancelled' = TRUE /\ UNCHANGED <<dbVars, rowLock, tx, app, thread, directory, regions, starts>>
  BY DEF CancelStart
<1>2. ThreadInv' /\ StageInv'
  BY <1>1, Lifetime DEF ThreadInv, StageInv, Whole, dbVars
<1> QED  BY <1>1, <1>2, Lifetime, LifetimeKeeps

\* close_region_storage leaves no set, and a directory only where there was no set.
LEMMA StartEndsKeeps == ASSUME StoreInv, StartEnds PROVE StoreInv'
<1>1. /\ app = "starting" /\ thread.pc \in {"finished", "failed"}
      /\ UNCHANGED <<dbVars, rowLock, tx, cancelled, starts>>
  BY DEF StartEnds, ThreadOver
<1>2. thread' = NoThread
  BY <1>1 DEF StartEnds
<1>3. ThreadInv'
  BY <1>2, ThreadsEnd DEF ThreadInv, Whole
<1>4. \/ app' = "up" /\ thread.pc = "finished" /\ UNCHANGED <<directory, regions>>
      \/ app' = "down" /\ ClosedStorage
  BY DEF StartEnds
<1>5. StageInv'
  BY <1>1, <1>2, <1>4, ThreadsEnd, Lifetime DEF StageInv, Whole, dbVars, ClosedStorage
<1>6. directory' \in BOOLEAN /\ regions' \in Pointers \cup {None}
  BY <1>4, Lifetime DEF ClosedStorage
<1> QED  BY <1>1, <1>2, <1>3, <1>4, <1>5, <1>6, ThreadsEnd, Lifetime, LifetimeKeeps

LEMMA ShutDownKeeps == ASSUME StoreInv, ShutDown PROVE StoreInv'
<1>1. /\ app = "up" /\ app' = "down" /\ ClosedStorage
      /\ UNCHANGED <<dbVars, rowLock, tx, cancelled, thread, starts>>
  BY DEF ShutDown
<1>2. ThreadInv' /\ StageInv'
  BY <1>1, Lifetime DEF ThreadInv, StageInv, Whole, dbVars, ClosedStorage
<1>3. directory' \in BOOLEAN /\ regions' \in Pointers \cup {None}
  BY <1>1, Lifetime DEF ClosedStorage
<1> QED  BY <1>1, <1>2, <1>3, Lifetime, LifetimeKeeps

----------------------------------------------------------------------------
(* The invariant and the theorems.                                         *)

LEMMA StoreInitially == StoreInit => StoreInv
<1> SUFFICES ASSUME StoreInit PROVE StoreInv
  OBVIOUS
<1> USE StoreAssumption
<1>1. PICK seed \in {{}} \cup {{v} : v \in Versions} :
          /\ stored = [r \in Regions |-> seed]
          /\ files = [p \in Regions \X Versions |-> IF p[2] \in seed THEN FileCount ELSE 0]
          /\ current = [r \in Regions |-> IF seed = {} THEN None ELSE CHOOSE v \in seed : TRUE]
  BY DEF StoreInit
<1>2. /\ moments = {current} /\ rowLock = [r \in Regions |-> None] /\ tx = [c \in Clients |-> NewTx]
      /\ app = "down" /\ cancelled = FALSE /\ thread = NoThread /\ directory = FALSE
      /\ regions = None /\ starts = 0
  BY DEF StoreInit
<1>3. seed \subseteq Versions
  BY <1>1
<1>4. current \in Pointers
  <2>1. seed # {} => (CHOOSE v \in seed : TRUE) \in Versions
    BY <1>3
  <2> QED  BY <1>1, <2>1 DEF Pointers
<1>5. NewTx \in Transactions /\ Sound(NewTx) /\ NewTx.pc = "new"
  BY NoRows DEF NewTx, Transactions, Sound
<1>6. StoreTypes
  <2>1. stored \in [Regions -> SUBSET Versions] /\ rowLock \in [Regions -> Clients \cup {None}]
    BY <1>1, <1>2, <1>3
  <2>2. files \in [Regions \X Versions -> 0..FileCount]
    <3>1. {0, FileCount} \subseteq 0..FileCount
      OBVIOUS
    <3> QED  BY <1>1, <3>1
  <2>3. starts \in 0..MaxStarts /\ tx \in [Clients -> Transactions]
    BY <1>2, <1>5
  <2> QED  BY <1>2, <1>4, <2>1, <2>2, <2>3, ThreadsEnd DEF StoreTypes, TypeOK
<1>7. LocksInv
  BY <1>2, <1>5 DEF LocksInv, Holding
<1>8. ThreadInv /\ StageInv
  BY <1>2, ThreadsEnd DEF ThreadInv, StageInv, Whole
<1> QED  BY <1>2, <1>6, <1>7, <1>8 DEF StoreInv

LEMMA StoreKeeps == StoreInv /\ [StoreNext]_storeVars => StoreInv'
<1> SUFFICES ASSUME StoreInv, [StoreNext]_storeVars PROVE StoreInv'
  OBVIOUS
<1>1. CASE \E c \in Clients : ClientStep(c)
  <2>1. PICK c \in Clients : ClientStep(c)
    BY <1>1
  <2>2. CASE LockRow(c)
    BY <2>2, LockingKeeps DEF LockRow
  <2>3. CASE TakeRow(c)
    BY <2>3, LockingKeeps DEF TakeRow
  <2>4. CASE Fail(c)
    BY <2>4, OverKeeps DEF Fail
  <2> QED
    BY <2>1, <2>2, <2>3, <2>4, BeginKeeps, LookKeeps, InsertVersionKeeps, InsertFileKeeps,
       CheckVersionKeeps, CommitKeeps DEF ClientStep
<1>2. CASE AppStep
  BY <1>2, StartUpKeeps, ListKeeps, LoadKeeps, LoadFailsKeeps, PublishSetKeeps, CancelStartKeeps,
     StartEndsKeeps, ShutDownKeeps DEF AppStep
<1>3. CASE UNCHANGED storeVars
  BY <1>3 DEF storeVars, dbVars, appVars, StoreInv, StoreTypes, TypeOK, LocksInv, Found,
              ThreadInv, StageInv, Whole
<1> QED  BY <1>1, <1>2, <1>3 DEF StoreNext

LEMMA StoreInvHolds == LifeSpec => []StoreInv
<1>1. LifeInit => StoreInv
  BY StoreInitially DEF LifeInit
<1>2. StoreInv /\ [LifeNext]_lifeVars => StoreInv'
  BY StoreKeeps DEF LifeNext, lifeVars
<1> QED  BY <1>1, <1>2, PTL DEF LifeSpec

\* Imports of one version exclude each other from their look at the table to their
\* commit, so that import_directory of backend/app/mysql_regions.py inserts no key twice.
THEOREM KeysAreUnique == LifeSpec => []NoDuplicateKey
<1>1. ASSUME StoreInv, NEW c \in Clients, tx[c].pc = "insert" PROVE ~Found(c) /\ ~KeyTaken(c)
  <2>1. LocksInv
    BY <1>1 DEF StoreInv
  <2>2. ~Found(c) /\ rowLock[tx[c].region] = c
    BY <1>1, <2>1 DEF LocksInv, Holding
  <2>3. ASSUME NEW d \in Clients, tx[d].row PROVE rowLock[tx[d].region] = d
    BY <2>1, <2>3 DEF LocksInv, Sound, Holding
  <2> QED  BY <2>2, <2>3 DEF KeyTaken
<1>2. StoreInv => NoDuplicateKey
  BY <1>1 DEF NoDuplicateKey
<1> QED  BY <1>2, StoreInvHolds, PTL

\* However the pointers move while the packages load, what a lifetime serves was
\* current at one moment and is there with all its files: initialize_region_storage
\* of backend/app/region_storage.py.
THEOREM ServedAtOneMoment == LifeSpec => []ServesOneMoment
<1>1. StoreInv => ServesOneMoment
  BY DEF StoreInv, StageInv, Whole, ServesOneMoment
<1> QED  BY <1>1, StoreInvHolds, PTL

\* Type correctness; and a lifetime that is over, by a failed, a cancelled or a
\* regular end, leaves no set, directory or thread to the next.
THEOREM LifetimesLeaveNothing == LifeSpec => []LifetimesClean
<1>1. StoreInv => LifetimesClean
  BY DEF StoreInv, StoreTypes, StageInv, LifetimesClean, DownIsClean
<1> QED  BY <1>1, StoreInvHolds, PTL

----------------------------------------------------------------------------
(* What patches, edits and records do to a canvas.                         *)

\* What an edit of this window may make of a canvas.
Amends(g, h) == \A i \in Items : g[i] = h[i] \/ (g[i].by = "window" /\ g[i].at = Now)

LEMMA PatchLeads ==
    ASSUME NEW before \in Graphs, NEW after \in Graphs
    PROVE  /\ PatchOf(before, after) \in Patches
           /\ Patched(after, PatchOf(before, after), "before") = before
           /\ Patched(before, PatchOf(before, after), "after") = after
<1> DEFINE changed == {j \in Items : before[j] # after[j]}
<1>1. PatchOf(before, after) \in [changed -> [before : Records, after : Records]]
  BY DEF PatchOf, Graphs
<1>2. changed \in SUBSET Items
  OBVIOUS
<1>3. PatchOf(before, after) \in Patches
  BY <1>1, <1>2 DEF Patches
<1>4. ASSUME NEW i \in Items
      PROVE  /\ Patched(after, PatchOf(before, after), "before")[i] = before[i]
             /\ Patched(before, PatchOf(before, after), "after")[i] = after[i]
  BY DEF Patched, PatchOf, Graphs
<1>5. Patched(after, PatchOf(before, after), "before") = before
  BY <1>4 DEF Patched, Graphs
<1>6. Patched(before, PatchOf(before, after), "after") = after
  BY <1>4 DEF Patched, Graphs
<1> QED  BY <1>3, <1>5, <1>6

LEMMA NothingIsNoGraph == Nothing \notin Graphs /\ Nothing \notin Drawn
BY CanvasAssumption DEF Drawn

\* More changes leave what there is.
LEMMA DrawnStays ==
    ASSUME changes \in Nat, changes' \in Nat, changes' >= changes
    PROVE  Drawn \subseteq Drawn'
BY DEF Drawn, Connected, Graphs, Records

LEMMA AmendedIsDrawn ==
    ASSUME changes \in Nat, changes' = Now, NEW h \in Drawn, NEW g \in Graphs,
           Connected(g), Amends(g, h)
    PROVE  g \in Drawn'
BY DEF Drawn, Amends, Connected, Now, Graphs, Records

LEMMA AmendedIsWithin ==
    ASSUME changes \in Nat, NEW last \in [Items -> 0..changes],
           NEW g, NEW h \in Graphs, Amends(g, h), Within(last, h)
    PROVE  Within(last, g)
BY DEF Amends, Within, UpTo, Now, Graphs, Records

LEMMA EditsAmend ==
    ASSUME changes \in Nat, canvas \in Drawn
    PROVE  /\ \A g \in Edited : g \in Graphs /\ Connected(g) /\ Amends(g, canvas)
           /\ canvas["node"].live => Moved \in Graphs /\ Connected(Moved) /\ Amends(Moved, canvas)
<1>1. /\ canvas \in [Items -> Records] /\ Items = {"node", "edge"}
      /\ canvas["edge"].live => canvas["node"].live
      /\ canvas["edge"].live \in BOOLEAN /\ canvas["node"].live \in BOOLEAN
  BY DEF Drawn, Graphs, Connected, Items, Records
<1>2. ASSUME NEW alive \in BOOLEAN
      PROVE  Mine(alive) \in Records /\ Mine(alive).by = "window" /\ Mine(alive).at = Now
             /\ Mine(alive).live = alive
  BY DEF Mine, Record, Records, Now
<1>3. Moved \in Graphs /\ Connected(Moved) /\ Amends(Moved, canvas)
  BY <1>1, <1>2 DEF Moved, Graphs, Connected, Amends
<1>4. Removed \in Graphs /\ Connected(Removed) /\ Amends(Removed, canvas)
  BY <1>1, <1>2 DEF Removed, Graphs, Connected, Amends
<1>5. ASSUME NEW g \in {[canvas EXCEPT !["node"] = Mine(TRUE)], [i \in Items |-> Mine(TRUE)]}
      PROVE  g \in Graphs /\ Connected(g) /\ Amends(g, canvas)
  BY <1>1, <1>2, <1>5 DEF Graphs, Connected, Amends
<1>6. ASSUME NEW g \in {[canvas EXCEPT !["edge"] = Mine(TRUE)]}, canvas["node"].live
      PROVE  g \in Graphs /\ Connected(g) /\ Amends(g, canvas)
  BY <1>1, <1>2, <1>6 DEF Graphs, Connected, Amends
<1> QED  BY <1>3, <1>4, <1>5, <1>6 DEF Edited

----------------------------------------------------------------------------
(* Recording an edit.                                                      *)

LEMMA TrimmedShifts ==
    ASSUME NEW S, NEW s \in Seq(S), NEW limit \in Nat \ {0}, NEW shift \in 0..1,
           Len(s) <= limit + shift, shift = 1 => Len(s) = limit + 1
    PROVE  /\ Trimmed(s, limit) \in Seq(S) /\ Len(Trimmed(s, limit)) = Len(s) - shift
           /\ \A k \in 1..(Len(s) - shift) : Trimmed(s, limit)[k] = s[k + shift]
<1>1. Len(s) \in Nat /\ \A k \in 1..Len(s) : s[k] \in S
  BY ElementOfSeq, LenProperties
<1>2. Trimmed(s, limit) = SubSeq(s, 1 + shift, Len(s))
  <2>1. (IF Len(s) > limit THEN Len(s) - limit + 1 ELSE 1) = 1 + shift
    BY <1>1
  <2> QED  BY <2>1 DEF Trimmed
<1>3. \A k \in (1 + shift)..Len(s) : s[k] \in S
  BY <1>1
<1> HIDE <1>1
<1>4. /\ SubSeq(s, 1 + shift, Len(s)) \in Seq(S)
      /\ Len(SubSeq(s, 1 + shift, Len(s)))
            = IF 1 + shift <= Len(s) THEN Len(s) - (1 + shift) + 1 ELSE 0
      /\ \A k \in 1..(Len(s) - (1 + shift) + 1) :
             SubSeq(s, 1 + shift, Len(s))[k] = s[(1 + shift) + k - 1]
  BY <1>1, <1>3, SubSeqProperties
<1> QED  BY <1>1, <1>2, <1>4

LEMMA TrailGrows ==
    ASSUME NEW S, NEW s \in Seq(S), NEW n \in 0..Len(s), NEW a \in S, NEW b \in S,
           NEW t, t = SubSeq(s, 1, n) \o <<a, b>>
    PROVE  /\ t \in Seq(S) /\ Len(t) = n + 2
           /\ \A k \in 1..n : t[k] = s[k]
           /\ t[n + 1] = a /\ t[n + 2] = b
<1>1. n \in Nat /\ Len(s) \in Nat /\ n <= Len(s)
  BY LenProperties
<1>2. \A k \in 1..n : s[k] \in S
  BY <1>1, ElementOfSeq
<1> DEFINE u == SubSeq(s, 1, n)
           v == <<a, b>>
<1>3. u \in Seq(S) /\ Len(u) = n /\ \A k \in 1..n : u[k] = s[k]
  BY <1>1, <1>2, SubSeqProperties
<1>4. v \in Seq(S) /\ Len(v) = 2 /\ v[1] = a /\ v[2] = b
  OBVIOUS
<1> HIDE DEF u, v
<1>5. /\ u \o v \in Seq(S) /\ Len(u \o v) = n + 2
      /\ \A k \in 1..(n + 2) : (u \o v)[k] = IF k <= n THEN u[k] ELSE v[k - n]
  <2>1. u \in Seq(S) /\ v \in Seq(S)
    BY <1>3, <1>4
  <2>2. /\ u \o v \in Seq(S) /\ Len(u \o v) = Len(u) + Len(v)
        /\ \A k \in 1..(Len(u) + Len(v)) :
               (u \o v)[k] = IF k <= Len(u) THEN u[k] ELSE v[k - Len(u)]
    BY ONLY <2>1, ConcatProperties
  <2> QED  BY <1>3, <1>4, <2>2
<1>6. t = u \o v
  BY DEF u, v
<1>7. /\ t \in Seq(S) /\ Len(t) = n + 2
      /\ \A k \in 1..(n + 2) : t[k] = IF k <= n THEN u[k] ELSE v[k - n]
  BY <1>5, <1>6
<1>8. t[n + 1] = a /\ t[n + 2] = b
  BY <1>1, <1>4, <1>7
<1>9. \A k \in 1..n : t[k] = s[k]
  BY <1>1, <1>3, <1>7
<1> QED  BY <1>7, <1>8, <1>9

LEMMA EntriesGrow ==
    ASSUME NEW S, NEW s \in Seq(S), NEW n \in 0..Len(s), NEW a \in S,
           NEW t, t = Append(SubSeq(s, 1, n), a)
    PROVE  /\ t \in Seq(S) /\ Len(t) = n + 1
           /\ \A k \in 1..n : t[k] = s[k]
           /\ t[n + 1] = a
<1>1. n \in Nat /\ Len(s) \in Nat /\ n <= Len(s)
  BY LenProperties
<1>2. \A k \in 1..n : s[k] \in S
  BY <1>1, ElementOfSeq
<1> DEFINE u == SubSeq(s, 1, n)
<1>3. u \in Seq(S) /\ Len(u) = n /\ \A k \in 1..n : u[k] = s[k]
  BY <1>1, <1>2, SubSeqProperties
<1> HIDE DEF u
<1>4. /\ Append(u, a) \in Seq(S) /\ Len(Append(u, a)) = n + 1
      /\ \A k \in 1..n : Append(u, a)[k] = u[k]
      /\ Append(u, a)[n + 1] = a
  BY <1>3, AppendProperties
<1>5. t = Append(u, a)
  BY DEF u
<1> QED  BY <1>3, <1>4, <1>5

\* What the history is after record(): the entries up to the cursor and a new one,
\* the oldest of which may be dropped.
LEMMA KeepRecords ==
    ASSUME CanvasAssumption, HistoryInv, NEW before \in Graphs, NEW after \in Graphs,
           trail[cursor + 1] = before, before # after, Keep(before, after)
    PROVE  \E shift \in 0..1 :
             /\ entries' \in Seq(Patches) /\ trail' \in Seq(Graphs \cup {Nothing})
             /\ cursor' = cursor + 1 - shift /\ cursor' \in 0..MaxSteps
             /\ Len(entries') = cursor' /\ Len(trail') = cursor' + 1
             /\ \A k \in 1..cursor' : trail'[k] = trail[k + shift]
             /\ trail'[cursor' + 1] = after
             /\ \A k \in 1..(cursor' - 1) : entries'[k] = entries[k + shift]
             /\ cursor' > 0 => entries'[cursor'] = PatchOf(before, after)
<1> DEFINE G == Graphs \cup {Nothing}
           newest == PatchOf(before, after)
           t == SubSeq(trail, 1, cursor) \o <<before, after>>
           e == Append(SubSeq(entries, 1, cursor), newest)
           shift == IF cursor = MaxSteps THEN 1 ELSE 0
<1>1. /\ entries \in Seq(Patches) /\ trail \in Seq(G)
      /\ MaxSteps \in Nat \ {0} /\ cursor \in 0..MaxSteps /\ cursor \in 0..Len(entries)
      /\ Len(trail) = Len(entries) + 1 /\ Len(entries) \in Nat
  BY DEF HistoryInv, CanvasAssumption
<1>2. /\ entries' = Trimmed(e, MaxSteps) /\ trail' = Trimmed(t, MaxSteps + 1)
      /\ cursor' = IF cursor = MaxSteps THEN MaxSteps ELSE cursor + 1
  BY DEF Keep, EntriesWith
<1>3. /\ t \in Seq(G) /\ Len(t) = cursor + 2
      /\ \A k \in 1..cursor : t[k] = trail[k]
      /\ t[cursor + 1] = before /\ t[cursor + 2] = after
  <2>1. before \in G /\ after \in G /\ cursor \in 0..Len(trail)
    BY <1>1
  <2>2. trail \in Seq(G) /\ t = SubSeq(trail, 1, cursor) \o <<before, after>>
    BY <1>1
  <2> HIDE DEF G, t
  <2> QED  BY ONLY <2>1, <2>2, TrailGrows
<1>4. /\ e \in Seq(Patches) /\ Len(e) = cursor + 1
      /\ \A k \in 1..cursor : e[k] = entries[k]
      /\ e[cursor + 1] = newest
  <2>1. newest \in Patches
    BY PatchLeads
  <2> QED  BY <1>1, <2>1, EntriesGrow
<1> HIDE DEF G, t, e, newest
<1>5. shift \in 0..1 /\ cursor' = cursor + 1 - shift /\ cursor' \in 0..MaxSteps
  BY <1>1, <1>2
<1>6. /\ trail' \in Seq(G) /\ Len(trail') = cursor' + 1
      /\ \A k \in 1..(cursor' + 1) : trail'[k] = t[k + shift]
  <2>1. Len(t) <= (MaxSteps + 1) + shift /\ (shift = 1 => Len(t) = (MaxSteps + 1) + 1)
    BY <1>1, <1>3
  <2>2. MaxSteps + 1 \in Nat \ {0} /\ Len(t) - shift = cursor' + 1
    BY <1>1, <1>3, <1>5
  <2>3. t \in Seq(G) /\ shift \in 0..1
    BY <1>3, <1>5
  <2> HIDE DEF shift
  <2>4. /\ Trimmed(t, MaxSteps + 1) \in Seq(G)
        /\ Len(Trimmed(t, MaxSteps + 1)) = Len(t) - shift
        /\ \A k \in 1..(Len(t) - shift) : Trimmed(t, MaxSteps + 1)[k] = t[k + shift]
    BY ONLY <2>1, <2>2, <2>3, TrimmedShifts
  <2> QED  BY <1>2, <2>2, <2>4
<1>7. /\ entries' \in Seq(Patches) /\ Len(entries') = cursor'
      /\ \A k \in 1..cursor' : entries'[k] = e[k + shift]
  <2>1. Len(e) <= MaxSteps + shift /\ (shift = 1 => Len(e) = MaxSteps + 1)
    BY <1>1, <1>4
  <2>2. Len(e) - shift = cursor'
    BY <1>1, <1>4, <1>5
  <2> HIDE DEF shift
  <2> QED  BY <1>1, <1>2, <1>4, <1>5, <2>1, <2>2, TrimmedShifts
<1> HIDE DEF shift
<1>8. trail'[cursor' + 1] = after
  <2>1. cursor' + 1 \in 1..(cursor' + 1) /\ (cursor' + 1) + shift = cursor + 2
    <3>1. cursor \in Int /\ shift \in Int /\ cursor' \in Nat /\ cursor' = cursor + 1 - shift
      BY <1>1, <1>5
    <3> QED  BY ONLY <3>1
  <2> QED  BY <1>3, <1>6, <2>1
<1>9. ASSUME NEW k \in 1..cursor' PROVE trail'[k] = trail[k + shift]
  <2>1. trail'[k] = t[k + shift] /\ k + shift \in 1..(cursor + 1)
    BY <1>1, <1>5, <1>6
  <2> QED  BY <1>1, <1>3, <2>1
<1>10. ASSUME NEW k \in 1..(cursor' - 1) PROVE entries'[k] = entries[k + shift]
  <2>1. entries'[k] = e[k + shift] /\ k + shift \in 1..cursor
    BY <1>1, <1>5, <1>7
  <2> QED  BY <1>1, <1>4, <2>1
<1>11. cursor' > 0 => entries'[cursor'] = newest
  <2>1. cursor' > 0 => entries'[cursor'] = e[cursor' + shift]
    BY <1>5, <1>7
  <2> QED  BY <1>1, <1>4, <1>5, <2>1
<1> QED  BY <1>5, <1>6, <1>7, <1>8, <1>9, <1>10, <1>11 DEF G, newest

----------------------------------------------------------------------------
(* The canvas and its history.                                             *)

\* A step that leaves the history alone and shows what its cursor is at.
LEMMA QuietHistory ==
    ASSUME HistoryInv, UNCHANGED undoVars, Drawn \subseteq Drawn',
           Shown' /\ ~loading'.torn =>
               /\ Shown /\ ~loading.torn /\ Recorded' = Recorded
               /\ ~dirty' => (~dirty /\ revision' = revision) \/ Recorded = revision'
    PROVE  HistoryInv'
BY DEF HistoryInv, undoVars, Leads

LEMMA RecordingKeeps ==
    ASSUME CanvasAssumption, HistoryInv, Drawn \subseteq Drawn', Shown, ~loading.torn,
           NEW before \in Drawn, NEW after \in Drawn',
           before = Recorded, Keep(before, after),
           canvas' = after, Released', UNCHANGED <<revision, loading>>
    PROVE  /\ HistoryInv'
           /\ \A k \in 1..Len(trail') :
                 trail'[k] = after \/ \E j \in 1..Len(trail) : trail'[k] = trail[j]
<1>1. before \in Graphs /\ after \in Graphs /\ Recorded' = after /\ trail[cursor + 1] = before
  BY DEF Drawn, HistoryInv, Recorded
<1>2. CASE before = after
  <2>1. UNCHANGED <<undoVars, dirty>>
    BY <1>2 DEF Keep
  <2>2. HistoryInv'
    BY <1>1, <1>2, <2>1, QuietHistory DEF HistoryInv
  <2> QED  BY <2>1, <2>2 DEF undoVars
<1>3. CASE before # after
  <2>1. PICK shift \in 0..1 :
             /\ entries' \in Seq(Patches) /\ trail' \in Seq(Graphs \cup {Nothing})
             /\ cursor' = cursor + 1 - shift /\ cursor' \in 0..MaxSteps
             /\ Len(entries') = cursor' /\ Len(trail') = cursor' + 1
             /\ \A k \in 1..cursor' : trail'[k] = trail[k + shift]
             /\ trail'[cursor' + 1] = after
             /\ \A k \in 1..(cursor' - 1) : entries'[k] = entries[k + shift]
             /\ cursor' > 0 => entries'[cursor'] = PatchOf(before, after)
    BY <1>1, <1>3, KeepRecords
  <2>2. /\ cursor \in Nat /\ Len(entries) \in Nat /\ cursor <= Len(entries)
        /\ Len(trail) = Len(entries) + 1
        /\ MaxSteps \in Nat
    BY DEF HistoryInv, CanvasAssumption
  <2>3. ASSUME NEW k \in 1..cursor'
        PROVE  k + shift \in 1..Len(trail) /\ trail'[k] = trail[k + shift]
    BY <2>1, <2>2
  <2>4. \A k \in 1..Len(trail') :
            trail'[k] = after \/ \E j \in 1..Len(trail) : trail'[k] = trail[j]
    <3>1. ASSUME NEW k \in 1..(cursor' + 1) PROVE k \in 1..cursor' \/ k = cursor' + 1
      BY <2>1
    <3> QED  BY <2>1, <2>3, <3>1
  <2>5. \A k \in 1..Len(trail') : trail'[k] \in Drawn'
    BY <2>4 DEF HistoryInv
  <2>6. ASSUME NEW k \in 1..Len(entries')
        PROVE  entries'[k] = PatchOf(trail'[k], trail'[k + 1])
    <3>1. CASE k = cursor'
      <4>1. trail'[k] = before
        BY <1>1, <2>1, <2>2, <2>3, <3>1
      <4> QED  BY <2>1, <3>1, <4>1
    <3>2. CASE k # cursor'
      <4>1. /\ k \in 1..(cursor' - 1) /\ k \in 1..cursor' /\ k + 1 \in 1..cursor'
            /\ k + shift \in 1..Len(entries) /\ (k + 1) + shift = (k + shift) + 1
        BY <2>1, <2>2, <3>2
      <4>2. entries[k + shift] = PatchOf(trail[k + shift], trail[(k + shift) + 1])
        BY <4>1 DEF HistoryInv, Leads
      <4>3. /\ entries'[k] = entries[k + shift]
            /\ trail'[k] = trail[k + shift] /\ trail'[k + 1] = trail[(k + 1) + shift]
        BY <2>1, <4>1
      <4> QED  BY <4>1, <4>2, <4>3
    <3> QED  BY <3>1, <3>2
  <2>7. dirty' = TRUE
    BY <1>3 DEF Keep
  <2>8. HistoryInv'
    BY <1>1, <2>1, <2>5, <2>6, <2>7 DEF HistoryInv, Leads
  <2> QED  BY <2>4, <2>8
<1> QED  BY <1>2, <1>3

\* Undo and redo lead to the neighbours on the trail.
LEMMA UndoLeads ==
    ASSUME CanvasTypes, HistoryInv, Shown, ~loading.torn, Released
    PROVE  /\ cursor > 0 => /\ cursor \in 1..Len(trail) /\ trail[cursor] \in Drawn
                            /\ Patched(canvas, entries[cursor], "before") = trail[cursor]
           /\ cursor < Len(entries) =>
                  /\ cursor + 2 \in 1..Len(trail) /\ trail[cursor + 2] \in Drawn
                  /\ Patched(canvas, entries[cursor + 1], "after") = trail[cursor + 2]
<1>1. /\ cursor \in Nat /\ Len(entries) \in Nat /\ cursor <= Len(entries)
      /\ Len(trail) = Len(entries) + 1
  BY DEF HistoryInv
<1>2. /\ \A k \in 1..Len(trail) : trail[k] \in Drawn /\ trail[k] \in Graphs
      /\ \A k \in 1..Len(entries) : entries[k] = PatchOf(trail[k], trail[k + 1])
      /\ canvas = trail[cursor + 1]
  BY DEF HistoryInv, Leads, Recorded, Drawn
<1>3. ASSUME cursor > 0
      PROVE  /\ cursor \in 1..Len(trail)
             /\ Patched(canvas, entries[cursor], "before") = trail[cursor]
  <2>1. cursor \in 1..Len(entries) /\ cursor \in 1..Len(trail) /\ cursor + 1 \in 1..Len(trail)
    BY <1>1, <1>3
  <2> QED  BY <1>2, <2>1, PatchLeads
<1>4. ASSUME cursor < Len(entries)
      PROVE  /\ cursor + 2 \in 1..Len(trail)
             /\ Patched(canvas, entries[cursor + 1], "after") = trail[cursor + 2]
  <2>1. /\ cursor + 1 \in 1..Len(entries) /\ cursor + 1 \in 1..Len(trail)
        /\ cursor + 2 \in 1..Len(trail) /\ (cursor + 1) + 1 = cursor + 2
    BY <1>1, <1>4
  <2>2. entries[cursor + 1] = PatchOf(trail[cursor + 1], trail[cursor + 2])
    BY <1>2, <2>1
  <2> QED  BY <1>2, <2>1, <2>2, PatchLeads
<1> QED  BY <1>2, <1>3, <1>4

----------------------------------------------------------------------------
(* Each step of the window, its requests and the others.                   *)

\* More changes leave what there is where it is.
GrownTypes ==
    /\ saved \in Drawn' /\ canvas \in Drawn' \cup {Nothing} /\ revision \in Drawn' \cup {Nothing}
    /\ busy \in Requests'
    /\ loading \in [at : {"no", "asked", "answered", "outline"},
                   graph : Drawn' \cup {Nothing}, torn : BOOLEAN]
    /\ loading.at = "answered" => loading.graph \in Drawn'
    /\ drag \in Drawn' \cup {Nothing}
    /\ draft \in [revision : Drawn', graph : Drawn'] \cup {Nothing}

LEMMA TypesGrow ==
    ASSUME CanvasTypes, Drawn \subseteq Drawn'
    PROVE  GrownTypes
<1>1. busy \in Requests'
  BY DEF CanvasTypes, Requests
<1>2. loading \in [at : {"no", "asked", "answered", "outline"},
                  graph : Drawn' \cup {Nothing}, torn : BOOLEAN]
  BY DEF CanvasTypes
<1>3. draft \in [revision : Drawn', graph : Drawn'] \cup {Nothing}
  BY DEF CanvasTypes
<1> QED  BY <1>1, <1>2, <1>3 DEF CanvasTypes, GrownTypes

LEMMA LatestHolds ==
    ASSUME CanvasTypes, changes' \in Nat, changes' >= changes,
           \A last \in [Items -> 0..changes] : Latest(last) => Latest(last)',
           LatestInv
    PROVE  LatestInv'
<1>1. PICK last \in [Items -> 0..changes] : Latest(last)
  BY DEF LatestInv
<1>2. last \in [Items -> 0..changes']
  BY DEF CanvasTypes
<1> QED  BY <1>1, <1>2 DEF LatestInv

\* What all of these lemmas look into.
USE NothingIsNoGraph DEF CanvasTypes, PatienceInv, graphVars, undoVars, draftVars, counters,
                         Idle, Shown, Released, Careful, NotBusy, NoRequest

LEMMA LoadStartsKeeps ==
    ASSUME Patient, CanvasAssumption, CanvasInv, LoadStarts
    PROVE  CanvasInv'
<1>1. CanvasTypes /\ PatienceInv /\ HistoryInv /\ LatestInv
  BY DEF CanvasInv
<1>2. changes' = changes /\ Drawn' = Drawn /\ changes \in Nat
  BY <1>1 DEF LoadStarts, Drawn
<1>3. CanvasTypes'
  BY <1>1, <1>2 DEF LoadStarts, Requests
<1>4. PatienceInv'
  BY <1>1, <1>2 DEF LoadStarts
<1>5. HistoryInv'
  BY <1>1, <1>2, QuietHistory DEF LoadStarts, Recorded
<1>6. ASSUME NEW last \in [Items -> 0..changes], Latest(last) PROVE Latest(last)'
  BY <1>1, <1>2, <1>6 DEF LoadStarts, Latest
<1> QED  BY <1>1, <1>2, <1>3, <1>4, <1>5, <1>6, LatestHolds DEF CanvasInv, Now

LEMMA LoadAnsweredKeeps ==
    ASSUME Patient, CanvasAssumption, CanvasInv, LoadAnswered
    PROVE  CanvasInv'
<1>1. CanvasTypes /\ PatienceInv /\ HistoryInv /\ LatestInv
  BY DEF CanvasInv
<1>2. changes' = changes /\ Drawn' = Drawn /\ changes \in Nat
  BY <1>1 DEF LoadAnswered, Drawn
<1>3. CanvasTypes'
  BY <1>1, <1>2 DEF LoadAnswered, Requests
<1>4. PatienceInv'
  BY <1>1, <1>2 DEF LoadAnswered
<1>5. HistoryInv'
  BY <1>1, <1>2, QuietHistory DEF LoadAnswered, Recorded
<1>6. ASSUME NEW last \in [Items -> 0..changes], Latest(last) PROVE Latest(last)'
  BY <1>1, <1>2, <1>6 DEF LoadAnswered, Latest
<1> QED  BY <1>1, <1>2, <1>3, <1>4, <1>5, <1>6, LatestHolds DEF CanvasInv, Now

LEMMA LoadRefusedKeeps ==
    ASSUME Patient, CanvasAssumption, CanvasInv, LoadRefused
    PROVE  CanvasInv'
<1>1. CanvasTypes /\ PatienceInv /\ HistoryInv /\ LatestInv
  BY DEF CanvasInv
<1>2. changes' = changes /\ Drawn' = Drawn /\ changes \in Nat
  BY <1>1 DEF LoadRefused, Drawn
<1>3. CanvasTypes'
  BY <1>1, <1>2 DEF LoadRefused, Requests
<1>4. PatienceInv'
  BY <1>1, <1>2 DEF LoadRefused
<1>5. HistoryInv'
  BY <1>1, <1>2, QuietHistory DEF LoadRefused, Recorded
<1>6. ASSUME NEW last \in [Items -> 0..changes], Latest(last) PROVE Latest(last)'
  BY <1>1, <1>2, <1>6 DEF LoadRefused, Latest
<1> QED  BY <1>1, <1>2, <1>3, <1>4, <1>5, <1>6, LatestHolds DEF CanvasInv, Now

LEMMA GraphShownKeeps ==
    ASSUME Patient, CanvasAssumption, CanvasInv, GraphShown
    PROVE  CanvasInv'
<1>1. CanvasTypes /\ PatienceInv /\ HistoryInv /\ LatestInv
  BY DEF CanvasInv
<1>2. changes' = changes /\ Drawn' = Drawn /\ changes \in Nat
  BY <1>1 DEF GraphShown, Drawn
<1>3. CanvasTypes'
  BY <1>1, <1>2 DEF GraphShown, Requests
<1>4. PatienceInv'
  BY <1>1, <1>2 DEF GraphShown
<1>5. HistoryInv'
  BY <1>1, <1>2, QuietHistory DEF GraphShown, Recorded
<1>6. ASSUME NEW last \in [Items -> 0..changes], Latest(last) PROVE Latest(last)'
  BY <1>1, <1>2, <1>6 DEF GraphShown, Latest
<1> QED  BY <1>1, <1>2, <1>3, <1>4, <1>5, <1>6, LatestHolds DEF CanvasInv, Now

LEMMA OutlineFailsKeeps ==
    ASSUME Patient, CanvasAssumption, CanvasInv, OutlineFails
    PROVE  CanvasInv'
<1>1. CanvasTypes /\ PatienceInv /\ HistoryInv /\ LatestInv
  BY DEF CanvasInv
<1>2. changes' = changes /\ Drawn' = Drawn /\ changes \in Nat
  BY <1>1 DEF OutlineFails, Drawn
<1>3. CanvasTypes'
  BY <1>1, <1>2 DEF OutlineFails, Requests
<1>4. PatienceInv'
  BY <1>1, <1>2 DEF OutlineFails
<1>5. HistoryInv'
  BY <1>1, <1>2, QuietHistory DEF OutlineFails, Recorded
<1>6. ASSUME NEW last \in [Items -> 0..changes], Latest(last) PROVE Latest(last)'
  BY <1>1, <1>2, <1>6 DEF OutlineFails, Latest
<1> QED  BY <1>1, <1>2, <1>3, <1>4, <1>5, <1>6, LatestHolds DEF CanvasInv, Now

LEMMA LoadEndsKeeps ==
    ASSUME Patient, CanvasAssumption, CanvasInv, LoadEnds
    PROVE  CanvasInv'
<1>1. CanvasTypes /\ PatienceInv /\ HistoryInv /\ LatestInv
  BY DEF CanvasInv
<1>2. changes' = changes /\ Drawn' = Drawn /\ changes \in Nat
  BY <1>1 DEF LoadEnds, Drawn
<1>3. CanvasTypes'
  BY <1>1, <1>2 DEF LoadEnds, Requests, Forget
<1>4. PatienceInv'
  BY <1>1, <1>2 DEF LoadEnds, Forget
<1>5. HistoryInv'
  <2>1. entries' = <<>> /\ cursor' = 0 /\ trail' = <<canvas>> /\ Len(entries') = 0 /\ Len(trail') = 1
    BY DEF LoadEnds, Forget
  <2>2. entries' \in Seq(Patches) /\ trail' \in Seq(Graphs \cup {Nothing}) /\ MaxSteps \in Nat
    BY <1>1, <2>1 DEF CanvasAssumption, Drawn
  <2>3. canvas = revision /\ canvas \in Drawn /\ Released /\ UNCHANGED <<canvas, revision, drag>>
    BY <1>1, <1>2 DEF LoadEnds
  <2> QED  BY <1>2, <2>1, <2>2, <2>3 DEF HistoryInv, Leads, Recorded
<1>6. ASSUME NEW last \in [Items -> 0..changes], Latest(last) PROVE Latest(last)'
  BY <1>1, <1>2, <1>6 DEF LoadEnds, Latest, Forget
<1> QED  BY <1>1, <1>2, <1>3, <1>4, <1>5, <1>6, LatestHolds DEF CanvasInv, Now

LEMMA PressKeeps ==
    ASSUME Patient, CanvasAssumption, CanvasInv, Press
    PROVE  CanvasInv'
<1>1. CanvasTypes /\ PatienceInv /\ HistoryInv /\ LatestInv
  BY DEF CanvasInv
<1>2. changes' = changes /\ Drawn' = Drawn /\ changes \in Nat
  BY <1>1 DEF Press, Drawn
<1>3. CanvasTypes'
  BY <1>1, <1>2 DEF Press, Requests, Usable
<1>4. PatienceInv'
  BY <1>1, <1>2 DEF Press, Usable
<1>5. HistoryInv'
  BY <1>1, <1>2, QuietHistory DEF Press, Recorded, Usable
<1>6. ASSUME NEW last \in [Items -> 0..changes], Latest(last) PROVE Latest(last)'
  BY <1>1, <1>2, <1>6 DEF Press, Latest, Usable
<1> QED  BY <1>1, <1>2, <1>3, <1>4, <1>5, <1>6, LatestHolds DEF CanvasInv, Now

LEMMA EscapeKeeps ==
    ASSUME Patient, CanvasAssumption, CanvasInv, Escape
    PROVE  CanvasInv'
<1>1. CanvasTypes /\ PatienceInv /\ HistoryInv /\ LatestInv
  BY DEF CanvasInv
<1>2. changes' = changes /\ Drawn' = Drawn /\ changes \in Nat
  BY <1>1 DEF Escape, Drawn
<1>3. CanvasTypes'
  BY <1>1, <1>2 DEF Escape, Requests
<1>4. PatienceInv'
  BY <1>1, <1>2 DEF Escape
<1>5. HistoryInv'
  BY <1>1, <1>2, QuietHistory DEF Escape, Recorded
<1>6. ASSUME NEW last \in [Items -> 0..changes], Latest(last) PROVE Latest(last)'
  BY <1>1, <1>2, <1>6 DEF Escape, Latest
<1> QED  BY <1>1, <1>2, <1>3, <1>4, <1>5, <1>6, LatestHolds DEF CanvasInv, Now

LEMMA UndoEditKeeps ==
    ASSUME Patient, CanvasAssumption, CanvasInv, UndoEdit
    PROVE  CanvasInv'
<1>1. CanvasTypes /\ PatienceInv /\ HistoryInv /\ LatestInv
  BY DEF CanvasInv
<1>2. changes' = changes /\ Drawn' = Drawn /\ changes \in Nat
  BY <1>1 DEF UndoEdit, Drawn
<1>7. /\ trail[cursor] \in Drawn /\ canvas' = trail[cursor] /\ cursor \in 1..Len(trail)
      /\ Shown /\ ~loading.torn /\ Released
  BY <1>1, UndoLeads DEF UndoEdit, Usable
<1>3. CanvasTypes'
  BY <1>1, <1>2, <1>7 DEF UndoEdit, Requests, Usable
<1>4. PatienceInv'
  BY <1>1, <1>2, <1>7 DEF UndoEdit, Usable
<1>5. HistoryInv'
  <2>1. cursor \in 0..Len(entries) /\ Len(entries) \in Nat
    BY <1>1 DEF HistoryInv
  <2>2. cursor' = cursor - 1 /\ cursor > 0
    BY DEF UndoEdit
  <2>3. cursor' \in 0..Len(entries) /\ cursor' + 1 = cursor
    BY ONLY <2>1, <2>2
  <2>4. UNCHANGED <<entries, trail, revision, drag, loading>> /\ dirty' = TRUE
    BY DEF UndoEdit
  <2>5. Recorded' = trail[cursor] /\ trail[cursor' + 1] = trail[cursor]
    BY <1>7, <2>3, <2>4 DEF Recorded
  <2> QED  BY <1>1, <1>2, <1>7, <2>3, <2>4, <2>5 DEF HistoryInv, Leads
<1>6. ASSUME NEW last \in [Items -> 0..changes], Latest(last) PROVE Latest(last)'
  BY <1>1, <1>2, <1>6, <1>7 DEF UndoEdit, Latest, Usable
<1> QED  BY <1>1, <1>2, <1>3, <1>4, <1>5, <1>6, LatestHolds DEF CanvasInv, Now

LEMMA RedoEditKeeps ==
    ASSUME Patient, CanvasAssumption, CanvasInv, RedoEdit
    PROVE  CanvasInv'
<1>1. CanvasTypes /\ PatienceInv /\ HistoryInv /\ LatestInv
  BY DEF CanvasInv
<1>2. changes' = changes /\ Drawn' = Drawn /\ changes \in Nat
  BY <1>1 DEF RedoEdit, Drawn
<1>7. /\ trail[cursor + 2] \in Drawn /\ canvas' = trail[cursor + 2] /\ cursor + 2 \in 1..Len(trail)
      /\ Shown /\ ~loading.torn /\ Released
  BY <1>1, UndoLeads DEF RedoEdit, Usable
<1>3. CanvasTypes'
  BY <1>1, <1>2, <1>7 DEF RedoEdit, Requests, Usable
<1>4. PatienceInv'
  BY <1>1, <1>2, <1>7 DEF RedoEdit, Usable
<1>5. HistoryInv'
  <2>1. cursor \in 0..Len(entries) /\ Len(entries) \in Nat
    BY <1>1 DEF HistoryInv
  <2>2. cursor' = cursor + 1 /\ cursor < Len(entries)
    BY DEF RedoEdit
  <2>3. cursor' \in 0..Len(entries) /\ cursor' + 1 = cursor + 2
    BY ONLY <2>1, <2>2
  <2>4. UNCHANGED <<entries, trail, revision, drag, loading>> /\ dirty' = TRUE
    BY DEF RedoEdit
  <2>5. Recorded' = trail[cursor + 2] /\ trail[cursor' + 1] = trail[cursor + 2]
    BY <1>7, <2>3, <2>4 DEF Recorded
  <2> QED  BY <1>1, <1>2, <1>7, <2>3, <2>4, <2>5 DEF HistoryInv, Leads
<1>6. ASSUME NEW last \in [Items -> 0..changes], Latest(last) PROVE Latest(last)'
  BY <1>1, <1>2, <1>6, <1>7 DEF RedoEdit, Latest, Usable
<1> QED  BY <1>1, <1>2, <1>3, <1>4, <1>5, <1>6, LatestHolds DEF CanvasInv, Now

LEMMA SaveStartsKeeps ==
    ASSUME Patient, CanvasAssumption, CanvasInv, SaveStarts
    PROVE  CanvasInv'
<1>1. CanvasTypes /\ PatienceInv /\ HistoryInv /\ LatestInv
  BY DEF CanvasInv
<1>2. changes' = changes /\ Drawn' = Drawn /\ changes \in Nat
  BY <1>1 DEF SaveStarts, Drawn, Send
<1>3. CanvasTypes'
  BY <1>1, <1>2 DEF SaveStarts, Requests, Send, Usable
<1>4. PatienceInv'
  BY <1>1, <1>2 DEF SaveStarts, Usable, Send
<1>5. HistoryInv'
  BY <1>1, <1>2, QuietHistory DEF SaveStarts, Recorded, Usable, Send
<1>6. ASSUME NEW last \in [Items -> 0..changes], Latest(last) PROVE Latest(last)'
  BY <1>1, <1>2, <1>6 DEF SaveStarts, Latest, Usable, Send
<1> QED  BY <1>1, <1>2, <1>3, <1>4, <1>5, <1>6, LatestHolds DEF CanvasInv, Now

LEMMA ReviewStartsKeeps ==
    ASSUME Patient, CanvasAssumption, CanvasInv, ReviewStarts
    PROVE  CanvasInv'
<1>1. CanvasTypes /\ PatienceInv /\ HistoryInv /\ LatestInv
  BY DEF CanvasInv
<1>2. changes' = changes /\ Drawn' = Drawn /\ changes \in Nat
  BY <1>1 DEF ReviewStarts, Drawn, Send
<1>3. CanvasTypes'
  BY <1>1, <1>2 DEF ReviewStarts, Requests, Send, Usable
<1>4. PatienceInv'
  BY <1>1, <1>2 DEF ReviewStarts, Usable, Send
<1>5. HistoryInv'
  BY <1>1, <1>2, QuietHistory DEF ReviewStarts, Recorded, Usable, Send
<1>6. ASSUME NEW last \in [Items -> 0..changes], Latest(last) PROVE Latest(last)'
  BY <1>1, <1>2, <1>6 DEF ReviewStarts, Latest, Usable, Send
<1> QED  BY <1>1, <1>2, <1>3, <1>4, <1>5, <1>6, LatestHolds DEF CanvasInv, Now

LEMMA RequestFailsKeeps ==
    ASSUME Patient, CanvasAssumption, CanvasInv, RequestFails
    PROVE  CanvasInv'
<1>1. CanvasTypes /\ PatienceInv /\ HistoryInv /\ LatestInv
  BY DEF CanvasInv
<1>2. changes' = changes /\ Drawn' = Drawn /\ changes \in Nat
  BY <1>1 DEF RequestFails, Drawn
<1>3. CanvasTypes'
  BY <1>1, <1>2 DEF RequestFails, Requests, Written
<1>4. PatienceInv'
  BY <1>1, <1>2 DEF RequestFails
<1>5. HistoryInv'
  BY <1>1, <1>2, QuietHistory DEF RequestFails, Recorded
<1>6. ASSUME NEW last \in [Items -> 0..changes], Latest(last) PROVE Latest(last)'
  BY <1>1, <1>2, <1>6 DEF RequestFails, Latest, Written
<1> QED  BY <1>1, <1>2, <1>3, <1>4, <1>5, <1>6, LatestHolds DEF CanvasInv, Now

LEMMA SaveReturnsKeeps ==
    ASSUME Patient, CanvasAssumption, CanvasInv, SaveReturns
    PROVE  CanvasInv'
<1>1. CanvasTypes /\ PatienceInv /\ HistoryInv /\ LatestInv
  BY DEF CanvasInv
<1>2. changes' = changes /\ Drawn' = Drawn /\ changes \in Nat
  BY <1>1 DEF SaveReturns, Drawn
<1>3. CanvasTypes'
  BY <1>1, <1>2 DEF SaveReturns, Requests, Written
<1>4. PatienceInv'
  BY <1>1, <1>2 DEF SaveReturns
<1>5. HistoryInv'
  BY <1>1, <1>2, QuietHistory DEF SaveReturns, Recorded
<1>6. ASSUME NEW last \in [Items -> 0..changes], Latest(last) PROVE Latest(last)'
  BY <1>1, <1>2, <1>6 DEF SaveReturns, Latest, Written
<1> QED  BY <1>1, <1>2, <1>3, <1>4, <1>5, <1>6, LatestHolds DEF CanvasInv, Now

LEMMA SaveRefusedKeeps ==
    ASSUME Patient, CanvasAssumption, CanvasInv, SaveRefused
    PROVE  CanvasInv'
<1>1. CanvasTypes /\ PatienceInv /\ HistoryInv /\ LatestInv
  BY DEF CanvasInv
<1>2. changes' = changes /\ Drawn' = Drawn /\ changes \in Nat
  BY <1>1 DEF SaveRefused, Drawn
<1>3. CanvasTypes'
  BY <1>1, <1>2 DEF SaveRefused, Requests, Written
<1>4. PatienceInv'
  BY <1>1, <1>2 DEF SaveRefused
<1>5. HistoryInv'
  BY <1>1, <1>2, QuietHistory DEF SaveRefused, Recorded
<1>6. ASSUME NEW last \in [Items -> 0..changes], Latest(last) PROVE Latest(last)'
  BY <1>1, <1>2, <1>6 DEF SaveRefused, Latest, Written
<1> QED  BY <1>1, <1>2, <1>3, <1>4, <1>5, <1>6, LatestHolds DEF CanvasInv, Now

LEMMA ReviewRefusedKeeps ==
    ASSUME Patient, CanvasAssumption, CanvasInv, ReviewRefused
    PROVE  CanvasInv'
<1>1. CanvasTypes /\ PatienceInv /\ HistoryInv /\ LatestInv
  BY DEF CanvasInv
<1>2. changes' = changes /\ Drawn' = Drawn /\ changes \in Nat
  BY <1>1 DEF ReviewRefused, Drawn
<1>3. CanvasTypes'
  BY <1>1, <1>2 DEF ReviewRefused, Requests, Written
<1>4. PatienceInv'
  BY <1>1, <1>2 DEF ReviewRefused
<1>5. HistoryInv'
  BY <1>1, <1>2, QuietHistory DEF ReviewRefused, Recorded
<1>6. ASSUME NEW last \in [Items -> 0..changes], Latest(last) PROVE Latest(last)'
  BY <1>1, <1>2, <1>6 DEF ReviewRefused, Latest, Written
<1> QED  BY <1>1, <1>2, <1>3, <1>4, <1>5, <1>6, LatestHolds DEF CanvasInv, Now

LEMMA DraftTimerKeeps ==
    ASSUME Patient, CanvasAssumption, CanvasInv, DraftTimer
    PROVE  CanvasInv'
<1>1. CanvasTypes /\ PatienceInv /\ HistoryInv /\ LatestInv
  BY DEF CanvasInv
<1>2. changes' = changes /\ Drawn' = Drawn /\ changes \in Nat
  BY <1>1 DEF DraftTimer, Drawn
<1>3. CanvasTypes'
  BY <1>1, <1>2 DEF DraftTimer, Requests, Written
<1>4. PatienceInv'
  BY <1>1, <1>2 DEF DraftTimer
<1>5. HistoryInv'
  BY <1>1, <1>2, QuietHistory DEF DraftTimer, Recorded
<1>6. ASSUME NEW last \in [Items -> 0..changes], Latest(last) PROVE Latest(last)'
  BY <1>1, <1>2, <1>6 DEF DraftTimer, Latest, Written
<1> QED  BY <1>1, <1>2, <1>3, <1>4, <1>5, <1>6, LatestHolds DEF CanvasInv, Now

LEMMA ServerSavesKeeps ==
    ASSUME Patient, CanvasAssumption, CanvasInv, ServerSaves
    PROVE  CanvasInv'
<1>1. CanvasTypes /\ PatienceInv /\ HistoryInv /\ LatestInv
  BY DEF CanvasInv
<1>2. changes' = changes /\ Drawn' = Drawn /\ changes \in Nat
  BY <1>1 DEF ServerSaves, Drawn
<1>3. CanvasTypes'
  BY <1>1, <1>2 DEF ServerSaves, Requests, TakesRevision
<1>4. PatienceInv'
  BY <1>1, <1>2 DEF ServerSaves
<1>5. HistoryInv'
  BY <1>1, <1>2, QuietHistory DEF ServerSaves, Recorded
<1>6. ASSUME NEW last \in [Items -> 0..changes], Latest(last) PROVE Latest(last)'
  BY <1>1, <1>2, <1>6 DEF ServerSaves, Latest, TakesRevision, UpTo, Within
<1> QED  BY <1>1, <1>2, <1>3, <1>4, <1>5, <1>6, LatestHolds DEF CanvasInv, Now

LEMMA EditKeeps ==
    ASSUME Patient, CanvasAssumption, CanvasInv, Edit
    PROVE  CanvasInv'
<1>1. CanvasTypes /\ PatienceInv /\ HistoryInv /\ LatestInv
  BY DEF CanvasInv
<1>2. /\ changes \in Nat /\ changes' = Now /\ changes' \in Nat /\ changes' >= changes
      /\ Drawn \subseteq Drawn' /\ GrownTypes
  BY <1>1, DrawnStays, TypesGrow DEF Edit, Now
<1>7. PICK g \in Edited : Change(g)
  BY DEF Edit
<1>8. /\ g \in Graphs /\ Connected(g) /\ Amends(g, canvas) /\ g \in Drawn'
      /\ canvas \in Drawn /\ Shown /\ Released /\ Idle /\ Careful
      /\ canvas' = g /\ Keep(canvas, g)
  <2>1. /\ canvas \in Drawn /\ Shown /\ Released /\ Idle /\ Careful
        /\ canvas' = g /\ Keep(canvas, g)
    BY <1>1, <1>7 DEF Change, Usable
  <2>2. g \in Graphs /\ Connected(g) /\ Amends(g, canvas)
    BY <1>1, <1>7, <2>1, EditsAmend
  <2>3. g \in Drawn'
    BY <1>2, <2>1, <2>2, AmendedIsDrawn
  <2> QED  BY <2>1, <2>2, <2>3
<1>9. dirty' \in BOOLEAN /\ Nothing \notin Drawn'
  BY <1>1, <1>8, CanvasAssumption DEF Keep, Drawn
<1>10. /\ HistoryInv'
       /\ \A k \in 1..Len(trail') : trail'[k] = g \/ \E j \in 1..Len(trail) : trail'[k] = trail[j]
  <2>1. canvas = Recorded /\ Released' /\ UNCHANGED <<revision, loading>> /\ ~loading.torn
    BY <1>8 DEF Edit, Recorded
  <2> QED  BY <1>1, <1>2, <1>8, <2>1, RecordingKeeps
<1>3. CanvasTypes'
  BY <1>1, <1>2, <1>8, <1>9 DEF Edit, GrownTypes, Requests
<1>4. PatienceInv'
  BY <1>1, <1>2, <1>8, <1>9 DEF Edit
<1>5. HistoryInv'
  BY <1>10
<1>6. ASSUME NEW last \in [Items -> 0..changes], Latest(last) PROVE Latest(last)'
  <2>1. Within(last, canvas) => Within(last, g)
    BY <1>1, <1>2, <1>8, AmendedIsWithin DEF Drawn
  <2>2. ASSUME \A k \in 1..Len(trail) : Within(last, trail[k]), Within(last, g)
        PROVE  \A k \in 1..Len(trail') : Within(last, trail'[k])
    BY <1>10, <2>2
  <2> QED
    BY <1>1, <1>2, <1>6, <1>8, <1>9, <2>1, <2>2 DEF Edit, Latest
<1> QED  BY <1>1, <1>2, <1>3, <1>4, <1>5, <1>6, LatestHolds DEF CanvasInv, Now

LEMMA DragKeeps ==
    ASSUME Patient, CanvasAssumption, CanvasInv, Drag
    PROVE  CanvasInv'
<1>1. CanvasTypes /\ PatienceInv /\ HistoryInv /\ LatestInv
  BY DEF CanvasInv
<1>2. /\ changes \in Nat /\ changes' = Now /\ changes' \in Nat /\ changes' >= changes
      /\ Drawn \subseteq Drawn' /\ GrownTypes
  BY <1>1, DrawnStays, TypesGrow DEF Drag, Now
<1>7. /\ canvas \in Drawn /\ canvas["node"].live /\ canvas' = Moved /\ drag' = drag /\ Shown
      /\ ~Released /\ Moved \in Drawn' /\ Amends(Moved, canvas)
  <2>1. /\ canvas \in Drawn /\ canvas["node"].live /\ canvas' = Moved /\ drag' = drag
        /\ ~Released /\ Shown
    BY <1>1 DEF Drag
  <2>2. Moved \in Graphs /\ Connected(Moved) /\ Amends(Moved, canvas)
    BY <1>2, <2>1, EditsAmend
  <2> QED  BY <1>2, <2>1, <2>2, AmendedIsDrawn
<1>8. Nothing \notin Drawn'
  BY CanvasAssumption DEF Drawn
<1>3. CanvasTypes'
  BY <1>1, <1>2, <1>7, <1>8 DEF Drag, GrownTypes, Requests
<1>4. PatienceInv'
  BY <1>1, <1>2, <1>7, <1>8 DEF Drag
<1>5. HistoryInv'
  BY <1>1, <1>2, <1>7, QuietHistory DEF Drag, Recorded
<1>6. ASSUME NEW last \in [Items -> 0..changes], Latest(last) PROVE Latest(last)'
  <2>1. Within(last, canvas) => Within(last, Moved)
    BY <1>2, <1>7, AmendedIsWithin DEF Drawn
  <2> QED
    BY <1>1, <1>2, <1>6, <1>7, <1>8, <2>1 DEF Drag, Latest
<1> QED  BY <1>1, <1>2, <1>3, <1>4, <1>5, <1>6, LatestHolds DEF CanvasInv, Now

LEMMA ReleaseKeeps ==
    ASSUME Patient, CanvasAssumption, CanvasInv, Release
    PROVE  CanvasInv'
<1>1. CanvasTypes /\ PatienceInv /\ HistoryInv /\ LatestInv
  BY DEF CanvasInv
<1>2. changes' = changes /\ Drawn' = Drawn /\ changes \in Nat
  BY <1>1 DEF Release, Drawn
<1>8. /\ drag \in Drawn /\ canvas \in Drawn /\ Shown /\ ~loading.torn /\ ~Released /\ Released'
      /\ drag = Recorded /\ canvas' = canvas /\ Keep(drag, canvas)
  BY <1>1 DEF Release, Recorded
<1>9. dirty' \in BOOLEAN
  BY <1>1, <1>8 DEF Keep
<1>10. /\ HistoryInv'
       /\ \A k \in 1..Len(trail') : trail'[k] = canvas \/ \E j \in 1..Len(trail) : trail'[k] = trail[j]
  <2>1. UNCHANGED <<revision, loading>>
    BY DEF Release
  <2> QED  BY <1>1, <1>2, <1>8, <2>1, RecordingKeeps
<1>3. CanvasTypes'
  BY <1>1, <1>2, <1>8, <1>9 DEF Release, Requests
<1>4. PatienceInv'
  BY <1>1, <1>2, <1>8, <1>9 DEF Release
<1>5. HistoryInv'
  BY <1>10
<1>6. ASSUME NEW last \in [Items -> 0..changes], Latest(last) PROVE Latest(last)'
  <2>1. Within(last, canvas) => Within(last, canvas)
    BY <1>8
  <2>2. ASSUME \A k \in 1..Len(trail) : Within(last, trail[k]), Within(last, canvas)
        PROVE  \A k \in 1..Len(trail') : Within(last, trail'[k])
    BY <1>10, <2>2
  <2> QED
    BY <1>1, <1>2, <1>6, <1>8, <1>9, <2>1, <2>2 DEF Release, Latest
<1> QED  BY <1>1, <1>2, <1>3, <1>4, <1>5, <1>6, LatestHolds DEF CanvasInv, Now

LEMMA ReviewReturnsKeeps ==
    ASSUME Patient, CanvasAssumption, CanvasInv, ReviewReturns
    PROVE  CanvasInv'
<1>1. CanvasTypes /\ PatienceInv /\ HistoryInv /\ LatestInv
  BY DEF CanvasInv
<1>2. changes' = changes /\ Drawn' = Drawn /\ changes \in Nat
  BY <1>1 DEF ReviewReturns, Drawn
<1>8. /\ canvas \in Drawn /\ Shown /\ Careful /\ ~Idle
      /\ canvas' = busy.answer /\ busy.answer \in Drawn /\ Keep(canvas, busy.answer)
  BY <1>1 DEF ReviewReturns
<1>9. dirty' \in BOOLEAN
  BY <1>1, <1>8 DEF Keep
<1>10. /\ HistoryInv'
       /\ \A k \in 1..Len(trail') :
             trail'[k] = busy.answer \/ \E j \in 1..Len(trail) : trail'[k] = trail[j]
  <2>1. /\ canvas = Recorded /\ Released' /\ UNCHANGED <<revision, loading>> /\ ~loading.torn
    BY <1>8 DEF ReviewReturns, Recorded
  <2> QED  BY <1>1, <1>2, <1>8, <2>1, RecordingKeeps
<1>3. CanvasTypes'
  BY <1>1, <1>2, <1>8, <1>9 DEF ReviewReturns, Requests
<1>4. PatienceInv'
  BY <1>1, <1>2, <1>8, <1>9 DEF ReviewReturns
<1>5. HistoryInv'
  BY <1>10
<1>6. ASSUME NEW last \in [Items -> 0..changes], Latest(last) PROVE Latest(last)'
  <2>1. ASSUME \A k \in 1..Len(trail) : Within(last, trail[k]), Within(last, busy.answer)
        PROVE  \A k \in 1..Len(trail') : Within(last, trail'[k])
    BY <1>10, <2>1
  <2> QED
    BY <1>1, <1>2, <1>6, <1>8, <1>9, <2>1 DEF ReviewReturns, Latest
<1> QED  BY <1>1, <1>2, <1>3, <1>4, <1>5, <1>6, LatestHolds DEF CanvasInv, Now

LEMMA RestoreDraftKeeps ==
    ASSUME Patient, CanvasAssumption, CanvasInv, RestoreDraft
    PROVE  CanvasInv'
<1>1. CanvasTypes /\ PatienceInv /\ HistoryInv /\ LatestInv
  BY DEF CanvasInv
<1>2. changes' = changes /\ Drawn' = Drawn /\ changes \in Nat
  BY <1>1 DEF RestoreDraft, Drawn
<1>8. /\ canvas \in Drawn /\ Shown /\ Careful /\ Idle /\ draft.revision = revision /\ draft # Nothing
      /\ canvas' = draft.graph /\ draft.graph \in Drawn /\ Keep(canvas, draft.graph)
  BY <1>1 DEF RestoreDraft, Change, DraftFits, Usable
<1>9. dirty' \in BOOLEAN
  BY <1>1, <1>8 DEF Keep
<1>10. /\ HistoryInv'
       /\ \A k \in 1..Len(trail') :
             trail'[k] = draft.graph \/ \E j \in 1..Len(trail) : trail'[k] = trail[j]
  <2>1. /\ canvas = Recorded /\ Released' /\ UNCHANGED <<revision, loading>> /\ ~loading.torn
    BY <1>8 DEF RestoreDraft, Recorded
  <2> QED  BY <1>1, <1>2, <1>8, <2>1, RecordingKeeps
<1>3. CanvasTypes'
  BY <1>1, <1>2, <1>8, <1>9 DEF RestoreDraft, Requests
<1>4. PatienceInv'
  BY <1>1, <1>2, <1>8, <1>9 DEF RestoreDraft
<1>5. HistoryInv'
  BY <1>10
<1>6. ASSUME NEW last \in [Items -> 0..changes], Latest(last) PROVE Latest(last)'
  <2>1. ASSUME \A k \in 1..Len(trail) : Within(last, trail[k]), Within(last, draft.graph)
        PROVE  \A k \in 1..Len(trail') : Within(last, trail'[k])
    BY <1>10, <2>1
  <2> QED
    BY <1>1, <1>2, <1>6, <1>8, <1>9, <2>1 DEF RestoreDraft, Latest
<1> QED  BY <1>1, <1>2, <1>3, <1>4, <1>5, <1>6, LatestHolds DEF CanvasInv, Now

LEMMA ServerReviewsKeeps ==
    ASSUME Patient, CanvasAssumption, CanvasInv, ServerReviews
    PROVE  CanvasInv'
<1>1. CanvasTypes /\ PatienceInv /\ HistoryInv /\ LatestInv
  BY DEF CanvasInv
<1>2. /\ changes \in Nat /\ changes' = Now /\ changes' \in Nat /\ changes' >= changes
      /\ Drawn \subseteq Drawn' /\ GrownTypes
  BY <1>1, DrawnStays, TypesGrow DEF ServerReviews, Now
<1>7. /\ busy.graph = canvas /\ canvas \in Drawn /\ Shown /\ busy'.answer \in Drawn'
      /\ Amends(busy'.answer, canvas) /\ Nothing \notin Drawn'
  <2> DEFINE g == [canvas EXCEPT !["edge"] = Mine(TRUE)]
  <2>1. busy.graph = canvas /\ canvas \in Drawn /\ Shown /\ busy'.answer = g /\ canvas["edge"].live
    BY <1>1 DEF ServerReviews, Requests
  <2>2. g \in Graphs /\ Connected(g) /\ Amends(g, canvas)
    <3>1. Mine(TRUE) \in Records /\ Mine(TRUE).by = "window" /\ Mine(TRUE).at = Now /\ Mine(TRUE).live
      BY <1>2 DEF Mine, Record, Records, Now
    <3>2. canvas \in [Items -> Records] /\ Items = {"node", "edge"} /\ canvas["node"].live
      BY <2>1 DEF Drawn, Graphs, Connected, Items
    <3> QED  BY <3>1, <3>2 DEF Graphs, Connected, Amends
  <2>3. g \in Drawn'
    BY <1>2, <2>1, <2>2, AmendedIsDrawn
  <2>4. Nothing \notin Drawn'
    BY CanvasAssumption DEF Drawn
  <2> HIDE DEF g
  <2> QED  BY <2>1, <2>2, <2>3, <2>4
<1>3. CanvasTypes'
  BY <1>1, <1>2, <1>7 DEF ServerReviews, GrownTypes, Requests
<1>4. PatienceInv'
  BY <1>1, <1>2, <1>7 DEF ServerReviews, Requests, GrownTypes
<1>5. HistoryInv'
  BY <1>1, <1>2, QuietHistory DEF ServerReviews, Recorded
<1>6. ASSUME NEW last \in [Items -> 0..changes], Latest(last) PROVE Latest(last)'
  <2>1. Within(last, canvas) => Within(last, busy'.answer)
    BY <1>2, <1>7, AmendedIsWithin DEF Drawn
  <2> QED
    BY <1>1, <1>2, <1>6, <1>7, <2>1 DEF ServerReviews, Latest
<1> QED  BY <1>1, <1>2, <1>3, <1>4, <1>5, <1>6, LatestHolds DEF CanvasInv, Now

\* Another's save outdates what this window was loaded from.
LEMMA OtherSavesKeeps ==
    ASSUME Patient, CanvasAssumption, CanvasInv, OtherSaves
    PROVE  CanvasInv'
<1>1. CanvasTypes /\ PatienceInv /\ HistoryInv /\ LatestInv
  BY DEF CanvasInv
<1>2. /\ changes \in Nat /\ changes' = Now /\ changes' \in Nat /\ changes' >= changes
      /\ Drawn \subseteq Drawn' /\ GrownTypes
  BY <1>1, DrawnStays, TypesGrow DEF OtherSaves, Now
<1>3. /\ UNCHANGED <<canvas, revision, undoVars, dirty, busy, loading, drag, draft>>
      /\ Connected(saved') /\ Nothing \notin Drawn'
  BY CanvasAssumption DEF OtherSaves, Drawn
<1>4. PICK changed \in (SUBSET Items) \ {{}}, alive \in BOOLEAN :
          saved' = [i \in Items |-> IF i \in changed THEN Theirs(alive) ELSE saved[i]]
  BY DEF OtherSaves
<1>5. /\ Theirs(alive) \in Records /\ Theirs(alive).at = Now /\ Theirs(alive).by = "other"
      /\ Now \in Nat /\ Now > changes /\ saved \in [Items -> Records]
      /\ \A i \in Items : saved[i].at \in 0..changes
  BY <1>1, <1>2 DEF Theirs, Record, Records, Now, Drawn, Graphs
<1>6. saved' \in Drawn'
  BY <1>2, <1>3, <1>4, <1>5 DEF Drawn, Graphs
<1>7. CanvasTypes'
  BY <1>1, <1>2, <1>3, <1>6 DEF GrownTypes, Requests
<1>8. PatienceInv'
  BY <1>1, <1>2, <1>3
<1>9. HistoryInv'
  BY <1>1, <1>2, <1>3, QuietHistory DEF Recorded
<1>10. PICK last \in [Items -> 0..changes] : Latest(last)
  BY <1>1 DEF LatestInv
<1>11. PICK later : later = [i \in Items |-> IF i \in changed THEN Now ELSE last[i]]
  OBVIOUS
<1>12. later \in [Items -> 0..changes'] /\ \A i \in Items : later[i] <= changes'
  BY <1>2, <1>5, <1>11
<1>13. Within(later, saved')
  BY <1>2, <1>4, <1>5, <1>10, <1>11 DEF Latest, Within, UpTo
<1>14. ASSUME NEW g \in Drawn PROVE ~UpTo(later, g)
  <2>1. changed # {} /\ changed \subseteq Items
    BY <1>4
  <2>2. PICK i \in Items : i \in changed
    BY <2>1
  <2>3. later[i] > changes /\ g[i].at \in 0..changes
    BY <1>2, <1>5, <1>11, <2>2 DEF Drawn, Graphs, Records
  <2> QED  BY <1>2, <1>12, <2>2, <2>3 DEF UpTo
<1>15. Latest(later)'
  <2>1. /\ Shown => revision \in Drawn
        /\ busy.on = "saving" => canvas \in Drawn
        /\ loading.at = "answered" => loading.graph \in Drawn
        /\ draft # Nothing => draft.revision \in Drawn
    BY <1>1
  <2>2. /\ Shown => ~UpTo(later, revision)
        /\ busy.on = "saving" => ~UpTo(later, canvas)
        /\ loading.at = "answered" => ~UpTo(later, loading.graph)
        /\ draft # Nothing => ~UpTo(later, draft.revision)
    BY <1>14, <2>1
  <2> QED  BY <1>3, <1>12, <1>13, <2>2 DEF Latest
<1>16. LatestInv'
  BY <1>12, <1>15 DEF LatestInv
<1> QED  BY <1>7, <1>8, <1>9, <1>16 DEF CanvasInv

LEMMA LeaveKeeps ==
    ASSUME Patient, CanvasAssumption, CanvasInv, Leave
    PROVE  CanvasInv'
<1>1. CanvasTypes /\ PatienceInv /\ HistoryInv /\ LatestInv
  BY DEF CanvasInv
<1>2. changes' = changes /\ Drawn' = Drawn /\ changes \in Nat
  BY <1>1 DEF Leave, Drawn
<1>7. Shown /\ draft' \in [revision : Drawn, graph : Drawn] \cup {Nothing}
  BY <1>1 DEF Leave, Written
<1>3. CanvasTypes'
  BY <1>1, <1>2, <1>7 DEF Leave, Requests, Forget
<1>4. PatienceInv'
  BY <1>1, <1>2 DEF Leave, Forget
<1>5. HistoryInv'
  <2>1. entries' = <<>> /\ cursor' = 0 /\ trail' = <<Nothing>> /\ Len(entries') = 0 /\ Len(trail') = 1
    BY DEF Leave, Forget
  <2>2. entries' \in Seq(Patches) /\ trail' \in Seq(Graphs \cup {Nothing}) /\ MaxSteps \in Nat
    BY <1>1, <2>1 DEF CanvasAssumption, Drawn
  <2>3. ~Shown'
    BY DEF Leave
  <2> QED  BY <2>1, <2>2, <2>3 DEF HistoryInv
<1>6. ASSUME NEW last \in [Items -> 0..changes], Latest(last) PROVE Latest(last)'
  BY <1>1, <1>2, <1>6 DEF Leave, Latest, Forget, Written
<1> QED  BY <1>1, <1>2, <1>3, <1>4, <1>5, <1>6, LatestHolds DEF CanvasInv, Now

HIDE NothingIsNoGraph DEF CanvasTypes, PatienceInv, graphVars, undoVars, draftVars, counters,
                          Idle, Shown, Released, Careful, NotBusy, NoRequest

LEMMA CanvasStarts == CanvasAssumption /\ CanvasInit => CanvasInv
<1> SUFFICES ASSUME CanvasAssumption, CanvasInit PROVE CanvasInv
  OBVIOUS
<1>1. Start \in Drawn /\ \A i \in Items : Start[i].at = 0 /\ Start[i].by = "base"
  BY DEF CanvasInit, Start, Drawn, Graphs, Records, Record, Connected, Items
<1>2. CanvasTypes
  BY <1>1 DEF CanvasInit, CanvasTypes, Requests, NoRequest
<1>3. PatienceInv
  BY DEF CanvasInit, PatienceInv, NoRequest, Idle, Released
<1>4. entries \in Seq(Patches) /\ trail \in Seq(Graphs \cup {Nothing}) /\ Len(entries) = 0 /\ Len(trail) = 1
  BY DEF CanvasInit
<1>5. HistoryInv
  BY <1>4 DEF CanvasInit, HistoryInv, Shown, CanvasAssumption
<1>6. PICK last : last = [i \in Items |-> 0]
  OBVIOUS
<1>7. last \in [Items -> 0..changes] /\ \A i \in Items : last[i] = 0
  BY <1>6 DEF CanvasInit
<1>8. Latest(last)
  BY <1>1, <1>7 DEF CanvasInit, Latest, Within, UpTo, NoRequest, Shown
<1> QED  BY <1>2, <1>3, <1>5, <1>7, <1>8 DEF CanvasInv, LatestInv

LEMMA CanvasKeeps ==
    Patient /\ CanvasAssumption /\ CanvasInv /\ [CanvasNext]_canvasVars => CanvasInv'
<1> SUFFICES ASSUME Patient, CanvasAssumption, CanvasInv, [CanvasNext]_canvasVars PROVE CanvasInv'
  OBVIOUS
<1>1. CASE UNCHANGED canvasVars
  <2>1. UNCHANGED <<saved, canvas, revision, entries, cursor, trail, dirty, busy, loading, drag, draft,
                    changes>>
    BY <1>1 DEF canvasVars, graphVars, undoVars, draftVars, counters
  <2> QED
    BY <2>1 DEF CanvasInv, CanvasTypes, PatienceInv, HistoryInv, LatestInv, Latest, Drawn, Requests,
            Leads, Recorded, Idle, Shown, Released, Careful
<1>2. CASE CanvasNext
  BY <1>2, LoadStartsKeeps, LoadAnsweredKeeps, LoadRefusedKeeps, GraphShownKeeps,
     LoadEndsKeeps, OutlineFailsKeeps, EditKeeps, PressKeeps, DragKeeps, ReleaseKeeps,
     EscapeKeeps, UndoEditKeeps, RedoEditKeeps, SaveStartsKeeps, ReviewStartsKeeps,
     ServerSavesKeeps, ServerReviewsKeeps, RequestFailsKeeps, SaveReturnsKeeps,
     SaveRefusedKeeps, ReviewReturnsKeeps, ReviewRefusedKeeps, DraftTimerKeeps,
     RestoreDraftKeeps, OtherSavesKeeps, LeaveKeeps
  DEF CanvasNext
<1> QED  BY <1>1, <1>2

LEMMA CanvasHolds == CanvasInv => HistoryFaithful /\ CleanIsSaved /\ (Shown => Connected(canvas))
<1> SUFFICES ASSUME CanvasInv
             PROVE  HistoryFaithful /\ CleanIsSaved /\ (Shown => Connected(canvas))
  OBVIOUS
<1>1. CanvasTypes /\ PatienceInv /\ HistoryInv
  BY DEF CanvasInv
<1>2. ASSUME Settled
      PROVE  Len(trail) = Len(entries) + 1 /\ canvas = trail[cursor + 1] /\ (~dirty => canvas = revision)
  BY <1>1, <1>2 DEF HistoryInv, Settled, Careful, Recorded
<1>3. Shown => Connected(canvas)
  BY <1>1 DEF CanvasTypes, Shown, Drawn
<1> QED  BY <1>2, <1>3 DEF HistoryFaithful, CleanIsSaved

LEMMA SavesAreLatest ==
    ASSUME CanvasAssumption, CanvasInv
    PROVE  SavesNothingOlder
<1> SUFFICES ASSUME ServerSaves, NEW i \in Items, saved[i].by = "other"
             PROVE  saved'[i].at >= saved[i].at
  BY DEF SavesNothingOlder
<1>1. CanvasTypes /\ PatienceInv /\ LatestInv
  BY DEF CanvasInv
<1>2. PICK last \in [Items -> 0..changes] : Latest(last)
  BY <1>1 DEF LatestInv
<1>3. /\ Shown /\ revision = saved /\ saved' = canvas
  BY <1>1 DEF ServerSaves, TakesRevision, PatienceInv, Idle
<1>4. Within(last, saved) /\ Within(last, canvas)
  BY <1>2, <1>3 DEF Latest, Within
<1> QED  BY <1>3, <1>4 DEF Within, UpTo

----------------------------------------------------------------------------
(* Reviews and edits inside a graph.                                       *)

\* A graph has the fields of a generated one.
IsNetwork(g) == g = [f \in Fields |-> g[f]]

\* An edge is one record of its parts, and one that is gone has nothing else.
IsEdge(x) ==
    /\ x = [kind |-> x.kind, wait |-> x.wait, bent |-> x.bent, reviews |-> x.reviews]
    /\ x.kind = "gone" => x = Gone

\* There is a record of what a review was made of, and it says the same as the review.
Recalled(r, past) ==
    /\ r.at \in DOMAIN past
    /\ EdgeOf(r.input) # "C" => past[r.at].ports = r.path[1]
    /\ IF r.decision = "closed"
       THEN past[r.at].edge = Gone
       ELSE /\ past[r.at].edge.kind = "crossing" /\ past[r.at].edge.wait = r.wait
            /\ past[r.at].edge.bent = r.path[2]

\* The only review at its place, of a question about that place.
Single(reviews) == \A r, s \in reviews : r = s

ReviewOf(r, inputs) == r.input \in inputs /\ r.decision \in Alternatives(r.input)

Reviewed(g, past) ==
    /\ IsNetwork(g) /\ g.out \in {0, 1}
    /\ Single(g.ports)
    /\ \A r \in g.ports : ReviewOf(r, {"crossing"}) /\ Recalled(r, past)
    /\ \A e \in Crossings :
          /\ IsEdge(g[e])
          /\ Single(g[e].reviews)
          /\ \A r \in g[e].reviews :
                /\ ReviewOf(r, IF e = "R" THEN {"R", "crossing"} ELSE {e})
                /\ Recalled(r, past)

ReviewsInv ==
    /\ source \in {0, 1} /\ done \in Nat /\ DOMAIN seen \subseteq 1..done
    /\ Reviewed(sketch, seen) /\ Reviewed(network, seen)
    /\ patch = NoPatch \/ patch.given
    /\ Reviewed(Replayed(patch.of, patch), seen)

LEMMA GeneratedIsNetwork ==
    ASSUME NEW out PROVE IsNetwork(Generated(out))
BY DEF IsNetwork, Fields, Generated

\* make_manual_edits and apply_manual_edits: a patch replayed gives what was drawn.
LEMMA PatchReplays ==
    ASSUME NEW g, IsNetwork(g) PROVE Replayed(source, PatchTo(g)) = g
<1>1. ASSUME NEW f \in Fields PROVE Replayed(source, PatchTo(g))[f] = g[f]
  BY DEF Replayed, PatchTo
<1> QED  BY <1>1 DEF IsNetwork, Replayed

LEMMA CrossingFields ==
    /\ Fields = {"out", "separated", "ports"} \cup Crossings
    /\ "out" \notin Crossings /\ "ports" \notin Crossings /\ "separated" \notin Crossings
BY DEF Fields, Generated, Crossings

LEMMA GeneratedReviewed ==
    ASSUME NEW out \in {0, 1}, NEW past PROVE Reviewed(Generated(out), past)
<1>1. IsNetwork(Generated(out))
  BY GeneratedIsNetwork
<1>2. \A e \in Crossings : IsEdge(Generated(out)[e]) /\ Generated(out)[e].reviews = {}
  <2>1. \A e \in Crossings : Generated(out)[e] = Edge("crossing") \/ Generated(out)[e] = Gone
    BY DEF Crossings, Generated
  <2>2. IsEdge(Edge("crossing")) /\ IsEdge(Gone) /\ Edge("crossing").reviews = {} /\ Gone.reviews = {}
    BY DEF IsEdge, Edge, Gone
  <2> QED  BY <2>1, <2>2
<1>3. Generated(out).ports = {} /\ Generated(out).out = out
  BY DEF Generated
<1> DEFINE g == Generated(out)
<1> HIDE DEF g
<1>4. IsNetwork(g) /\ g.out = out /\ g.ports = {}
      /\ \A e \in Crossings : IsEdge(g[e]) /\ g[e].reviews = {}
  BY <1>1, <1>2, <1>3 DEF g
<1>5. Reviewed(g, past)
  BY <1>4 DEF Reviewed, Single
<1> QED  BY <1>5 DEF g

LEMMA PastGrows ==
    ASSUME NEW g, NEW past, Reviewed(g, past),
           NEW more, \A n \in DOMAIN past : n \in DOMAIN more /\ more[n] = past[n]
    PROVE  Reviewed(g, more)
<1>1. ASSUME NEW r, Recalled(r, past) PROVE Recalled(r, more)
  BY <1>1 DEF Recalled
<1> QED  BY <1>1 DEF Reviewed

\* Whatever is written at an edge, the rest of the graph stays.
LEMMA EdgeReplaced ==
    ASSUME NEW g, NEW past, Reviewed(g, past), NEW e \in Crossings,
           NEW x, IsEdge(x), Single(x.reviews),
           \A r \in x.reviews :
              ReviewOf(r, IF e = "R" THEN {"R", "crossing"} ELSE {e}) /\ Recalled(r, past)
    PROVE  Reviewed([g EXCEPT ![e] = x], past)
<1> DEFINE h == [g EXCEPT ![e] = x]
<1>1. DOMAIN g = Fields
  BY DEF Reviewed, IsNetwork
<1>2. h[e] = x /\ \A f \in Fields \ {e} : h[f] = g[f]
  BY <1>1, CrossingFields
<1>3. IsNetwork(h)
  BY <1>1 DEF IsNetwork
<1>4. h.out = g.out /\ h.ports = g.ports
  BY <1>2, CrossingFields
<1>5. \A c \in Crossings \ {e} : h[c] = g[c]
  BY <1>2, CrossingFields
<1> HIDE DEF h
<1>6. ASSUME NEW c \in Crossings
      PROVE  /\ IsEdge(h[c]) /\ Single(h[c].reviews)
             /\ \A r \in h[c].reviews :
                   ReviewOf(r, IF c = "R" THEN {"R", "crossing"} ELSE {c}) /\ Recalled(r, past)
  <2>1. CASE c = e
    BY <1>2, <2>1
  <2>2. CASE c # e
    BY <1>5, <2>2 DEF Reviewed
  <2> QED  BY <2>1, <2>2
<1>7. Reviewed(h, past)
  BY <1>3, <1>4, <1>6 DEF Reviewed
<1> QED  BY <1>7 DEF h

\* What is edited by hand at an edge keeps its review.
LEMMA EdgeEdited ==
    ASSUME NEW g, NEW past, Reviewed(g, past), NEW e \in Crossings,
           NEW x, IsEdge(x), x.reviews \in {g[e].reviews, {}}
    PROVE  Reviewed([g EXCEPT ![e] = x], past)
<1>1. Single(x.reviews)
  BY DEF Reviewed, Single
<1>2. \A r \in x.reviews :
         ReviewOf(r, IF e = "R" THEN {"R", "crossing"} ELSE {e}) /\ Recalled(r, past)
  BY DEF Reviewed
<1> QED  BY <1>1, <1>2, EdgeReplaced

LEMMA FieldReplaced ==
    ASSUME NEW g, NEW past, Reviewed(g, past), NEW v
    PROVE  /\ v \in {0, 1} => Reviewed([g EXCEPT !.out = v], past)
           /\ Reviewed([g EXCEPT !.separated = v], past)
           /\ (Single(v) /\ \A r \in v : ReviewOf(r, {"crossing"}) /\ Recalled(r, past))
              => Reviewed([g EXCEPT !.ports = v], past)
<1>1. DOMAIN g = Fields
  BY DEF Reviewed, IsNetwork
<1>2. ASSUME NEW f \in {"out", "separated", "ports"}
      PROVE  /\ IsNetwork([g EXCEPT ![f] = v])
             /\ [g EXCEPT ![f] = v][f] = v
             /\ \A k \in Fields \ {f} : [g EXCEPT ![f] = v][k] = g[k]
             /\ \A e \in Crossings : [g EXCEPT ![f] = v][e] = g[e]
  BY <1>1, CrossingFields DEF IsNetwork
<1>3. v \in {0, 1} => Reviewed([g EXCEPT !.out = v], past)
  <2> DEFINE h == [g EXCEPT !.out = v]
  <2>1. IsNetwork(h) /\ h.out = v /\ h.ports = g.ports /\ \A e \in Crossings : h[e] = g[e]
    BY <1>2, CrossingFields
  <2> HIDE DEF h
  <2>2. v \in {0, 1} => Reviewed(h, past)
    BY <2>1 DEF Reviewed
  <2> QED  BY <2>2 DEF h
<1>4. Reviewed([g EXCEPT !.separated = v], past)
  <2> DEFINE h == [g EXCEPT !.separated = v]
  <2>1. IsNetwork(h) /\ h.out = g.out /\ h.ports = g.ports /\ \A e \in Crossings : h[e] = g[e]
    BY <1>2, CrossingFields
  <2> HIDE DEF h
  <2>2. Reviewed(h, past)
    BY <2>1 DEF Reviewed
  <2> QED  BY <2>2 DEF h
<1>5. (Single(v) /\ \A r \in v : ReviewOf(r, {"crossing"}) /\ Recalled(r, past))
      => Reviewed([g EXCEPT !.ports = v], past)
  <2> DEFINE h == [g EXCEPT !.ports = v]
  <2>1. IsNetwork(h) /\ h.out = g.out /\ h.ports = v /\ \A e \in Crossings : h[e] = g[e]
    BY <1>2, CrossingFields
  <2> HIDE DEF h
  <2>2. (Single(v) /\ \A r \in v : ReviewOf(r, {"crossing"}) /\ Recalled(r, past))
        => Reviewed(h, past)
    BY <2>1 DEF Reviewed
  <2> QED  BY <2>2 DEF h
<1> QED  BY <1>3, <1>4, <1>5

\* What a decision writes: a review of what is there, and the crossing it leaves.
Crossed(r) == [kind |-> "crossing", wait |-> r.wait, bent |-> r.path[2], reviews |-> {r}]

AnswerSays(g, i, decision, wait, r) ==
    /\ r.input = i /\ r.decision = decision /\ r.at = done + 1 /\ r.wait = wait
    /\ r.path = <<r.path[1], r.path[2]>>
    /\ r.path[1] = (IF EdgeOf(i) = "C" THEN 0 ELSE g.out)
    /\ decision # "closed" /\ Live(g, EdgeOf(i)) => r.path[2] = g[EdgeOf(i)].bent
    /\ decision = "closed" \/ ~Live(g, EdgeOf(i)) => r.path[2] = FALSE

AnswerWrites(g, i, decision, after, r) ==
    \/ /\ decision = "set_wait"
       /\ after = [g EXCEPT ![EdgeOf(i)] = Crossed(r)]
    \/ /\ decision = "open"
       /\ after = [[g EXCEPT ![EdgeOf(i)] = Crossed(r)] EXCEPT !.ports = {r}]
    \/ /\ decision = "closed"
       /\ after = [[g EXCEPT ![EdgeOf(i)] = Gone] EXCEPT !.ports = {r}]

Answer(g, i, decision, wait, after, r) ==
    AnswerSays(g, i, decision, wait, r) /\ AnswerWrites(g, i, decision, after, r)

LEMMA AskedOf ==
    ASSUME NEW g, NEW i \in Asked(g)
    PROVE  /\ EdgeOf(i) \in Crossings
           /\ i = "crossing" =>
                 AsksCrossing(g) /\ EdgeOf(i) = "R" /\ Alternatives(i) = {"open", "closed"}
           /\ i # "crossing" =>
                 /\ i \in Crossings /\ AsksWait(g, i)
                 /\ EdgeOf(i) = i /\ Alternatives(i) = {"set_wait"}
<1>1. \/ i = "crossing" /\ AsksCrossing(g)
      \/ i \in Crossings /\ AsksWait(g, i)
  BY DEF Asked
<1>2. "crossing" \notin Crossings /\ "R" \in Crossings
  BY DEF Crossings
<1> QED  BY <1>1, <1>2 DEF EdgeOf, Alternatives

\* What of an edge is written over: kind, waiting time or line; the review stays.
LEMMA EdgeChanged ==
    ASSUME NEW x, IsEdge(x), NEW v
    PROVE  /\ v # "gone" => IsEdge([x EXCEPT !.kind = v])
           /\ x.kind # "gone" => IsEdge([x EXCEPT !.wait = v]) /\ IsEdge([x EXCEPT !.bent = v])
           /\ [x EXCEPT !.kind = v].kind = v
           /\ [x EXCEPT !.kind = v].reviews = x.reviews
           /\ [x EXCEPT !.wait = v].reviews = x.reviews
           /\ [x EXCEPT !.bent = v].reviews = x.reviews
<1>1. DOMAIN x = {"kind", "wait", "bent", "reviews"} /\ x = [f \in DOMAIN x |-> x[f]]
  BY DEF IsEdge
<1>2. ASSUME NEW y, DOMAIN y = DOMAIN x, y = [f \in DOMAIN y |-> y[f]], y.kind # "gone"
      PROVE  IsEdge(y)
  <2>1. y = [kind |-> y.kind, wait |-> y.wait, bent |-> y.bent, reviews |-> y.reviews]
    BY <1>1, <1>2
  <2> QED  BY <1>2, <2>1 DEF IsEdge
<1>3. v # "gone" => IsEdge([x EXCEPT !.kind = v])
  BY <1>1, <1>2
<1>4. x.kind # "gone" => IsEdge([x EXCEPT !.wait = v]) /\ IsEdge([x EXCEPT !.bent = v])
  BY <1>1, <1>2
<1>5. /\ [x EXCEPT !.kind = v].kind = v /\ [x EXCEPT !.kind = v].reviews = x.reviews
      /\ [x EXCEPT !.wait = v].reviews = x.reviews /\ [x EXCEPT !.bent = v].reviews = x.reviews
  BY <1>1
<1> QED  BY <1>3, <1>4, <1>5

LEMMA EdgeAnswered ==
    ASSUME NEW x, IsEdge(x), NEW v, NEW w
    PROVE  [[x EXCEPT !.wait = v] EXCEPT !.reviews = w]
              = [kind |-> x.kind, wait |-> v, bent |-> x.bent, reviews |-> w]
<1> DEFINE y == [x EXCEPT !.wait = v]
<1>1. /\ DOMAIN y = {"kind", "wait", "bent", "reviews"} /\ y = [f \in DOMAIN y |-> y[f]]
      /\ y.wait = v /\ \A f \in DOMAIN y \ {"wait"} : y[f] = x[f]
  BY DEF IsEdge
<1> HIDE DEF y
<1>2. [y EXCEPT !.reviews = w] = [kind |-> x.kind, wait |-> v, bent |-> x.bent, reviews |-> w]
  BY <1>1
<1> QED  BY <1>2 DEF y

LEMMA Answers ==
    ASSUME NEW g, NEW past, Reviewed(g, past), NEW i \in Asked(g), Resolvable(g, i),
           NEW decision \in Alternatives(i), NEW wait
    PROVE  \E r : Answer(g, i, decision, wait, Applied(g, i, decision, wait), r)
<1> DEFINE e == EdgeOf(i)
           path == IF i # "crossing" \/ (decision = "open" /\ Live(g, e))
                   THEN Path(g, e) ELSE Straight(g)
           r == [input |-> i, decision |-> decision, at |-> done + 1, wait |-> wait, path |-> path]
           after == Applied(g, i, decision, wait)
<1>1. /\ e \in Crossings /\ DOMAIN g = Fields /\ e \in Fields
      /\ IsEdge(g[e]) /\ DOMAIN g[e] = {"kind", "wait", "bent", "reviews"}
  <2>1. e \in Crossings /\ IsNetwork(g) /\ IsEdge(g[e])
    BY AskedOf DEF Reviewed
  <2>2. DOMAIN g[e] = {"kind", "wait", "bent", "reviews"}
    BY <2>1 DEF IsEdge
  <2> QED  BY <2>1, <2>2, CrossingFields DEF IsNetwork
<1>2. /\ i = "crossing" => e = "R" /\ decision \in {"open", "closed"}
      /\ i # "crossing" => e = i /\ decision = "set_wait" /\ Walks(g, e) /\ Live(g, e)
  BY AskedOf DEF AsksWait, Walks, Live
<1>3. /\ path[1] = (IF e = "C" THEN 0 ELSE g.out) /\ path = <<path[1], path[2]>>
      /\ decision # "closed" /\ Live(g, e) => path[2] = g[e].bent
      /\ decision = "closed" \/ ~Live(g, e) => path[2] = FALSE
  BY <1>2 DEF Path, Straight
<1>4. /\ r.input = i /\ r.decision = decision /\ r.at = done + 1 /\ r.wait = wait /\ r.path = path
  OBVIOUS
<1>5. ASSUME decision = "set_wait"
      PROVE  after = [g EXCEPT ![e] = Crossed(r)]
  <2>1. path[2] = g[e].bent /\ g[e].kind = "crossing"
    BY <1>2, <1>3, <1>5 DEF Walks
  <2>2. after = [g EXCEPT ![e].wait = wait, ![e].reviews = {r}]
    BY <1>5 DEF Applied
  <2> HIDE DEF r, path
  <2>3. [[g[e] EXCEPT !.wait = wait] EXCEPT !.reviews = {r}]
            = Crossed(r)
    <3> HIDE DEF e
    <3>1. \A v, w : [[g[e] EXCEPT !.wait = v] EXCEPT !.reviews = w]
             = [kind |-> g[e].kind, wait |-> v, bent |-> g[e].bent, reviews |-> w]
      BY <1>1, EdgeAnswered
    <3> QED  BY <1>4, <2>1, <3>1 DEF Crossed
  <2>4. [g EXCEPT ![e].wait = wait, ![e].reviews = {r}]
            = [g EXCEPT ![e] = [[g[e] EXCEPT !.wait = wait] EXCEPT !.reviews = {r}]]
    <3> DEFINE x == [g[e] EXCEPT !.wait = wait]
               h == [g EXCEPT ![e] = x]
    <3>1. h[e] = x /\ \A y : [h EXCEPT ![e] = y] = [g EXCEPT ![e] = y]
      BY <1>1
    <3>2. [h EXCEPT ![e].reviews = {r}] = [h EXCEPT ![e] = [h[e] EXCEPT !.reviews = {r}]]
      OBVIOUS
    <3> QED  BY <3>1, <3>2
  <2> QED  BY <2>2, <2>3, <2>4
<1>6. ASSUME decision = "open"
      PROVE  after = [[g EXCEPT ![e] = Crossed(r)] EXCEPT !.ports = {r}]
  <2>1. after = [g EXCEPT ![e] = [kind |-> "crossing", wait |-> wait, bent |-> path[2],
                                  reviews |-> {r}], !.ports = {r}]
    BY <1>6, Zenon DEF Applied
  <2>2. [kind |-> "crossing", wait |-> wait, bent |-> path[2], reviews |-> {r}] = Crossed(r)
    BY <1>4 DEF Crossed
  <2> QED  BY <2>1, <2>2, Zenon
<1>7. ASSUME decision = "closed"
      PROVE  after = [[g EXCEPT ![e] = Gone] EXCEPT !.ports = {r}]
  BY <1>7, Zenon DEF Applied
<1> HIDE DEF r, path, after
<1>8. AnswerSays(g, i, decision, wait, r)
  BY <1>3, <1>4 DEF AnswerSays, e
<1>9. AnswerWrites(g, i, decision, after, r)
  BY <1>2, <1>5, <1>6, <1>7, Zenon DEF AnswerWrites, e
<1> QED  BY <1>8, <1>9 DEF Answer, after

\* A decision writes its crossing and, for the ports, its review; all else stays.
LEMMA AnswerParts ==
    ASSUME NEW g, NEW past, Reviewed(g, past), NEW i \in Asked(g), NEW decision \in Alternatives(i),
           NEW wait, NEW after, NEW r, Answer(g, i, decision, wait, after, r)
    PROVE  /\ after.out = g.out /\ after.separated = g.separated
           /\ i = "crossing" => after.ports = {r}
           /\ i # "crossing" => after.ports = g.ports
           /\ decision = "closed" => after[EdgeOf(i)] = Gone
           /\ decision # "closed" => after[EdgeOf(i)] = Crossed(r)
           /\ \A c \in Crossings \ {EdgeOf(i)} : after[c] = g[c]
<1> DEFINE e == EdgeOf(i)
<1>1. /\ e \in Crossings /\ DOMAIN g = {"out", "separated", "ports"} \cup Crossings
      /\ "out" \notin Crossings /\ "ports" \notin Crossings /\ "separated" \notin Crossings
      /\ i = "crossing" => decision \in {"open", "closed"}
      /\ i # "crossing" => decision = "set_wait"
  BY AskedOf, CrossingFields DEF Reviewed, IsNetwork
<1> HIDE DEF e
<1>2. ASSUME NEW x, NEW h, h = [g EXCEPT ![e] = x]
      PROVE  /\ DOMAIN h = DOMAIN g /\ h[e] = x
             /\ h.out = g.out /\ h.separated = g.separated /\ h.ports = g.ports
             /\ \A c \in Crossings \ {e} : h[c] = g[c]
  BY <1>1, <1>2
<1>3. CASE decision = "set_wait"
  <2>1. after = [g EXCEPT ![e] = Crossed(r)]
    BY <1>3, Zenon DEF Answer, AnswerWrites, e
  <2>2. /\ after[e] = Crossed(r) /\ after.out = g.out /\ after.separated = g.separated
        /\ after.ports = g.ports /\ \A c \in Crossings \ {e} : after[c] = g[c]
    BY <1>2, <2>1
  <2> QED  BY <1>1, <1>3, <2>2 DEF e
<1>4. CASE decision = "open"
  <2> DEFINE h == [g EXCEPT ![e] = Crossed(r)]
  <2>1. after = [h EXCEPT !.ports = {r}]
    BY <1>4, Zenon DEF Answer, AnswerWrites, e
  <2>2. /\ DOMAIN h = DOMAIN g /\ h[e] = Crossed(r) /\ h.out = g.out /\ h.separated = g.separated
        /\ \A c \in Crossings \ {e} : h[c] = g[c]
    BY <1>1
  <2> HIDE DEF h
  <2>3. /\ after[e] = Crossed(r) /\ after.out = g.out /\ after.separated = g.separated
        /\ after.ports = {r} /\ \A c \in Crossings \ {e} : after[c] = g[c]
    BY <1>1, <2>1, <2>2
  <2> QED  BY <1>1, <1>4, <2>3 DEF e
<1>5. CASE decision = "closed"
  <2> DEFINE h == [g EXCEPT ![e] = Gone]
  <2>1. after = [h EXCEPT !.ports = {r}]
    BY <1>5, Zenon DEF Answer, AnswerWrites, e
  <2>2. /\ DOMAIN h = DOMAIN g /\ h[e] = Gone /\ h.out = g.out /\ h.separated = g.separated
        /\ \A c \in Crossings \ {e} : h[c] = g[c]
    BY <1>1
  <2> HIDE DEF h
  <2>3. /\ after[e] = Gone /\ after.out = g.out /\ after.separated = g.separated
        /\ after.ports = {r} /\ \A c \in Crossings \ {e} : after[c] = g[c]
    BY <1>1, <2>1, <2>2
  <2> QED  BY <1>1, <1>5, <2>3 DEF e
<1> QED  BY <1>1, <1>3, <1>4, <1>5

\* The records of what reviews were made of, and one more.
Remembered(past, n, x) ==
    [k \in DOMAIN past \cup {n} |-> IF k \in DOMAIN past THEN past[k] ELSE x]

\* A decision leaves reviews that say what they were made of.
LEMMA AppliedReviewed ==
    ASSUME NEW g, NEW past, Reviewed(g, past), done \in Nat, done + 1 \notin DOMAIN past,
           NEW i \in Asked(g), Resolvable(g, i),
           NEW decision \in Alternatives(i), NEW wait \in Waits
    PROVE  LET after == Applied(g, i, decision, wait)
           IN Reviewed(after, Remembered(past, done + 1,
                                         [edge |-> after[EdgeOf(i)], ports |-> after.out]))
<1> DEFINE e == EdgeOf(i)
           after == Applied(g, i, decision, wait)
           more == Remembered(past, done + 1, [edge |-> after[e], ports |-> after.out])
<1>1. PICK r : Answer(g, i, decision, wait, after, r)
  BY Answers
<1>2. /\ i = "crossing" => e = "R" /\ decision \in {"open", "closed"}
      /\ i # "crossing" => e = i /\ decision = "set_wait" /\ i \in Crossings
      /\ e \in Crossings
  BY AskedOf
<1>3. /\ decision = "closed" => after[e] = Gone
      /\ decision # "closed" => after[e] = Crossed(r)
      /\ after.out = g.out
  BY <1>1, AnswerParts
<1>4. /\ done + 1 \in DOMAIN more /\ more[done + 1] = [edge |-> after[e], ports |-> after.out]
      /\ \A n \in DOMAIN past : n \in DOMAIN more /\ more[n] = past[n]
  BY DEF Remembered
<1> HIDE DEF more, after, e
<1>5. Recalled(r, more) /\ r.input = i /\ r.decision = decision
  <2>1. /\ r.input = i /\ r.decision = decision /\ r.at = done + 1 /\ r.wait = wait
        /\ r.path[1] = (IF e = "C" THEN 0 ELSE g.out)
    BY <1>1 DEF Answer, AnswerSays, e
  <2>2. more[r.at].edge = after[e] /\ more[r.at].ports = g.out /\ EdgeOf(r.input) = e
    BY <1>3, <1>4, <2>1 DEF e
  <2>3. decision # "closed" => /\ more[r.at].edge.kind = "crossing" /\ more[r.at].edge.wait = r.wait
                               /\ more[r.at].edge.bent = r.path[2]
    BY <1>3, <2>1, <2>2 DEF Crossed
  <2> QED  BY <1>3, <1>4, <2>1, <2>2, <2>3 DEF Recalled
<1>6. Reviewed(g, more)
  BY <1>4, PastGrows
<1>7. /\ IsEdge(Crossed(r)) /\ IsEdge(Gone) /\ Gone.reviews = {} /\ Single({r}) /\ Single({})
      /\ Crossed(r).reviews = {r}
  BY DEF IsEdge, Crossed, Gone, Edge, Single
<1>8. ReviewOf(r, IF e = "R" THEN {"R", "crossing"} ELSE {e})
  BY <1>2, <1>5 DEF ReviewOf
<1>9. Reviewed([g EXCEPT ![e] = Crossed(r)], more) /\ Reviewed([g EXCEPT ![e] = Gone], more)
  <2>1. \A q \in Crossed(r).reviews :
           ReviewOf(q, IF e = "R" THEN {"R", "crossing"} ELSE {e}) /\ Recalled(q, more)
    BY <1>5, <1>7, <1>8
  <2>2. Single(Crossed(r).reviews) /\ Single(Gone.reviews)
    BY <1>7
  <2> QED  BY <1>2, <1>6, <1>7, <2>1, <2>2, EdgeReplaced
<1>10. i = "crossing" => \A h : Reviewed(h, more) => Reviewed([h EXCEPT !.ports = {r}], more)
  <2>1. i = "crossing" => ReviewOf(r, {"crossing"})
    BY <1>5 DEF ReviewOf
  <2> QED  BY <1>5, <1>7, <2>1, FieldReplaced
<1>11. Reviewed(after, more)
  <2>1. CASE decision = "set_wait"
    BY <1>1, <1>9, <2>1, Zenon DEF Answer, AnswerWrites, e
  <2>2. CASE decision = "open"
    BY <1>1, <1>2, <1>9, <1>10, <2>2, Zenon DEF Answer, AnswerWrites, e
  <2>3. CASE decision = "closed"
    BY <1>1, <1>2, <1>9, <1>10, <2>3, Zenon DEF Answer, AnswerWrites, e
  <2> QED  BY <1>2, <2>1, <2>2, <2>3
<1> QED  BY <1>11 DEF more, after, e

LEMMA EdgeUpdates ==
    ASSUME NEW g, NEW e \in DOMAIN g, NEW v, NEW w
    PROVE  /\ [g EXCEPT ![e].kind = v] = [g EXCEPT ![e] = [g[e] EXCEPT !.kind = v]]
           /\ [g EXCEPT ![e].wait = v] = [g EXCEPT ![e] = [g[e] EXCEPT !.wait = v]]
           /\ [g EXCEPT ![e].bent = v] = [g EXCEPT ![e] = [g[e] EXCEPT !.bent = v]]
           /\ [g EXCEPT ![e].kind = v, ![e].wait = w]
                 = [g EXCEPT ![e] = [[g[e] EXCEPT !.kind = v] EXCEPT !.wait = w]]
<1>1. [g EXCEPT ![e].kind = v, ![e].wait = w]
         = [g EXCEPT ![e] = [[g[e] EXCEPT !.kind = v] EXCEPT !.wait = w]]
  <2> DEFINE x == [g[e] EXCEPT !.kind = v]
             h == [g EXCEPT ![e] = x]
  <2>1. h[e] = x /\ \A y : [h EXCEPT ![e] = y] = [g EXCEPT ![e] = y]
    OBVIOUS
  <2>2. [h EXCEPT ![e].wait = w] = [h EXCEPT ![e] = [h[e] EXCEPT !.wait = w]]
    OBVIOUS
  <2> QED  BY <2>1, <2>2
<1> QED  BY <1>1

\* Nothing the user does by hand makes a review say something else.
LEMMA RedrawnReviewed ==
    ASSUME NEW g, NEW past, Reviewed(g, past), NEW h \in Redrawn(g)
    PROVE  Reviewed(h, past)
<1>1. ASSUME NEW e \in Crossings
      PROVE  e \in DOMAIN g /\ IsEdge(g[e])
  BY <1>1, CrossingFields DEF Reviewed, IsNetwork
<1>2. ASSUME NEW e \in Crossings, NEW x, IsEdge(x), x.reviews = g[e].reviews, h = [g EXCEPT ![e] = x]
      PROVE  Reviewed(h, past)
  BY <1>2, EdgeEdited
<1>3. CASE h \in {[g EXCEPT !.out = 1 - g.out], [g EXCEPT !.separated = FALSE]}
  <2>1. 1 - g.out \in {0, 1}
    BY DEF Reviewed
  <2>2. Reviewed([g EXCEPT !.out = 1 - g.out], past) /\ Reviewed([g EXCEPT !.separated = FALSE], past)
    BY <2>1, FieldReplaced, Zenon
  <2> QED  BY <1>3, <2>2, Zenon
<1>4. CASE h \in {[g EXCEPT ![e] = Gone] : e \in {c \in Crossings : Live(g, c)}}
  <2>1. PICK e \in Crossings : h = [g EXCEPT ![e] = Gone]
    BY <1>4, Zenon
  <2>2. IsEdge(Gone) /\ Gone.reviews = {}
    BY DEF IsEdge, Gone, Edge
  <2>3. Reviewed([g EXCEPT ![e] = Gone], past)
    BY <2>2, EdgeEdited
  <2> QED  BY <2>1, <2>3, Zenon
<1>5. CASE h \in {[g EXCEPT ![e].kind = "walkway", ![e].wait = DefaultWait] :
                      e \in {c \in {"C", "R"} : Walks(g, c)}}
  <2>1. PICK e \in Crossings : h = [g EXCEPT ![e].kind = "walkway", ![e].wait = DefaultWait]
    BY <1>5, Zenon DEF Crossings
  <2>2. h = [g EXCEPT ![e] = [[g[e] EXCEPT !.kind = "walkway"] EXCEPT !.wait = DefaultWait]]
    BY <1>1, <2>1, EdgeUpdates
  <2> DEFINE y == [g[e] EXCEPT !.kind = "walkway"]
  <2>3. IsEdge(y) /\ y.kind = "walkway" /\ y.reviews = g[e].reviews
    BY <1>1, EdgeChanged
  <2> HIDE DEF y
  <2>4. /\ IsEdge([y EXCEPT !.wait = DefaultWait])
        /\ [y EXCEPT !.wait = DefaultWait].reviews = y.reviews
    BY <2>3, EdgeChanged
  <2> QED  BY <1>2, <2>2, <2>3, <2>4 DEF y
<1>6. CASE h \in {[g EXCEPT ![e].kind = "crossing"] :
                      e \in {c \in {"C", "R"} : g[c].kind = "walkway"}}
  <2>1. PICK e \in Crossings : h = [g EXCEPT ![e].kind = "crossing"]
    BY <1>6, Zenon DEF Crossings
  <2>2. h = [g EXCEPT ![e] = [g[e] EXCEPT !.kind = "crossing"]]
    BY <1>1, <2>1, EdgeUpdates
  <2>3. /\ IsEdge([g[e] EXCEPT !.kind = "crossing"])
        /\ [g[e] EXCEPT !.kind = "crossing"].reviews = g[e].reviews
    BY <1>1, EdgeChanged
  <2> QED  BY <1>2, <2>2, <2>3
<1>7. CASE h \in {[g EXCEPT ![e].wait = w] : e \in {c \in Crossings : Walks(g, c)}, w \in Waits}
  <2>1. PICK e \in {c \in Crossings : Walks(g, c)}, w \in Waits : h = [g EXCEPT ![e].wait = w]
    BY <1>7
  <2>2. h = [g EXCEPT ![e] = [g[e] EXCEPT !.wait = w]]
    BY <1>1, <2>1, EdgeUpdates
  <2>3. g[e].kind # "gone"
    BY DEF Walks
  <2>4. IsEdge([g[e] EXCEPT !.wait = w]) /\ [g[e] EXCEPT !.wait = w].reviews = g[e].reviews
    BY <1>1, <2>3, EdgeChanged
  <2> QED  BY <1>2, <2>2, <2>4
<1>8. CASE h \in {[g EXCEPT ![e].bent = ~g[e].bent] : e \in {c \in {"C", "R"} : Live(g, c)}}
  <2>1. PICK e \in {c \in {"C", "R"} : Live(g, c)} : h = [g EXCEPT ![e].bent = ~g[e].bent]
    BY <1>8, Zenon
  <2>2. e \in Crossings /\ g[e].kind # "gone"
    BY DEF Crossings, Live
  <2> DEFINE b == ~g[e].bent
  <2> HIDE DEF b
  <2>3. h = [g EXCEPT ![e].bent = b]
    BY <2>1, Zenon DEF b
  <2>4. h = [g EXCEPT ![e] = [g[e] EXCEPT !.bent = b]]
    BY <1>1, <2>2, <2>3, EdgeUpdates
  <2>5. IsEdge([g[e] EXCEPT !.bent = b]) /\ [g[e] EXCEPT !.bent = b].reviews = g[e].reviews
    BY <1>1, <2>2, EdgeChanged
  <2> QED  BY <1>2, <2>2, <2>4, <2>5
<1>9. CASE h \in {k \in {[g EXCEPT !.X = Edge("crossing")]} : ~Live(g, "X")}
  <2>1. h = [g EXCEPT !["X"] = Edge("crossing")]
    BY <1>9, Zenon
  <2>2. IsEdge(Edge("crossing")) /\ Edge("crossing").reviews = {} /\ "X" \in Crossings
    BY DEF IsEdge, Edge, Crossings
  <2>3. Reviewed([g EXCEPT !["X"] = Edge("crossing")], past)
    BY <2>2, EdgeEdited
  <2> QED  BY <2>1, <2>3, Zenon
<1> QED  BY <1>3, <1>4, <1>5, <1>6, <1>7, <1>8, <1>9 DEF Redrawn

LEMMA NothingReplayed ==
    ASSUME NEW out PROVE Replayed(out, NoPatch) = Generated(out)
<1>1. IsNetwork(Generated(out))
  BY GeneratedIsNetwork
<1> QED  BY <1>1 DEF Replayed, NoPatch, IsNetwork

LEMMA ReviewsStart == RefinementInit => ReviewsInv
<1> SUFFICES ASSUME RefinementInit PROVE ReviewsInv
  OBVIOUS
<1>1. Reviewed(Generated(0), seen)
  BY GeneratedReviewed
<1>2. Replayed(0, NoPatch) = Generated(0)
  BY NothingReplayed
<1>3. source \in {0, 1} /\ done \in Nat /\ DOMAIN seen \subseteq 1..done
  BY DEF RefinementInit
<1>4. Reviewed(sketch, seen) /\ Reviewed(network, seen)
  BY <1>1 DEF RefinementInit
<1>5. patch = NoPatch /\ Reviewed(Replayed(patch.of, patch), seen)
  BY <1>1, <1>2 DEF RefinementInit, NoPatch
<1> QED  BY <1>3, <1>4, <1>5 DEF ReviewsInv

LEMMA ReviewsKeep == ReviewsInv /\ [RefinementNext]_refinementVars => ReviewsInv'
<1> SUFFICES ASSUME ReviewsInv, [RefinementNext]_refinementVars PROVE ReviewsInv'
  OBVIOUS
<1>1. /\ source \in {0, 1} /\ done \in Nat /\ DOMAIN seen \subseteq 1..done
      /\ Reviewed(sketch, seen) /\ Reviewed(network, seen)
      /\ patch = NoPatch \/ patch.given
      /\ Reviewed(Replayed(patch.of, patch), seen)
  BY DEF ReviewsInv
<1>2. CASE Decide
  <2>0. PICK i \in {j \in Asked(sketch) : Resolvable(sketch, j)} :
           \E decision \in Alternatives(i), wait \in Waits :
              /\ sketch' = Applied(sketch, i, decision, wait)
              /\ seen' = Remembered(seen, done + 1,
                                    [edge |-> sketch'[EdgeOf(i)], ports |-> sketch'.out])
    BY <1>2 DEF Decide, Did, Remembered
  <2>1. PICK decision \in Alternatives(i), wait \in Waits :
           /\ sketch' = Applied(sketch, i, decision, wait)
           /\ seen' = Remembered(seen, done + 1,
                                 [edge |-> sketch'[EdgeOf(i)], ports |-> sketch'.out])
    BY <2>0
  <2>2. done + 1 \notin DOMAIN seen
    BY <1>1
  <2>3. Reviewed(sketch', seen')
    BY <1>1, <2>1, <2>2, AppliedReviewed
  <2>4. \A n \in DOMAIN seen : n \in DOMAIN seen' /\ seen'[n] = seen[n]
    BY <2>1 DEF Remembered
  <2>5. Reviewed(network, seen') /\ Reviewed(Replayed(patch.of, patch), seen')
    BY <1>1, <2>4, PastGrows
  <2>6. DOMAIN seen' \subseteq 1..done'
    BY <1>1, <1>2, <2>1 DEF Decide, Did, Remembered
  <2>7. done' \in Nat /\ UNCHANGED <<source, patch, network>>
    BY <1>1, <1>2 DEF Decide, Did
  <2>8. Replayed(patch.of, patch)' = Replayed(patch.of, patch)
    BY <2>7 DEF Replayed
  <2> QED  BY <1>1, <2>3, <2>5, <2>6, <2>7, <2>8 DEF ReviewsInv
<1>3. CASE Redraw
  <2>1. Reviewed(sketch', seen)
    BY <1>1, <1>3, RedrawnReviewed DEF Redraw
  <2>2. done' = done + 1 /\ UNCHANGED <<source, patch, network, seen>>
    BY <1>3 DEF Redraw, Did
  <2> QED  BY <1>1, <2>1, <2>2 DEF ReviewsInv
<1>4. CASE SaveSketch
  <2>1. Replayed(source, PatchTo(sketch)) = sketch
    BY <1>1, PatchReplays DEF Reviewed
  <2>2. PatchTo(sketch).of = source /\ PatchTo(sketch).given
    BY DEF PatchTo
  <2>3. /\ patch' = PatchTo(sketch) /\ network' = Replayed(source, patch') /\ sketch' = network'
        /\ UNCHANGED <<source, done, seen>>
    BY <1>4 DEF SaveSketch
  <2>4. network' = sketch /\ sketch' = sketch /\ Replayed(patch'.of, patch') = sketch
    BY <2>1, <2>2, <2>3
  <2> QED  BY <1>1, <2>2, <2>3, <2>4 DEF ReviewsInv
<1>5. CASE Reload
  BY <1>1, <1>5 DEF Reload, ReviewsInv
<1>6. CASE SourceChanges
  BY <1>1, <1>6 DEF SourceChanges, Did, ReviewsInv
<1>7. CASE Export
  <2>1. Reviewed(Replayed(source, patch), seen)
    <3>1. CASE patch = NoPatch
      BY <1>1, <3>1, NothingReplayed, GeneratedReviewed
    <3>2. CASE patch # NoPatch
      BY <1>1, <1>7, <3>2 DEF Export, Fits
    <3> QED  BY <3>1, <3>2
  <2>2. network' = Replayed(source, patch) /\ UNCHANGED <<source, patch, sketch, done, seen>>
    BY <1>7 DEF Export
  <2> QED  BY <1>1, <2>1, <2>2 DEF ReviewsInv
<1>8. CASE UNCHANGED refinementVars
  BY <1>1, <1>8 DEF refinementVars, ReviewsInv
<1> QED  BY <1>2, <1>3, <1>4, <1>5, <1>6, <1>7, <1>8 DEF RefinementNext

LEMMA LastReviewIsOne ==
    ASSUME NEW g, NEW past, Reviewed(g, past), NEW i \in Asked(g)
    PROVE  /\ Single(LastReview(g, i))
           /\ \A r \in LastReview(g, i) :
                 r.input = i /\ r.decision \in Alternatives(i) /\ Recalled(r, past)
<1> DEFINE e == EdgeOf(i)
           at == IF Live(g, e) THEN {r \in g[e].reviews : r.input = i} ELSE {}
           ports == {r \in g.ports : r.input = i}
<1>1. e \in Crossings
  BY AskedOf
<1>2. LastReview(g, i) = IF at # {} THEN at ELSE ports
  BY DEF LastReview
<1>3. Single(at) /\ \A r \in at : r.input = i /\ r.decision \in Alternatives(i) /\ Recalled(r, past)
  <2>1. /\ Single(g[e].reviews)
        /\ \A r \in g[e].reviews : r.decision \in Alternatives(r.input) /\ Recalled(r, past)
    BY <1>1 DEF Reviewed, ReviewOf
  <2> QED  BY <2>1 DEF Single
<1>4. Single(ports) /\ \A r \in ports : r.input = i /\ r.decision \in Alternatives(i) /\ Recalled(r, past)
  <2>1. /\ Single(g.ports)
        /\ \A r \in g.ports : r.decision \in Alternatives(r.input) /\ Recalled(r, past)
    BY DEF Reviewed, ReviewOf
  <2> QED  BY <2>1 DEF Single
<1> HIDE DEF at, ports
<1> QED  BY <1>2, <1>3, <1>4

\* A review that holds says what is on the canvas, and what it was made of.
LEMMA HeldIsMade == ReviewsInv => ReviewHolds
<1> SUFFICES ASSUME ReviewsInv, NEW i \in Asked(sketch), Holds(sketch, i)
             PROVE  LET e == EdgeOf(i)  now == sketch[e]
                        then == seen[(CHOOSE r \in LastReview(sketch, i) : TRUE).at]
                    IN /\ <<now.kind, now.wait, now.bent>>
                              = <<then.edge.kind, then.edge.wait, then.edge.bent>>
                       /\ e # "C" => sketch.out = then.ports
  BY DEF ReviewHolds
<1> DEFINE e == EdgeOf(i)
<1>1. Reviewed(sketch, seen)
  BY DEF ReviewsInv
<1>2. PICK r \in LastReview(sketch, i) :
         IF r.decision = "closed"
         THEN ~Live(sketch, e) /\ r.path = Straight(sketch)
         ELSE Walks(sketch, e) /\ r.path = Path(sketch, e) /\ r.wait = sketch[e].wait
  BY DEF Holds
<1>3. (CHOOSE q \in LastReview(sketch, i) : TRUE) = r
  BY <1>1, LastReviewIsOne DEF Single
<1>4. e \in Crossings /\ IsEdge(sketch[e])
  BY <1>1, AskedOf DEF Reviewed
<1>5. r.input = i /\ r.decision \in Alternatives(i) /\ Recalled(r, seen)
  BY <1>1, LastReviewIsOne
<1> DEFINE now == sketch[e]  then == seen[r.at]
<1>6. e # "C" => then.ports = r.path[1]
  BY <1>5 DEF Recalled
<1>7. CASE r.decision = "closed"
  <2>1. now = Gone /\ then.edge = Gone
    BY <1>2, <1>4, <1>5, <1>7 DEF Recalled, Live, IsEdge
  <2>2. r.path[1] = sketch.out
    BY <1>2, <1>7 DEF Straight
  <2> QED  BY <1>3, <1>6, <2>1, <2>2
<1>8. CASE r.decision # "closed"
  <2>1. /\ then.edge.kind = "crossing" /\ then.edge.wait = r.wait /\ then.edge.bent = r.path[2]
        /\ now.kind = "crossing" /\ now.wait = r.wait /\ r.path = Path(sketch, e)
    BY <1>2, <1>5, <1>8 DEF Recalled, Walks
  <2>2. r.path[2] = now.bent /\ (e # "C" => r.path[1] = sketch.out)
    BY <2>1 DEF Path
  <2> QED  BY <1>3, <1>6, <2>1, <2>2
<1> QED  BY <1>7, <1>8

----------------------------------------------------------------------------
(* The links of a graph and what an answer makes of them.                  *)

\* The link of an edge that is there.
LinkOf(g, e) ==
    IF e = "C" THEN Link("o", "q", 4 + Bend(g, e), IF Walks(g, e) THEN g[e].wait ELSE 0, e)
    ELSE Link("p1", "p2", 1 + g.out + Bend(g, e), IF Walks(g, e) THEN g[e].wait ELSE 0, e)

Walkways(g) == {Link("o", "p1", 1 + g.out, 0, "w1"), Link("p2", "q", 1, 0, "w2")}

LEMMA LinksAre ==
    ASSUME NEW g
    PROVE  Links(g) = Walkways(g) \cup {LinkOf(g, e) : e \in {c \in Crossings : Live(g, c)}}
<1> DEFINE A == {Link("o", "q", 4 + Bend(g, e), IF Walks(g, e) THEN g[e].wait ELSE 0, e) :
                    e \in {c \in {"C"} : Live(g, c)}}
           B == {Link("p1", "p2", 1 + g.out + Bend(g, e), IF Walks(g, e) THEN g[e].wait ELSE 0, e) :
                    e \in {c \in {"R", "X"} : Live(g, c)}}
<1>1. Links(g) = (Walkways(g) \cup A) \cup B
  BY Zenon DEF Links, Walkways
<1>2. A = {LinkOf(g, e) : e \in {c \in {"C"} : Live(g, c)}}
  BY DEF LinkOf
<1>3. B = {LinkOf(g, e) : e \in {c \in {"R", "X"} : Live(g, c)}}
  BY DEF LinkOf
<1> HIDE DEF A, B
<1>4. Crossings = {"C"} \cup {"R", "X"}
  BY DEF Crossings
<1> QED  BY <1>1, <1>2, <1>3, <1>4

\* Only ends and times of links count for when somebody is reached.
LEMMA SameArrivals ==
    ASSUME NEW K, NEW L,
           \A k \in K : \E l \in L : k.ends = l.ends /\ k.walk = l.walk /\ k.wait = l.wait,
           \A l \in L : \E k \in K : k.ends = l.ends /\ k.walk = l.walk /\ k.wait = l.wait
    PROVE  Distances(K) = Distances(L)
<1>1. ASSUME NEW d, NEW v PROVE Arrival(d, K, v) = Arrival(d, L, v)
  <2> DEFINE Cost(l) == Min({d[u] : u \in l.ends}) + l.walk + l.wait
  <2>1. ASSUME NEW k, NEW l, k.ends = l.ends, k.walk = l.walk, k.wait = l.wait
        PROVE  Cost(k) = Cost(l)
    BY <2>1
  <2> HIDE DEF Cost
  <2>2. {Cost(k) : k \in {m \in K : v \in m.ends}} = {Cost(l) : l \in {m \in L : v \in m.ends}}
    BY <2>1
  <2>3. /\ Arrival(d, K, v) = Min({d[v]} \cup {Cost(k) : k \in {m \in K : v \in m.ends}})
        /\ Arrival(d, L, v) = Min({d[v]} \cup {Cost(l) : l \in {m \in L : v \in m.ends}})
    BY Zenon DEF Arrival, Cost
  <2> QED  BY <2>2, <2>3
<1>2. ASSUME NEW d PROVE Relaxed(d, K) = Relaxed(d, L)
  BY <1>1, Zenon DEF Relaxed
<1> QED  BY <1>2, Zenon DEF Distances

LEMMA LinkParts ==
    ASSUME NEW a, NEW b, NEW w, NEW t, NEW e
    PROVE  /\ Link(a, b, w, t, e).edge = e /\ Link(a, b, w, t, e).ends = {a, b}
           /\ Link(a, b, w, t, e).walk = w /\ Link(a, b, w, t, e).wait = t
           /\ \A v : [Link(a, b, w, t, e) EXCEPT !.wait = v] = Link(a, b, w, v, e)
BY DEF Link

LEMMA EdgesOfLinks ==
    ASSUME NEW g
    PROVE  /\ \A l \in Walkways(g) : l.edge \notin Crossings
           /\ \A e : LinkOf(g, e).edge = e
<1>1. \A l \in Walkways(g) : l.edge \in {"w1", "w2"}
  BY LinkParts DEF Walkways
<1>2. \A e : LinkOf(g, e).edge = e
  BY LinkParts DEF LinkOf
<1> QED  BY <1>1, <1>2 DEF Crossings

\* A graph in which one crossing has been written over, and its links.
LEMMA OtherLinksStay ==
    ASSUME NEW g, NEW after, NEW e \in Crossings, after.out = g.out,
           \A c \in Crossings \ {e} : after[c] = g[c]
    PROVE  /\ Walkways(after) = Walkways(g)
           /\ \A c \in Crossings \ {e} :
                 (Live(after, c) <=> Live(g, c)) /\ LinkOf(after, c) = LinkOf(g, c)
BY DEF Walkways, Live, LinkOf, Bend, Walks

LEMMA RewaitedLinks ==
    ASSUME NEW g, NEW after, NEW e \in Crossings, NEW w, after.out = g.out, Walks(g, e),
           after[e].kind = "crossing", after[e].wait = w, after[e].bent = g[e].bent,
           \A c \in Crossings \ {e} : after[c] = g[c]
    PROVE  Rewaited(Links(g), e, w) = Links(after)
<1> DEFINE Changed(l) == IF l.edge = e THEN [l EXCEPT !.wait = w] ELSE l
<1>1. /\ Walkways(after) = Walkways(g)
      /\ \A c \in Crossings \ {e} : (Live(after, c) <=> Live(g, c)) /\ LinkOf(after, c) = LinkOf(g, c)
  BY OtherLinksStay
<1>2. Live(g, e) /\ Live(after, e)
  BY DEF Live, Walks
<1>3. Changed(LinkOf(g, e)) = LinkOf(after, e)
  <2>1. Bend(g, e) = Bend(after, e) /\ Walks(after, e)
    BY DEF Bend, Walks
  <2> DEFINE t == IF Walks(g, e) THEN g[e].wait ELSE 0
  <2>2. LinkOf(after, e) = IF e = "C" THEN Link("o", "q", 4 + Bend(g, e), w, e)
                           ELSE Link("p1", "p2", 1 + g.out + Bend(g, e), w, e)
    BY <2>1 DEF LinkOf
  <2>3. LinkOf(g, e) = IF e = "C" THEN Link("o", "q", 4 + Bend(g, e), t, e)
                       ELSE Link("p1", "p2", 1 + g.out + Bend(g, e), t, e)
    BY DEF LinkOf
  <2>4. Changed(LinkOf(g, e)) = [LinkOf(g, e) EXCEPT !.wait = w]
    BY EdgesOfLinks
  <2> HIDE DEF t, Changed
  <2> QED  BY <2>2, <2>3, <2>4, LinkParts
<1>4. /\ \A l \in Walkways(g) : Changed(l) = l
      /\ \A c \in Crossings \ {e} : Changed(LinkOf(g, c)) = LinkOf(after, c)
  BY <1>1, EdgesOfLinks
<1>5. Rewaited(Links(g), e, w) = {Changed(l) : l \in Links(g)}
  BY DEF Rewaited
<1> HIDE DEF Changed
<1>6. Links(g) = Walkways(g) \cup {LinkOf(g, c) : c \in {k \in Crossings : Live(g, k)}}
  BY LinksAre
<1>7. Links(after) = Walkways(g) \cup {LinkOf(after, c) : c \in {k \in Crossings : Live(g, k)}}
  BY <1>1, <1>2, LinksAre
<1>8. \A c \in Crossings : Changed(LinkOf(g, c)) = LinkOf(after, c)
  BY <1>3, <1>4
<1> QED  BY <1>4, <1>5, <1>6, <1>7, <1>8

\* What a decision makes of the links.
LEMMA AnswerLinks ==
    ASSUME NEW g, NEW past, Reviewed(g, past), NEW i \in Asked(g), Resolvable(g, i),
           NEW decision \in Alternatives(i), NEW wait
    PROVE  LET after == Applied(g, i, decision, wait)
           IN /\ decision = "closed" => Links(after) = Without(Links(g), EdgeOf(i))
              /\ decision # "closed" /\ Live(g, EdgeOf(i)) =>
                    Links(after) = Rewaited(Links(g), EdgeOf(i), wait)
              /\ decision # "closed" /\ ~Live(g, EdgeOf(i)) =>
                    Distances(Links(after))
                       = Distances(Links(g) \cup {Link("p1", "p2", 1 + g.out, wait, "virtual")})
<1> DEFINE e == EdgeOf(i)
           after == Applied(g, i, decision, wait)
<1>1. PICK r : Answer(g, i, decision, wait, after, r)
  BY Answers
<1>2. /\ decision = "closed" => after[e] = Gone
      /\ decision # "closed" => after[e] = Crossed(r)
      /\ after.out = g.out
      /\ \A c \in Crossings \ {e} : after[c] = g[c]
  BY <1>1, AnswerParts
<1>3. /\ e \in Crossings
      /\ i = "crossing" => e = "R" /\ (Live(g, e) => Walks(g, e))
      /\ i # "crossing" => Walks(g, e)
  BY AskedOf DEF Resolvable, AsksWait
<1>4. /\ r.wait = wait
      /\ decision # "closed" /\ Live(g, e) => r.path[2] = g[e].bent
      /\ ~Live(g, e) => r.path[2] = FALSE
  BY <1>1 DEF Answer, AnswerSays
<1>5. g.out \in {0, 1}
  BY DEF Reviewed
<1> HIDE DEF after, e
<1>6. /\ Walkways(after) = Walkways(g)
      /\ \A c \in Crossings \ {e} : (Live(after, c) <=> Live(g, c)) /\ LinkOf(after, c) = LinkOf(g, c)
  BY <1>2, <1>3, OtherLinksStay
<1>7. /\ Links(g) = Walkways(g) \cup {LinkOf(g, c) : c \in {k \in Crossings : Live(g, k)}}
      /\ Links(after) = Walkways(after) \cup {LinkOf(after, c) : c \in {k \in Crossings : Live(after, k)}}
  BY LinksAre
<1>8. ASSUME decision = "closed" PROVE Links(after) = Without(Links(g), e)
  <2>1. ~Live(after, e)
    BY <1>2, <1>8 DEF Live, Gone, Edge
  <2>2. /\ \A l \in Walkways(g) : l.edge # e
        /\ \A c \in Crossings : LinkOf(g, c).edge = c
    BY <1>3, EdgesOfLinks
  <2> QED  BY <1>6, <1>7, <2>1, <2>2 DEF Without
<1>9. ASSUME decision # "closed", Live(g, e) PROVE Links(after) = Rewaited(Links(g), e, wait)
  <2>1. after[e].kind = "crossing" /\ after[e].wait = wait /\ after[e].bent = g[e].bent
    BY <1>2, <1>4, <1>9 DEF Crossed
  <2>2. Walks(g, e)
    BY <1>3, <1>9
  <2> QED  BY <1>2, <1>3, <2>1, <2>2, RewaitedLinks
<1>10. ASSUME decision # "closed", ~Live(g, e)
       PROVE  Distances(Links(after))
                 = Distances(Links(g) \cup {Link("p1", "p2", 1 + g.out, wait, "virtual")})
  <2>1. e = "R" /\ Live(after, e) /\ LinkOf(after, e) = Link("p1", "p2", 1 + g.out, wait, "R")
    <3>1. e = "R"
      BY <1>3, <1>10 DEF Walks, Live
    <3>2. after[e].kind = "crossing" /\ after[e].wait = wait /\ after[e].bent = FALSE
      BY <1>2, <1>4, <1>10 DEF Crossed
    <3>3. Walks(after, e) /\ Live(after, e) /\ Bend(after, e) = 0
      BY <3>2 DEF Walks, Live, Bend
    <3> QED  BY <1>2, <1>5, <3>1, <3>2, <3>3 DEF LinkOf
  <2>2. Links(after) = Links(g) \cup {Link("p1", "p2", 1 + g.out, wait, "R")}
    BY <1>3, <1>6, <1>7, <1>10, <2>1
  <2> DEFINE k == Link("p1", "p2", 1 + g.out, wait, "R")
             v == Link("p1", "p2", 1 + g.out, wait, "virtual")
  <2>3. k.ends = v.ends /\ k.walk = v.walk /\ k.wait = v.wait
    BY DEF Link
  <2> HIDE DEF k, v
  <2>4. Distances(Links(g) \cup {k}) = Distances(Links(g) \cup {v})
    BY <2>3, SameArrivals
  <2> QED  BY <2>2, <2>4 DEF k, v
<1> QED  BY <1>8, <1>9, <1>10 DEF after, e

\* The scenarios of a plan are what the answers bring.
LEMMA PlansComeTrue == ReviewsInv => ScenariosComeTrue
<1> SUFFICES ASSUME ReviewsInv, NEW i \in Evaluated(sketch)
             PROVE  LET best  == IF i = "crossing" THEN "open" ELSE "set_wait"
                        worst == IF i = "crossing" THEN "closed" ELSE "set_wait"
                    IN /\ Distances(OptimisticLinks(sketch, i))
                            = Distances(Links(Applied(sketch, i, best, Min(Waits))))
                       /\ Distances(PessimisticLinks(sketch, i))
                            = Distances(Links(Applied(sketch, i, worst, Max(Waits))))
  BY DEF ScenariosComeTrue
<1>1. Reviewed(sketch, seen) /\ i \in Asked(sketch) /\ Resolvable(sketch, i)
  BY DEF ReviewsInv, Evaluated, Eligible
<1>2. CASE i = "crossing"
  <2>1. "open" \in Alternatives(i) /\ "closed" \in Alternatives(i)
    BY <1>2 DEF Alternatives
  <2>2. Distances(OptimisticLinks(sketch, i)) = Distances(Links(Applied(sketch, i, "open", Min(Waits))))
    BY <1>1, <2>1, AnswerLinks DEF OptimisticLinks
  <2>3. PessimisticLinks(sketch, i) = Links(Applied(sketch, i, "closed", Max(Waits)))
    BY <1>1, <1>2, <2>1, AnswerLinks DEF PessimisticLinks
  <2> QED  BY <1>2, <2>2, <2>3
<1>3. CASE i # "crossing"
  <2>1. "set_wait" \in Alternatives(i) /\ Live(sketch, EdgeOf(i))
    BY <1>1, <1>3, AskedOf DEF Alternatives, AsksWait, Walks, Live
  <2>2. OptimisticLinks(sketch, i) = Links(Applied(sketch, i, "set_wait", Min(Waits)))
    BY <1>1, <2>1, AnswerLinks DEF OptimisticLinks
  <2>3. PessimisticLinks(sketch, i) = Links(Applied(sketch, i, "set_wait", Max(Waits)))
    BY <1>1, <1>3, <2>1, AnswerLinks DEF PessimisticLinks
  <2> QED  BY <1>3, <2>2, <2>3
<1> QED  BY <1>2, <1>3

----------------------------------------------------------------------------
(* What an answer leaves alone.                                            *)

\* Two questions that are asked at once are about different edges.
LEMMA AskedApart ==
    ASSUME NEW g, NEW past, Reviewed(g, past)
    PROVE  /\ AsksCrossing(g) => ~Walks(g, "X")
           /\ \A i, j \in Asked(g) : i # j => EdgeOf(i) # EdgeOf(j)
<1>1. /\ \A r \in g["R"].reviews :
             r.input = "crossing" => r.decision \in {"open", "closed"}
      /\ \A r \in g["X"].reviews : r.input # "crossing"
  <2>1. "R" \in Crossings /\ "X" \in Crossings
    BY DEF Crossings
  <2>2. /\ \A r \in g["R"].reviews : ReviewOf(r, {"R", "crossing"})
        /\ \A r \in g["X"].reviews : ReviewOf(r, {"X"})
    BY <2>1 DEF Reviewed
  <2> QED  BY <2>2 DEF ReviewOf, Alternatives
<1>2. AsksCrossing(g) => ~Walks(g, "X") /\ ~AsksWait(g, "R")
  BY <1>1 DEF AsksCrossing, AsksWait
<1>3. ASSUME NEW i \in Asked(g), NEW j \in Asked(g), i # j PROVE EdgeOf(i) # EdgeOf(j)
  BY <1>2, <1>3, AskedOf
<1> QED  BY <1>2, <1>3

\* The review of a decision is the last one, and it holds.
LEMMA DecisionHolds ==
    ASSUME NEW g, NEW past, Reviewed(g, past), NEW i \in Asked(g), Resolvable(g, i),
           NEW decision \in Alternatives(i), NEW wait
    PROVE  LET after == Applied(g, i, decision, wait)
           IN /\ i \in Asked(after) /\ Holds(after, i)
              /\ \A r \in LastReview(after, i) : r.decision = decision
<1> DEFINE e == EdgeOf(i)
           after == Applied(g, i, decision, wait)
<1>1. PICK r : Answer(g, i, decision, wait, after, r)
  BY Answers
<1>2. /\ decision = "closed" => after[e] = Gone
      /\ decision # "closed" => after[e] = Crossed(r)
      /\ i = "crossing" => after.ports = {r}
      /\ after.out = g.out /\ after.separated = g.separated
      /\ \A c \in Crossings \ {e} : after[c] = g[c]
  BY <1>1, AnswerParts
<1>3. /\ e \in Crossings
      /\ i = "crossing" => e = "R" /\ AsksCrossing(g) /\ decision \in {"open", "closed"}
      /\ i # "crossing" => e = i /\ i \in Crossings /\ decision = "set_wait"
  BY AskedOf
<1>4. /\ r.input = i /\ r.decision = decision
      /\ r.path = <<r.path[1], r.path[2]>> /\ r.path[1] = (IF e = "C" THEN 0 ELSE g.out)
      /\ decision = "closed" => r.path[2] = FALSE
  BY <1>1 DEF Answer, AnswerSays
<1> HIDE DEF after, e
<1>5. /\ decision # "closed" => /\ Live(after, e) /\ Walks(after, e) /\ after[e].reviews = {r}
                                /\ after[e].wait = r.wait /\ after[e].bent = r.path[2]
      /\ decision = "closed" => ~Live(after, e) /\ ~Walks(after, e)
  BY <1>2 DEF Crossed, Live, Walks, Gone, Edge
<1>6. LastReview(after, i) = {r}
  <2>1. CASE decision = "closed"
    <3>1. {q \in after.ports : q.input = i} = {r}
      BY <1>2, <1>3, <1>4, <2>1
    <3> QED  BY <1>5, <2>1, <3>1 DEF LastReview, e
  <2>2. CASE decision # "closed"
    <3>1. {q \in after[e].reviews : q.input = i} = {r}
      BY <1>4, <1>5, <2>2
    <3> QED  BY <1>5, <2>2, <3>1 DEF LastReview, e
  <2> QED  BY <2>1, <2>2
<1>7. Holds(after, i)
  <2>1. CASE decision = "closed"
    <3>1. e # "C"
      BY <1>3, <2>1
    <3>2. r.path = Straight(after)
      BY <1>2, <1>4, <2>1, <3>1 DEF Straight
    <3> QED  BY <1>4, <1>5, <1>6, <2>1, <3>2 DEF Holds, e
  <2>2. CASE decision # "closed"
    <3>1. r.path = Path(after, e)
      BY <1>2, <1>4, <1>5, <2>2 DEF Path
    <3> QED  BY <1>4, <1>5, <1>6, <2>2, <3>1 DEF Holds, e
  <2> QED  BY <2>1, <2>2
<1>8. i \in Asked(after)
  <2>1. CASE i = "crossing"
    <3>1. Walks(after, "R") => \E q \in after["R"].reviews : q.input = "crossing"
      BY <1>3, <1>4, <1>5, <2>1
    <3>2. after["X"] = g["X"]
      BY <1>2, <1>3, <2>1 DEF Crossings
    <3>3. AsksCrossing(after)
      BY <1>2, <1>3, <2>1, <3>1, <3>2 DEF AsksCrossing, Walks
    <3> QED  BY <2>1, <3>3 DEF Asked
  <2>2. CASE i # "crossing"
    <3>1. AsksWait(after, i)
      BY <1>3, <1>4, <1>5, <2>2 DEF AsksWait
    <3> QED  BY <1>3, <2>2, <3>1 DEF Asked
  <2> QED  BY <2>1, <2>2
<1>9. \A q \in LastReview(after, i) : q.decision = decision
  BY <1>4, <1>6
<1> QED  BY <1>7, <1>8, <1>9 DEF after

\* The other questions are asked as before, and their reviews hold as before.
LEMMA OthersStay ==
    ASSUME NEW g, NEW past, Reviewed(g, past), NEW i \in Asked(g), Resolvable(g, i),
           NEW decision \in Alternatives(i), NEW wait, NEW j \in Asked(g) \ {i}
    PROVE  LET after == Applied(g, i, decision, wait)
           IN j \in Asked(after) /\ (Holds(after, j) <=> Holds(g, j))
<1> DEFINE e == EdgeOf(i)
           k == EdgeOf(j)
           after == Applied(g, i, decision, wait)
<1>1. PICK r : Answer(g, i, decision, wait, after, r)
  BY Answers
<1>2. /\ i = "crossing" => after.ports = {r}
      /\ i # "crossing" => after.ports = g.ports
      /\ after.out = g.out /\ after.separated = g.separated
      /\ \A c \in Crossings \ {e} : after[c] = g[c]
  BY <1>1, AnswerParts
<1>3. r.input = i
  BY <1>1 DEF Answer, AnswerSays
<1>4. e \in Crossings /\ k \in Crossings /\ e # k
  BY AskedOf, AskedApart
<1>5. /\ j = "crossing" => k = "R" /\ AsksCrossing(g) /\ ~Walks(g, "X")
      /\ j # "crossing" => k = j /\ j \in Crossings /\ AsksWait(g, j)
      /\ i # "crossing" => e = i /\ Walks(g, i)
  BY AskedOf, AskedApart DEF AsksWait
<1>6. \A q \in g.ports : q.input = "crossing"
  BY DEF Reviewed, ReviewOf
<1> HIDE DEF after, e, k
<1>7. /\ after[k] = g[k] /\ (Live(after, k) <=> Live(g, k)) /\ (Walks(after, k) <=> Walks(g, k))
      /\ Path(after, k) = Path(g, k) /\ Straight(after) = Straight(g)
  BY <1>2, <1>4 DEF Live, Walks, Path, Straight
<1>8. {q \in after.ports : q.input = j} = {q \in g.ports : q.input = j}
  BY <1>2, <1>3, <1>6
<1>9. LastReview(after, j) = LastReview(g, j)
  BY <1>7, <1>8 DEF LastReview, k
<1>10. Holds(after, j) <=> Holds(g, j)
  BY <1>7, <1>9 DEF Holds, k
<1>11. j \in Asked(after)
  <2>1. CASE j = "crossing"
    <3>1. e \notin {"R", "X"}
      BY <1>4, <1>5, <2>1
    <3>2. after["R"] = g["R"] /\ after["X"] = g["X"]
      BY <1>2, <3>1 DEF Crossings
    <3>3. AsksCrossing(after)
      BY <1>2, <1>5, <2>1, <3>2 DEF AsksCrossing, Walks
    <3> QED  BY <2>1, <3>3 DEF Asked
  <2>2. CASE j # "crossing"
    <3>1. AsksWait(after, j)
      BY <1>5, <1>7, <2>2 DEF AsksWait
    <3> QED  BY <1>5, <2>2, <3>1 DEF Asked
  <2> QED  BY <2>1, <2>2
<1> QED  BY <1>10, <1>11 DEF after

LEMMA DecisionsStayLocal == ReviewsInv => DecisionsAreLocal
<1> SUFFICES ASSUME ReviewsInv, NEW i \in Asked(sketch), Resolvable(sketch, i),
                    NEW decision \in Alternatives(i), NEW wait \in Waits
             PROVE  LET after == Applied(sketch, i, decision, wait)
                    IN /\ i \in Asked(after) /\ Holds(after, i)
                       /\ \A r \in LastReview(after, i) : r.decision = decision
                       /\ \A e \in Crossings \ {EdgeOf(i)} : after[e] = sketch[e]
                       /\ \A j \in Asked(sketch) \ {i} :
                             j \in Asked(after) /\ (Holds(after, j) <=> Holds(sketch, j))
  BY DEF DecisionsAreLocal
<1> DEFINE after == Applied(sketch, i, decision, wait)
<1>1. Reviewed(sketch, seen)
  BY DEF ReviewsInv
<1>2. /\ i \in Asked(after) /\ Holds(after, i)
      /\ \A r \in LastReview(after, i) : r.decision = decision
  BY <1>1, DecisionHolds
<1>3. \A j \in Asked(sketch) \ {i} : j \in Asked(after) /\ (Holds(after, j) <=> Holds(sketch, j))
  BY <1>1, OthersStay
<1>4. \A e \in Crossings \ {EdgeOf(i)} : after[e] = sketch[e]
  <2>1. PICK r : Answer(sketch, i, decision, wait, after, r)
    BY <1>1, Answers
  <2> QED  BY <1>1, <2>1, AnswerParts
<1> QED  BY <1>2, <1>3, <1>4

\* What a patch says is what was drawn, on the generated network it was drawn on.
LEMMA ReviewSaves == ReviewsInv /\ RefinementNext => SavedIsDrawn
<1> SUFFICES ASSUME ReviewsInv, RefinementNext PROVE SavedIsDrawn
  OBVIOUS
<1>1. CASE SaveSketch
  <2>1. Replayed(source, PatchTo(sketch)) = sketch
    BY PatchReplays DEF ReviewsInv, Reviewed
  <2>2. patch' = PatchTo(sketch) /\ network' = Replayed(source, patch') /\ patch'.of = source
    BY <1>1 DEF SaveSketch, PatchTo
  <2> QED  BY <2>1, <2>2 DEF SavedIsDrawn
<1>2. CASE Export
  BY <1>2 DEF Export, SavedIsDrawn, Fits
<1>3. CASE Decide \/ Redraw \/ Reload \/ SourceChanges
  BY <1>3 DEF Decide, Redraw, Reload, SourceChanges, SavedIsDrawn
<1> QED  BY <1>1, <1>2, <1>3 DEF RefinementNext

\* With a user who waits, what a person has drawn is what is kept and saved: undo leads
\* through canvases that were there (networkEditorHistory.js), "no unsaved changes" is
\* true, no save of this window takes back what others have saved (NetworkEditor.vue),
\* and a patch of manual_graph_edits.py holds exactly what was drawn.
THEOREM WorkIsKept == Patient /\ LifeSpec => EditsKept
<1> SUFFICES ASSUME Patient PROVE LifeSpec => EditsKept
  OBVIOUS
<1> DEFINE Inv == CanvasInv /\ ReviewsInv
           Shows == HistoryFaithful /\ CleanIsSaved /\ (Shown => Connected(canvas))
<1>1. LifeInit => Inv
  BY CanvasAssumption, CanvasStarts, ReviewsStart DEF LifeInit
<1>2. Inv /\ [LifeNext]_lifeVars => Inv'
  BY CanvasAssumption, CanvasKeeps, ReviewsKeep DEF LifeNext, lifeVars
<1>3. Inv => Shows
  BY CanvasHolds
<1>4. Inv /\ Shows' /\ [LifeNext]_lifeVars =>
        [/\ level = "canvas" => CanvasKept
         /\ level = "review" => SavedIsDrawn]_<<canvasVars, refinementVars>>
  <2> SUFFICES ASSUME Inv, Shows', LifeNext
               PROVE  /\ level = "canvas" => CanvasKept
                      /\ level = "review" => SavedIsDrawn
    BY DEF lifeVars
  <2>1. SavesNothingOlder
    BY CanvasAssumption, SavesAreLatest
  <2>2. level = "review" => SavedIsDrawn
    BY ReviewSaves DEF LifeNext
  <2> QED  BY <2>1, <2>2 DEF CanvasKept
<1> HIDE DEF Inv, Shows
<1> QED  BY <1>1, <1>2, <1>3, <1>4, PTL DEF LifeSpec, EditsKept

\* A reviewer can rely on what the editor says of its questions: a review that is shown
\* as holding is of the connection as it is, the scenarios of a plan are what its answers
\* bring, and an answer touches no other question (refinement_inputs.py,
\* refinement_impact.py).
THEOREM ReviewsAreSound == LifeSpec => []RefinementSound
<1>1. LifeInit => ReviewsInv
  BY ReviewsStart DEF LifeInit
<1>2. ReviewsInv /\ [LifeNext]_lifeVars => ReviewsInv'
  BY ReviewsKeep DEF LifeNext, lifeVars
<1>3. ReviewsInv => RefinementSound
  BY HeldIsMade, PlansComeTrue, DecisionsStayLocal DEF RefinementSound
<1> QED  BY <1>1, <1>2, <1>3, PTL DEF LifeSpec

============================================================================
