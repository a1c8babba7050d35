--------------------------- MODULE ModStoreProofs ---------------------------
(* Theorems about ModStore and WatchedStore for every value of their        *)
(* constants.                                                               *)
EXTENDS WatchedStore, TLAPS

Content == Hashes \cup {None}
Row == [id : 1..MaxId, ver : Versions, disabled : BOOLEAN]
FileRow == [item : Items, hash : Hashes]

\* Jobs exist only while the process is up; there is a recovery list only while
\* it is recovering.
ProcessOK ==
  /\ status # "recovering" => recover = {}
  /\ \A j \in Jobs : jobs[j] # None => status = "up"

\* A job copies files of its own archive.
CopyOK ==
  \A j \in Jobs : jobs[j] # None =>
    jobs[j].copy \subseteq PathsIn(jobs[j].item, jobs[j].ver)

TypeInv == TypeOK /\ ProcessOK /\ CopyOK

------------------------------------------------------------------------------
(* What the helpers of ModStore return.                                     *)

LEMMA PathsInType ==
  ASSUME NEW i \in Items, NEW v \in Versions
  PROVE  /\ PathsIn(i, v) \subseteq Paths
         /\ PathsIn(i, v) # {}
         /\ \A p \in PathsIn(i, v) : Archive[i][v][p] \in Hashes
  BY ArchiveAssumption DEF PathsIn

\* The sentinel is no row: a record has a field, and None is not one of them.
LEMMA NoneIsNoRow == None \notin FileRow
  BY NoneAssumption DEF FileRow

LEMMA DiskParts ==
  ASSUME TypeOK, NEW r \in Roots
  PROVE  disk[r] \in [Paths -> Content]
  BY DEF TypeOK, Content

\* Replacing one root keeps the disk a disk.
LEMMA DiskExcept ==
  ASSUME TypeOK, NEW r \in Roots, NEW c \in [Paths -> Content]
  PROVE  [disk EXCEPT ![r] = c] \in [Roots -> [Paths -> Content]]
  BY DEF TypeOK, Content

LEMMA PutType ==
  ASSUME NEW c \in [Paths -> Content], NEW S, NEW t,
         \A p \in Paths \cap S : t[p] \in Content
  PROVE  Put(c, S, t) \in [Paths -> Content]
  BY DEF Put

LEMMA DropType ==
  ASSUME NEW c \in [Paths -> Content], NEW S
  PROVE  Drop(c, S) \in [Paths -> Content]
  BY DEF Drop, Content

LEMMA MoveType ==
  ASSUME TypeOK, NEW from \in Roots, NEW to \in Roots, from # to, NEW S
  PROVE  MoveTo(from, to, S) \in [Roots -> [Paths -> Content]]
  <1>1. Drop(disk[from], S) \in [Paths -> Content]
    BY DiskParts, DropType
  <1>2. Put(disk[to], S, disk[from]) \in [Paths -> Content]
    <2>1. /\ disk[from] \in [Paths -> Content]
          /\ disk[to] \in [Paths -> Content]
      BY DiskParts
    <2>2. \A p \in Paths \cap S : disk[from][p] \in Content
      BY <2>1
    <2>. QED BY <2>1, <2>2, PutType
  <1>. QED BY <1>1, <1>2 DEF MoveTo, TypeOK, Content

LEMMA RecordFilesType ==
  ASSUME TypeOK, NEW i \in Items, NEW v \in Versions
  PROVE  RecordFiles(i, v) \in [Paths -> FileRow \cup {None}]
  BY PathsInType DEF RecordFiles, TypeOK, FileRow

LEMMA RowVersionType ==
  ASSUME TypeOK, NEW i \in Items, row[i] # None, NEW v \in Versions
  PROVE  [row EXCEPT ![i].ver = v] \in [Items -> Row \cup {None}]
  <1>1. row[i] \in Row
    BY DEF TypeOK, Row
  <1>2. [row[i] EXCEPT !.ver = v] \in Row
    BY <1>1 DEF Row
  <1>. QED BY <1>2 DEF TypeOK, Row

LEMMA RowDisabledType ==
  ASSUME TypeOK, NEW i \in Items, row[i] # None, NEW b \in BOOLEAN
  PROVE  [row EXCEPT ![i].disabled = b] \in [Items -> Row \cup {None}]
  <1>1. row[i] \in Row
    BY DEF TypeOK, Row
  <1>2. [row[i] EXCEPT !.disabled = b] \in Row
    BY <1>1 DEF Row
  <1>. QED BY <1>2 DEF TypeOK, Row

LEMMA RootOfType ==
  ASSUME NEW b
  PROVE  RootOf(b) \in Roots
  BY DEF RootOf, Roots

\* The archive content below the live directory or the stash.
LEMMA ArchivePutType ==
  ASSUME NEW c \in [Paths -> Content], NEW i \in Items, NEW v \in Versions,
         NEW S \in SUBSET PathsIn(i, v)
  PROVE  Put(c, S, Archive[i][v]) \in [Paths -> Content]
  <1>1. \A p \in Paths \cap S : Archive[i][v][p] \in Content
    BY PathsInType DEF Content
  <1>. QED BY <1>1, PutType

LEMMA DeletedFromType ==
  ASSUME TypeOK, NEW S
  PROVE  DeletedFrom(S) \in [Roots -> [Paths -> Content]]
  BY DiskParts, DropType DEF DeletedFrom

LEMMA DeleteRowsType ==
  ASSUME TypeOK, NEW S, DeleteRows(S)
  PROVE  /\ row' \in [Items -> Row \cup {None}]
         /\ files' \in [Paths -> FileRow \cup {None}]
  BY DEF DeleteRows, Drop, TypeOK, Row, FileRow

LEMMA HaltsProcess ==
  ASSUME TypeInv, NEW kind, Halts(kind)
  PROVE  /\ jobs' \in [Jobs -> Job \cup {None}]
         /\ status' \in {"up", "down", "recovering"}
         /\ recover' = recover
         /\ CopyOK'
         /\ status = "up" => ProcessOK'
  BY DEF TypeInv, TypeOK, ProcessOK, CopyOK, Halts

------------------------------------------------------------------------------
(* Typing, operation by operation.                                          *)

LEMMA InstallTyped ==
  ASSUME TypeInv, NEW i \in Items, NEW v \in Versions,
         InstallFromArchive(i, v) \/ InstallHalts(i, v)
  PROVE  TypeInv'
  <1>1. InstallRows(i, v)
    BY DEF InstallFromArchive, InstallHalts
  <1>2. /\ row' \in [Items -> Row \cup {None}]
        /\ files' \in [Paths -> FileRow \cup {None}]
        /\ nextId' \in 1..(MaxId + 1)
        /\ markers' = markers
    <2>1. nextId \in 1..MaxId
      BY <1>1, BoundAssumption DEF InstallRows, TypeInv, TypeOK
    <2>2. nextId' \in 1..(MaxId + 1)
      BY <1>1, <2>1, BoundAssumption DEF InstallRows
    <2>. QED BY <1>1, <2>1, <2>2, RecordFilesType DEF InstallRows, TypeInv, TypeOK, Row
  <1>3. \A S \in SUBSET PathsIn(i, v) :
          [disk EXCEPT !["live"] = Put(@, S, Archive[i][v])] \in [Roots -> [Paths -> Content]]
    BY ArchivePutType, DiskParts, DiskExcept DEF TypeInv, Roots
  <1>4. CASE InstallFromArchive(i, v)
    BY <1>2, <1>3, <1>4 DEF InstallFromArchive, process, TypeInv, TypeOK, ProcessOK, CopyOK,
                            Content, Row, FileRow
  <1>5. CASE InstallHalts(i, v)
    BY <1>1, <1>2, <1>3, <1>5, HaltsProcess
       DEF InstallHalts, InstallRows, TypeInv, TypeOK, Content, Row, FileRow
  <1>. QED BY <1>4, <1>5

LEMMA LockedUpdateTyped ==
  ASSUME TypeInv, NEW i \in Items, NEW v \in Versions,
         UpdateFromArchive(i, v) \/ UpdateHalts(i, v)
  PROVE  TypeInv'
  <1>1. \A T : \A S \in SUBSET PathsIn(i, v) :
          [disk EXCEPT ![UpdateRoot(i)] = Drop(Put(@, S, Archive[i][v]), T)]
            \in [Roots -> [Paths -> Content]]
    <2>. TAKE T
    <2>. TAKE S \in SUBSET PathsIn(i, v)
    <2>1. UpdateRoot(i) \in Roots
      BY RootOfType DEF UpdateRoot
    <2>2. Put(disk[UpdateRoot(i)], S, Archive[i][v]) \in [Paths -> Content]
      BY <2>1, DiskParts, ArchivePutType DEF TypeInv
    <2>3. Drop(Put(disk[UpdateRoot(i)], S, Archive[i][v]), T) \in [Paths -> Content]
      BY <2>2, DropType
    <2>. QED BY <2>1, <2>3, DiskExcept DEF TypeInv
  <1>2. CASE UpdateFromArchive(i, v)
    <2>1. disk' \in [Roots -> [Paths -> Content]]
      BY <1>1, <1>2 DEF UpdateFromArchive
    <2>2. /\ row' \in [Items -> Row \cup {None}]
          /\ files' \in [Paths -> FileRow \cup {None}]
      <3>1. CASE CanRecord(i, v)
        <4>1. /\ files' = RecordFiles(i, v)
              /\ row' = [row EXCEPT ![i].ver = v]
              /\ row[i] # None
          BY <1>2, <3>1 DEF UpdateFromArchive, Installed
        <4>. QED BY <4>1, RecordFilesType, RowVersionType DEF TypeInv
      <3>2. CASE ~CanRecord(i, v)
        BY <1>2, <3>2 DEF UpdateFromArchive, TypeInv, TypeOK, Row, FileRow
      <3>. QED BY <3>1, <3>2
    <2>. QED BY <1>2, <2>1, <2>2 DEF UpdateFromArchive, process, TypeInv, TypeOK, ProcessOK, CopyOK,
                                     Content, Row, FileRow
  <1>3. CASE UpdateHalts(i, v)
    <2>1. disk' \in [Roots -> [Paths -> Content]]
      BY <1>1, <1>3 DEF UpdateHalts
    <2>2. UNCHANGED db /\ Halts("locked_update") /\ status = "up"
      BY <1>3 DEF UpdateHalts, MayRun
    <2>. QED BY <2>1, <2>2, HaltsProcess DEF db, TypeInv, TypeOK, Content
  <1>. QED BY <1>2, <1>3

LEMMA JobTyped ==
  ASSUME TypeInv, NEW j \in Jobs,
         \/ \E i \in Items, v \in Versions : MarkUpdate(j, i, v)
         \/ \E p \in Paths : CopyFile(j, p) \/ DeleteStale(j, p)
         \/ CommitUpdate(j)
         \/ SwapFails(j)
  PROVE  TypeInv'
  <1>1. ASSUME NEW i \in Items, NEW v \in Versions, MarkUpdate(j, i, v) PROVE TypeInv'
    <2>1. row[i] \in Row
      BY <1>1 DEF MarkUpdate, Installed, TypeInv, TypeOK, Row
    <2>2. [item |-> i, id |-> row[i].id, ver |-> v, old |-> FilesOf(i)] \in Marker
      BY <2>1 DEF Marker, Row, FilesOf
    <2>3. [item |-> i, id |-> row[i].id, ver |-> v, root |-> UpdateRoot(i),
           copy |-> PathsIn(i, v), stale |-> FilesOf(i) \ PathsIn(i, v)] \in Job
      BY <2>1, RootOfType, PathsInType DEF Job, Row, FilesOf, UpdateRoot
    <2>. QED BY <1>1, <2>2, <2>3 DEF MarkUpdate, TypeInv, TypeOK, ProcessOK, CopyOK
  <1>2. ASSUME NEW p \in Paths, CopyFile(j, p) PROVE TypeInv'
    <2>1. jobs[j] \in Job
      BY <1>2 DEF CopyFile, TypeInv, TypeOK
    <2>2. Archive[jobs[j].item][jobs[j].ver][p] \in Hashes
      BY <1>2, <2>1, PathsInType DEF CopyFile, TypeInv, CopyOK, Job
    <2>3. disk' \in [Roots -> [Paths -> Content]]
      BY <1>2, <2>1, <2>2 DEF CopyFile, TypeInv, TypeOK, Job, Content
    <2>4. jobs' \in [Jobs -> Job \cup {None}]
      BY <1>2, <2>1 DEF CopyFile, TypeInv, TypeOK, Job
    <2>. QED BY <1>2, <2>3, <2>4 DEF CopyFile, db, TypeInv, TypeOK, ProcessOK, CopyOK, Content
  <1>3. ASSUME NEW p \in Paths, DeleteStale(j, p) PROVE TypeInv'
    <2>1. jobs[j] \in Job
      BY <1>3 DEF DeleteStale, TypeInv, TypeOK
    <2>3. disk' \in [Roots -> [Paths -> Content]]
      BY <1>3, <2>1 DEF DeleteStale, TypeInv, TypeOK, Job, Content
    <2>4. jobs' \in [Jobs -> Job \cup {None}]
      BY <1>3, <2>1 DEF DeleteStale, TypeInv, TypeOK, Job
    <2>. QED BY <1>3, <2>3, <2>4 DEF DeleteStale, db, TypeInv, TypeOK, ProcessOK, CopyOK, Content
  <1>4. CASE CommitUpdate(j)
    <2>1. jobs[j] \in Job
      BY <1>4 DEF CommitUpdate, TypeInv, TypeOK
    <2>2. /\ row' \in [Items -> Row \cup {None}]
          /\ files' \in [Paths -> FileRow \cup {None}]
          /\ markers' \subseteq markers
      <3>. DEFINE i == jobs[j].item
                  v == jobs[j].ver
                  mine == i \in Installed /\ row[i].id = jobs[j].id /\ CanRecord(i, v)
      <3>0. i \in Items /\ v \in Versions
        BY <2>1 DEF Job
      <3>1. CASE mine
        <4>1. /\ files' = RecordFiles(i, v)
              /\ row' = [row EXCEPT ![i].ver = v]
              /\ markers' = MarkersWithout(i, jobs[j].id)
          BY <1>4, <3>1 DEF CommitUpdate
        <4>. QED BY <3>0, <3>1, <4>1, RecordFilesType, RowVersionType
                 DEF Installed, MarkersWithout, TypeInv
      <3>2. CASE ~mine
        BY <1>4, <3>2 DEF CommitUpdate, TypeInv, TypeOK, Row, FileRow
      <3>. QED BY <3>1, <3>2
    <2>3. recover = {}
      BY <1>4 DEF CommitUpdate, TypeInv, ProcessOK, CopyOK
    <2>. QED BY <1>4, <2>2, <2>3 DEF CommitUpdate, TypeInv, TypeOK, ProcessOK, CopyOK, Row, FileRow
  <1>5. CASE SwapFails(j)
    BY <1>5 DEF SwapFails, db, TypeInv, TypeOK, ProcessOK, CopyOK
  <1>. QED BY <1>1, <1>2, <1>3, <1>4, <1>5

LEMMA RemoveTyped ==
  ASSUME TypeInv, NEW i \in Items, RemoveById(i) \/ RemoveHalts(i)
  PROVE  TypeInv'
  <1>1. CASE RemoveById(i)
    <2>1. DeleteRows({i} \cup AddonsOf(i)) /\ disk' = DeletedFrom({i} \cup AddonsOf(i))
      BY <1>1 DEF RemoveById
    <2>. QED BY <1>1, <2>1, DeleteRowsType, DeletedFromType
             DEF RemoveById, process, TypeInv, TypeOK, ProcessOK, CopyOK, Content, Row, FileRow
  <1>2. CASE RemoveHalts(i)
    <2>1. PICK done, next, lost :
            LET cleared == DeletedFrom(done)
                r == RootOf(row[next].disabled)
            IN /\ disk' = [cleared EXCEPT ![r] = Drop(@, lost)]
               /\ DeleteRows(done)
               /\ UNCHANGED <<markers, nextId>>
               /\ Halts("remove")
               /\ status = "up"
      BY <1>2 DEF RemoveHalts, MayRun
    <2>2. disk' \in [Roots -> [Paths -> Content]]
      <3>. DEFINE cleared == DeletedFrom(done)
                  r == RootOf(row[next].disabled)
      <3>1. cleared \in [Roots -> [Paths -> Content]] /\ r \in Roots
        BY DeletedFromType, RootOfType DEF TypeInv
      <3>2. Drop(cleared[r], lost) \in [Paths -> Content]
        BY <3>1, DropType
      <3>. QED BY <2>1, <3>1, <3>2
    <2>. QED BY <2>1, <2>2, DeleteRowsType, HaltsProcess
             DEF TypeInv, TypeOK, Content, Row, FileRow
  <1>. QED BY <1>1, <1>2

\* Disabling and enabling, when they go through.
LEMMA ToggleTyped ==
  ASSUME TypeInv, NEW i \in Items,
         DisableMod(i) \/ DisableAddon(i) \/ EnableMod(i) \/ EnableAddon(i)
  PROVE  TypeInv'
  <1>1. /\ disk' \in [Roots -> [Paths -> Content]]
        /\ UNCHANGED process
        /\ row[i] # None
        /\ \E b \in BOOLEAN : SetDisabled(i, b)
    <2>1. CASE DisableMod(i)
      BY <2>1, MoveType DEF DisableMod, Installed, TypeInv, Roots
    <2>2. CASE DisableAddon(i)
      BY <2>2, MoveType DEF DisableAddon, Installed, TypeInv, Roots
    <2>3. CASE EnableMod(i)
      BY <2>3, MoveType DEF EnableMod, Installed, TypeInv, Roots
    <2>4. CASE EnableAddon(i)
      BY <2>4, MoveType DEF EnableAddon, Installed, TypeInv, Roots
    <2>. QED BY <2>1, <2>2, <2>3, <2>4
  <1>2. /\ row' \in [Items -> Row \cup {None}]
        /\ UNCHANGED <<files, markers, nextId>>
    BY <1>1, RowDisabledType DEF SetDisabled, TypeInv
  <1>. QED BY <1>1, <1>2 DEF process, TypeInv, TypeOK, ProcessOK, CopyOK, Content, Row, FileRow

LEMMA ToggleHaltsTyped ==
  ASSUME TypeInv, NEW i \in Items, DisableHalts(i) \/ EnableHalts(i)
  PROVE  TypeInv'
  <1>1. /\ disk' \in [Roots -> [Paths -> Content]]
        /\ UNCHANGED db
        /\ Halts("toggle")
        /\ status = "up"
    <2>1. CASE DisableHalts(i)
      <3>1. PICK moves, done :
              /\ disk' = [live |-> Drop(disk["live"], done),
                          stash |-> Put(Drop(disk["stash"], moves), done, disk["live"])]
              /\ UNCHANGED db /\ Halts("toggle") /\ status = "up"
        BY <2>1 DEF DisableHalts, MayRun
      <3>2. disk["live"] \in [Paths -> Content] /\ disk["stash"] \in [Paths -> Content]
        BY DiskParts DEF TypeInv, Roots
      <3>3. Drop(disk["live"], done) \in [Paths -> Content]
        BY <3>2, DropType
      <3>4. Put(Drop(disk["stash"], moves), done, disk["live"]) \in [Paths -> Content]
        <4>1. \A p \in Paths \cap done : disk["live"][p] \in Content
          BY <3>2
        <4>. QED BY <3>2, <4>1, DropType, PutType
      <3>. QED BY <3>1, <3>3, <3>4 DEF Roots
    <2>2. CASE EnableHalts(i)
      BY <2>2, MoveType DEF EnableHalts, MayRun, TypeInv, Roots
    <2>. QED BY <2>1, <2>2
  <1>. QED BY <1>1, HaltsProcess DEF db, TypeInv, TypeOK, Content

LEMMA RestartTyped ==
  ASSUME TypeInv,
         \/ Crash \/ Restart \/ Serve
         \/ \E m \in recover : RecoverSingleUpdate(m) \/ RecoverHalts(m)
  PROVE  TypeInv'
  <1>1. CASE Crash \/ Restart \/ Serve
    BY <1>1 DEF Crash, Restart, Serve, db, TypeInv, TypeOK, ProcessOK, CopyOK
  <1>2. ASSUME NEW m \in recover, RecoverSingleUpdate(m) PROVE TypeInv'
    <2>1. m \in Marker
      BY DEF TypeInv, TypeOK
    <2>2. status = "recovering" /\ recover' = recover \ {m} /\ UNCHANGED <<nextId, jobs, status>>
      BY <1>2 DEF RecoverSingleUpdate
    <2>3. disk' \in [Roots -> [Paths -> Content]]
      <3>1. UNCHANGED disk \/ RecoverBack(m)
        BY <1>2 DEF RecoverSingleUpdate, RecoverForward
      <3>2. CASE RecoverBack(m)
        BY <3>2, RootOfType, DiskParts, DropType, DiskExcept DEF RecoverBack, TypeInv
      <3>. QED BY <3>1, <3>2 DEF TypeInv, TypeOK, Content
    <2>4. /\ row' \in [Items -> Row \cup {None}]
          /\ files' \in [Paths -> FileRow \cup {None}]
          /\ markers' \subseteq markers
          /\ recover \ {m} \subseteq markers'
      <3>1. CASE UNCHANGED <<row, files>> /\ (Clear(m) \/ UNCHANGED markers)
        BY <3>1 DEF Clear, TypeInv, TypeOK, Row, FileRow
      <3>2. CASE RecoverForward(m) /\ m.item \in Installed /\ CanRecord(m.item, m.ver)
        <4>1. /\ files' = RecordFiles(m.item, m.ver)
              /\ row' = [row EXCEPT ![m.item].ver = m.ver]
              /\ markers' = markers \ {m}
          BY <3>2 DEF RecoverForward, Clear
        <4>2. m.item \in Items /\ m.ver \in Versions /\ row[m.item] # None
          BY <2>1, <3>2 DEF Marker, Installed
        <4>. QED BY <4>1, <4>2, RecordFilesType, RowVersionType DEF TypeInv, TypeOK
      <3>. QED BY <1>2, <3>1, <3>2
               DEF RecoverSingleUpdate, RecoverForward, RecoverBack
    <2>. QED BY <2>2, <2>3, <2>4 DEF TypeInv, TypeOK, ProcessOK, CopyOK, Content, Row, FileRow
  <1>3. ASSUME NEW m \in recover, RecoverHalts(m) PROVE TypeInv'
    <2>1. PICK gone : disk' = [disk EXCEPT ![RootOf(row[m.item].disabled)] = Drop(@, gone)]
      BY <1>3 DEF RecoverHalts
    <2>2. disk' \in [Roots -> [Paths -> Content]]
      BY <2>1, RootOfType, DiskParts, DropType, DiskExcept DEF TypeInv
    <2>. QED BY <1>3, <2>2 DEF RecoverHalts, db, TypeInv, TypeOK, ProcessOK, CopyOK, Content
  <1>. QED BY <1>1, <1>2, <1>3

LEMMA InitTyped == Init => TypeInv
  BY BoundAssumption DEF Init, TypeInv, TypeOK, ProcessOK, CopyOK, Roots

LEMMA NextTyped == TypeInv /\ [Next]_vars => TypeInv'
  <1>. SUFFICES ASSUME TypeInv, [Next]_vars PROVE TypeInv'
    OBVIOUS
  <1>1. CASE UNCHANGED vars
    BY <1>1 DEF vars, TypeInv, TypeOK, ProcessOK, CopyOK
  <1>2. CASE Next
    BY <1>2, InstallTyped, LockedUpdateTyped, JobTyped, RemoveTyped, ToggleTyped,
       ToggleHaltsTyped, RestartTyped DEF Next
  <1>. QED BY <1>1, <1>2

\* Every variable keeps its type, with every failure and interleaving.
THEOREM Typing == Spec => []TypeOK
  <1>1. TypeInv => TypeOK
    BY DEF TypeInv
  <1>. QED BY <1>1, InitTyped, NextTyped, PTL DEF Spec

------------------------------------------------------------------------------
(* The markers.  That a second update of a row cannot start needs that the  *)
(* first one's marker is still there, and that it is still there needs that *)
(* nobody else is updating the row: the two are proved together.            *)

MarkerInv == TypeInv /\ OneSwapPerRow /\ SwapIsMarked

\* The marker that says what job j does.
Marks(m, j) ==
  /\ m.item = jobs[j].item /\ m.id = jobs[j].id /\ m.ver = jobs[j].ver
  /\ jobs[j].copy \subseteq PathsIn(m.item, m.ver)
  /\ jobs[j].stale \subseteq m.old

\* Whatever adds no job and removes no marker while jobs are in flight.
LEMMA MarkersKept ==
  ASSUME MarkerInv,
         \/ UNCHANGED jobs /\ (markers \subseteq markers' \/ \A j \in Jobs : jobs[j] = None)
         \/ \A j \in Jobs : jobs'[j] = None
  PROVE  (OneSwapPerRow /\ SwapIsMarked)'
  BY DEF MarkerInv, OneSwapPerRow, SwapIsMarked

LEMMA HaltsKeepsMarkers ==
  ASSUME MarkerInv, NEW kind, Halts(kind), UNCHANGED markers
  PROVE  (OneSwapPerRow /\ SwapIsMarked)'
  BY MarkersKept DEF Halts

LEMMA JobKeepsMarkers ==
  ASSUME MarkerInv, NEW j \in Jobs,
         \/ \E i \in Items, v \in Versions : MarkUpdate(j, i, v)
         \/ \E p \in Paths : CopyFile(j, p) \/ DeleteStale(j, p)
         \/ CommitUpdate(j)
         \/ SwapFails(j)
  PROVE  (OneSwapPerRow /\ SwapIsMarked)'
  <1>0. jobs \in [Jobs -> Job \cup {None}] /\ markers \subseteq Marker
    BY DEF MarkerInv, TypeInv, TypeOK
  <1>1. ASSUME NEW i \in Items, NEW v \in Versions, MarkUpdate(j, i, v)
        PROVE  (OneSwapPerRow /\ SwapIsMarked)'
    <2>. DEFINE new == [item |-> i, id |-> row[i].id, ver |-> v, old |-> FilesOf(i)]
                job == [item |-> i, id |-> row[i].id, ver |-> v, root |-> UpdateRoot(i),
                        copy |-> PathsIn(i, v), stale |-> FilesOf(i) \ PathsIn(i, v)]
    <2>1. /\ markers' = markers \cup {new}
          /\ jobs' = [jobs EXCEPT ![j] = job]
          /\ jobs[j] = None
          /\ row[i] # None
          /\ \A m \in markers : ~(m.item = i /\ m.id = row[i].id)
      BY <1>1 DEF MarkUpdate, CanMark, MarkersOf, Installed
    <2>2. jobs'[j] = job /\ \A k \in Jobs \ {j} : jobs'[k] = jobs[k]
      BY <1>0, <2>1
    <2>3. \A k \in Jobs \ {j} : jobs[k] # None => ~(jobs[k].item = i /\ jobs[k].id = row[i].id)
      BY <2>1 DEF MarkerInv, SwapIsMarked
    <2>4. OneSwapPerRow'
      BY <2>2, <2>3 DEF MarkerInv, OneSwapPerRow
    <2>5. SwapIsMarked'
      <3>1. /\ new.item = job.item /\ new.id = job.id /\ new.ver = job.ver
            /\ job.copy \subseteq PathsIn(new.item, new.ver)
            /\ job.stale \subseteq new.old
        OBVIOUS
      <3>2. \E m \in markers' :
              /\ m.item = jobs'[j].item /\ m.id = jobs'[j].id /\ m.ver = jobs'[j].ver
              /\ jobs'[j].copy \subseteq PathsIn(m.item, m.ver)
              /\ jobs'[j].stale \subseteq m.old
        BY <2>1, <2>2, <3>1
      <3>. QED BY <2>1, <2>2, <3>2 DEF MarkerInv, SwapIsMarked
    <2>. QED BY <2>4, <2>5
  <1>2. ASSUME NEW p \in Paths, CopyFile(j, p) \/ DeleteStale(j, p)
        PROVE  (OneSwapPerRow /\ SwapIsMarked)'
    <2>1. /\ jobs[j] \in Job
          /\ \/ jobs' = [jobs EXCEPT ![j].copy = @ \ {p}]
             \/ jobs' = [jobs EXCEPT ![j].stale = @ \ {p}]
          /\ UNCHANGED markers
      BY <1>0, <1>2 DEF CopyFile, DeleteStale, db
    <2>2. /\ jobs'[j] # None => jobs[j] # None
          /\ jobs'[j].item = jobs[j].item /\ jobs'[j].id = jobs[j].id /\ jobs'[j].ver = jobs[j].ver
          /\ jobs'[j].copy \subseteq jobs[j].copy /\ jobs'[j].stale \subseteq jobs[j].stale
          /\ \A k \in Jobs \ {j} : jobs'[k] = jobs[k]
      BY <1>0, <1>2, <2>1 DEF CopyFile, DeleteStale, Job
    <2>3. jobs[j] # None
      BY <1>2 DEF CopyFile, DeleteStale
    <2>4. OneSwapPerRow'
      BY <2>2, <2>3 DEF MarkerInv, OneSwapPerRow
    <2>5. SwapIsMarked'
      BY <2>1, <2>2, <2>3 DEF MarkerInv, SwapIsMarked
    <2>. QED BY <2>4, <2>5
  <1>3. CASE CommitUpdate(j) \/ SwapFails(j)
    <2>1. jobs' = [jobs EXCEPT ![j] = None] /\ jobs[j] # None
      BY <1>3 DEF CommitUpdate, SwapFails
    <2>2. jobs'[j] = None /\ \A k \in Jobs \ {j} : jobs'[k] = jobs[k]
      BY <1>0, <2>1
    <2>3. OneSwapPerRow'
      BY <2>2 DEF MarkerInv, OneSwapPerRow
    <2>4. markers' = markers \/ markers' = MarkersWithout(jobs[j].item, jobs[j].id)
      BY <1>3 DEF CommitUpdate, SwapFails, db
    <2>5. ASSUME NEW k \in Jobs \ {j}, jobs[k] # None, NEW m \in markers, Marks(m, k)
          PROVE  m \in markers'
      BY <2>1, <2>4, <2>5 DEF MarkerInv, OneSwapPerRow, MarkersWithout, Marks
    <2>6. SwapIsMarked'
      <3>. SUFFICES ASSUME NEW k \in Jobs, jobs'[k] # None
                    PROVE  \E m \in markers' :
                             /\ m.item = jobs'[k].item /\ m.id = jobs'[k].id
                             /\ m.ver = jobs'[k].ver
                             /\ jobs'[k].copy \subseteq PathsIn(m.item, m.ver)
                             /\ jobs'[k].stale \subseteq m.old
        BY DEF SwapIsMarked
      <3>1. k # j /\ jobs'[k] = jobs[k]
        BY <2>2
      <3>2. PICK m \in markers : Marks(m, k)
        BY <3>1 DEF MarkerInv, SwapIsMarked, Marks
      <3>. QED BY <2>5, <3>1, <3>2 DEF Marks
    <2>. QED BY <2>3, <2>6
  <1>. QED BY <1>1, <1>2, <1>3

LEMMA NextKeepsMarkers == MarkerInv /\ [Next]_vars => MarkerInv'
  <1>. SUFFICES ASSUME MarkerInv, [Next]_vars PROVE (OneSwapPerRow /\ SwapIsMarked)'
    BY NextTyped DEF MarkerInv
  <1>1. CASE UNCHANGED vars
    BY <1>1, MarkersKept DEF vars
  <1>2. ASSUME NEW i \in Items, NEW v \in Versions,
               InstallFromArchive(i, v) \/ UpdateFromArchive(i, v)
        PROVE  (OneSwapPerRow /\ SwapIsMarked)'
    BY <1>2, MarkersKept DEF InstallFromArchive, InstallRows, UpdateFromArchive, process
  <1>3. ASSUME NEW i \in Items, NEW v \in Versions,
               InstallHalts(i, v) \/ UpdateHalts(i, v)
        PROVE  (OneSwapPerRow /\ SwapIsMarked)'
    BY <1>3, HaltsKeepsMarkers DEF InstallHalts, InstallRows, UpdateHalts, db
  <1>4. ASSUME NEW i \in Items,
               \/ RemoveById(i) \/ DisableMod(i) \/ DisableAddon(i)
               \/ EnableMod(i) \/ EnableAddon(i)
        PROVE  (OneSwapPerRow /\ SwapIsMarked)'
    BY <1>4, MarkersKept DEF RemoveById, DisableMod, DisableAddon, EnableMod, EnableAddon,
                             SetDisabled, process
  <1>5. ASSUME NEW i \in Items, RemoveHalts(i) \/ DisableHalts(i) \/ EnableHalts(i)
        PROVE  (OneSwapPerRow /\ SwapIsMarked)'
    BY <1>5, HaltsKeepsMarkers DEF RemoveHalts, DisableHalts, EnableHalts, db
  <1>6. CASE Crash \/ Restart \/ Serve
    <2>1. CASE Crash
      BY <2>1, MarkersKept DEF Crash
    <2>2. CASE Restart \/ Serve
      BY <2>2, MarkersKept DEF Restart, Serve, db
    <2>. QED BY <1>6, <2>1, <2>2
  <1>7. ASSUME NEW m \in recover, RecoverSingleUpdate(m) \/ RecoverHalts(m)
        PROVE  (OneSwapPerRow /\ SwapIsMarked)'
    <2>1. UNCHANGED jobs /\ status = "recovering"
      BY <1>7 DEF RecoverSingleUpdate, RecoverHalts
    <2>. QED BY <2>1, MarkersKept DEF MarkerInv, TypeInv, ProcessOK
  <1>. QED BY <1>1, <1>2, <1>3, <1>4, <1>5, <1>6, <1>7, JobKeepsMarkers DEF Next

LEMMA InitMarkers == Init => MarkerInv
  BY InitTyped DEF Init, MarkerInv, OneSwapPerRow, SwapIsMarked

\* No two updates swap the files of one row at the same time.
THEOREM Exclusion == Spec => []OneSwapPerRow
  <1>1. MarkerInv => OneSwapPerRow
    BY DEF MarkerInv
  <1>. QED BY <1>1, InitMarkers, NextKeepsMarkers, PTL DEF Spec

\* An update between its steps always has its marker, with its files in it.
THEOREM Marked == Spec => []SwapIsMarked
  <1>1. MarkerInv => SwapIsMarked
    BY DEF MarkerInv
  <1>. QED BY <1>1, InitMarkers, NextKeepsMarkers, PTL DEF Spec

\* Every swap under way is alone on its row and known to recovery.
THEOREM Guarded == Spec => []SwapsAreGuarded
  <1>1. OneSwapPerRow /\ SwapIsMarked => SwapsAreGuarded
    BY DEF SwapsAreGuarded
  <1>. QED BY <1>1, Exclusion, Marked, PTL

------------------------------------------------------------------------------
(* The rows.                                                                *)

RowsInv == RecordsAreOneVersion /\ NothingDangles
RecordInv == TypeInv /\ RowsInv

LEMMA RecordedFiles ==
  ASSUME RecordInv, NEW i \in Items, NEW v \in Versions, CanRecord(i, v),
         files' = RecordFiles(i, v)
  PROVE  /\ FilesOf(i)' = PathsIn(i, v)
         /\ \A p \in PathsIn(i, v) : files'[p].hash = Archive[i][v][p]
         /\ \A k \in Items \ {i} :
              /\ FilesOf(k)' = FilesOf(k)
              /\ \A p \in FilesOf(k) : files'[p] = files[p]
         /\ \A p \in Paths : files'[p] # None =>
              files'[p].item = i \/ (files'[p] = files[p] /\ files[p].item # i)
  <1>1. PathsIn(i, v) \subseteq Paths
    BY PathsInType
  <1>2. \A p \in Paths :
          files'[p] = IF p \in PathsIn(i, v) THEN [item |-> i, hash |-> Archive[i][v][p]]
                      ELSE IF files[p] # None /\ files[p].item = i THEN None
                      ELSE files[p]
    BY DEF RecordFiles, FilesOf
  <1>3. \A p \in PathsIn(i, v) :
          /\ files'[p] # None
          /\ files'[p].item = i
          /\ files'[p].hash = Archive[i][v][p]
    <2>1. None \notin FileRow
      BY NoneIsNoRow
    <2>2. \A p \in PathsIn(i, v) : [item |-> i, hash |-> Archive[i][v][p]] \in FileRow
      BY PathsInType DEF FileRow
    <2>. TAKE p \in PathsIn(i, v)
    <2>3. files'[p] = [item |-> i, hash |-> Archive[i][v][p]]
      BY <1>1, <1>2
    <2>4. files'[p].item = i /\ files'[p].hash = Archive[i][v][p]
      BY <2>3
    <2>. QED BY <2>1, <2>2, <2>3, <2>4
  <1>4. FilesOf(i)' = PathsIn(i, v)
    <2>1. \A p \in Paths : files'[p] # None /\ files'[p].item = i <=> p \in PathsIn(i, v)
      <3>. TAKE p \in Paths
      <3>1. CASE p \in PathsIn(i, v)
        BY <1>2, <1>3, <3>1
      <3>2. CASE p \notin PathsIn(i, v)
        BY <1>2, <3>2
      <3>. QED BY <3>1, <3>2
    <2>2. FilesOf(i)' = {p \in Paths : files'[p] # None /\ files'[p].item = i}
      BY DEF FilesOf
    <2>. QED BY <1>1, <2>1, <2>2
  <1>5. ASSUME NEW k \in Items \ {i}
        PROVE  FilesOf(k)' = FilesOf(k) /\ \A p \in FilesOf(k) : files'[p] = files[p]
    <2>1. \A p \in Paths :
            (files'[p] # None /\ files'[p].item = k) <=> (files[p] # None /\ files[p].item = k)
      <3>. TAKE p \in Paths
      <3>1. CASE p \in PathsIn(i, v)
        BY <1>2, <1>3, <3>1 DEF CanRecord
      <3>2. CASE p \notin PathsIn(i, v)
        BY <1>2, <3>2
      <3>. QED BY <3>1, <3>2
    <2>2. \A p \in FilesOf(k) : p \notin PathsIn(i, v)
      BY DEF FilesOf, CanRecord
    <2>. QED BY <1>2, <2>1, <2>2 DEF FilesOf
  <1>6. ASSUME NEW p \in Paths, files'[p] # None
        PROVE  files'[p].item = i \/ (files'[p] = files[p] /\ files[p].item # i)
    <2>1. CASE p \in PathsIn(i, v)
      BY <1>3, <2>1
    <2>2. CASE p \notin PathsIn(i, v) /\ files[p] # None /\ files[p].item = i
      BY <1>2, <1>6, <2>2
    <2>3. CASE p \notin PathsIn(i, v) /\ ~(files[p] # None /\ files[p].item = i)
      <3>1. files'[p] = files[p]
        BY <1>2, <2>3
      <3>. QED BY <1>6, <2>3, <3>1
    <2>. QED BY <2>1, <2>2, <2>3
  <1>. QED BY <1>3, <1>4, <1>5, <1>6

\* Replacing the rows of one item by those of one version of it.
LEMMA ReplaceKeepsRows ==
  ASSUME RecordInv, NEW i \in Items, NEW v \in Versions, CanRecord(i, v),
         files' = RecordFiles(i, v),
         row'[i] # None, row'[i].ver = v,
         \A k \in Items \ {i} : row'[k] = row[k],
         i \in Addons => row[ParentOf[i]] # None
  PROVE  RowsInv'
  <1>1. RecordsAreOneVersion'
    <2>. SUFFICES ASSUME NEW k \in Items, row'[k] # None
                  PROVE  /\ FilesOf(k)' = PathsIn(k, row'[k].ver)
                         /\ \A p \in FilesOf(k)' : files'[p].hash = Archive[k][row'[k].ver][p]
      BY DEF RecordsAreOneVersion, Installed, PathsIn
    <2>1. CASE k = i
      BY <2>1, RecordedFiles
    <2>2. CASE k # i
      BY <2>2, RecordedFiles DEF RecordInv, RowsInv, RecordsAreOneVersion, Installed
    <2>. QED BY <2>1, <2>2
  <1>2. NothingDangles'
    <2>1. ASSUME NEW p \in Paths, files'[p] # None
          PROVE  files'[p].item \in Items /\ row'[files'[p].item] # None
      BY <2>1, RecordedFiles DEF RecordInv, RowsInv, NothingDangles, Installed
    <2>2. ASSUME NEW a \in Addons, row'[a] # None
          PROVE  row'[ParentOf[a]] # None
      <3>1. ParentOf[a] \in Mods /\ a \in Items /\ ParentOf[a] \in Items
        BY ItemAssumption DEF Items
      <3>. QED BY <2>2, <3>1 DEF RecordInv, RowsInv, NothingDangles, Installed
    <2>3. \A a \in Addons : ParentOf[a] \in Items
      BY ItemAssumption DEF Items
    <2>. QED BY <2>1, <2>2, <2>3 DEF NothingDangles, Installed
  <1>. QED BY <1>1, <1>2 DEF RowsInv

LEMMA DeleteKeepsRows ==
  ASSUME RecordInv, NEW S \in SUBSET Items, DeleteRows(S),
         \A a \in Addons : row[a] # None /\ ParentOf[a] \in S => a \in S
  PROVE  RowsInv'
  <1>1. /\ \A k \in Items : row'[k] = IF k \in S THEN None ELSE row[k]
        /\ \A p \in Paths : files'[p] = IF \E k \in S : p \in FilesOf(k) THEN None ELSE files[p]
    BY DEF DeleteRows, Drop
  <1>2. \A k \in Items \ S : FilesOf(k)' = FilesOf(k) /\ \A p \in FilesOf(k) : files'[p] = files[p]
    BY <1>1 DEF FilesOf
  <1>3. RecordsAreOneVersion'
    <2>. SUFFICES ASSUME NEW k \in Items, row'[k] # None
                  PROVE  /\ FilesOf(k)' = PathsIn(k, row'[k].ver)
                         /\ \A p \in FilesOf(k)' : files'[p].hash = Archive[k][row'[k].ver][p]
      BY DEF RecordsAreOneVersion, Installed, PathsIn
    <2>. QED BY <1>1, <1>2 DEF RecordInv, RowsInv, RecordsAreOneVersion, Installed
  <1>4. NothingDangles'
    <2>1. ASSUME NEW p \in Paths, files'[p] # None
          PROVE  files'[p].item \in Items /\ row'[files'[p].item] # None
      <3>1. files'[p] = files[p] /\ \A k \in S : p \notin FilesOf(k)
        BY <1>1, <2>1
      <3>2. files[p].item \in Items /\ row[files[p].item] # None
        BY <2>1, <3>1 DEF RecordInv, RowsInv, NothingDangles, Installed
      <3>3. files[p].item \notin S
        BY <2>1, <3>1 DEF FilesOf
      <3>. QED BY <1>1, <3>1, <3>2, <3>3
    <2>2. ASSUME NEW a \in Addons, row'[a] # None
          PROVE  ParentOf[a] \in Items /\ row'[ParentOf[a]] # None
      <3>1. ParentOf[a] \in Items /\ a \in Items
        BY ItemAssumption DEF Items
      <3>. QED BY <1>1, <2>2, <3>1 DEF RecordInv, RowsInv, NothingDangles, Installed
    <2>. QED BY <2>1, <2>2 DEF NothingDangles, Installed
  <1>. QED BY <1>3, <1>4 DEF RowsInv

------------------------------------------------------------------------------
(* What a step can do to the rows: nothing, or one of four changes.         *)

Replaces(i, v) ==
  /\ row[i] # None
  /\ CanRecord(i, v)
  /\ files' = RecordFiles(i, v)
  /\ row' = [row EXCEPT ![i].ver = v]

Deletes(S) ==
  /\ \A a \in Addons : row[a] # None /\ ParentOf[a] \in S => a \in S
  /\ DeleteRows(S)

Toggles(i) ==
  /\ row[i] # None
  /\ row' = [row EXCEPT ![i].disabled = ~row[i].disabled]
  /\ UNCHANGED files

RowStep ==
  \/ \E i \in Items, v \in Versions : InstallRows(i, v) \/ Replaces(i, v)
  \/ \E S \in SUBSET Items : Deletes(S)
  \/ \E i \in Items : Toggles(i)
  \/ UNCHANGED <<row, files>>

LEMMA RemoveIsRowStep ==
  ASSUME TypeInv, NEW i \in Items, RemoveById(i) \/ RemoveHalts(i)
  PROVE  RowStep
  <1>1. CASE RemoveById(i)
    <2>1. {i} \cup AddonsOf(i) \in SUBSET Items /\ DeleteRows({i} \cup AddonsOf(i))
      BY <1>1 DEF RemoveById, AddonsOf, Items
    <2>2. ASSUME NEW a \in Addons, row[a] # None, ParentOf[a] \in {i} \cup AddonsOf(i)
          PROVE  a \in {i} \cup AddonsOf(i)
      BY <2>2, ItemAssumption DEF AddonsOf
    <2>. QED BY <2>1, <2>2 DEF RowStep, Deletes
  <1>2. CASE RemoveHalts(i)
    <2>1. PICK done \in SUBSET AddonsOf(i) : DeleteRows(done)
      BY <1>2 DEF RemoveHalts
    <2>2. done \in SUBSET Items /\ \A a \in Addons : ParentOf[a] \notin done
      BY ItemAssumption DEF AddonsOf, Items
    <2>. QED BY <2>1, <2>2 DEF RowStep, Deletes
  <1>. QED BY <1>1, <1>2

LEMMA ToggleIsRowStep ==
  ASSUME TypeInv, NEW i \in Items,
         DisableMod(i) \/ DisableAddon(i) \/ EnableMod(i) \/ EnableAddon(i)
  PROVE  RowStep
  <1>1. row[i] # None /\ \E b \in BOOLEAN : SetDisabled(i, b) /\ b = ~row[i].disabled
    <2>1. row[i] # None
      BY DEF DisableMod, DisableAddon, EnableMod, EnableAddon, Installed
    <2>2. row[i].disabled \in BOOLEAN
      BY <2>1 DEF TypeInv, TypeOK
    <2>3. CASE DisableMod(i) \/ DisableAddon(i)
      BY <2>1, <2>2, <2>3 DEF DisableMod, DisableAddon
    <2>4. CASE EnableMod(i) \/ EnableAddon(i)
      BY <2>1, <2>2, <2>4 DEF EnableMod, EnableAddon
    <2>. QED BY <2>3, <2>4
  <1>. QED BY <1>1 DEF SetDisabled, RowStep, Toggles

LEMMA ReplaceIsRowStep ==
  ASSUME TypeInv, NEW i \in Items, NEW v \in Versions, i \in Installed,
         \/ /\ CanRecord(i, v)
            /\ files' = RecordFiles(i, v) /\ row' = [row EXCEPT ![i].ver = v]
         \/ UNCHANGED <<files, row>>
  PROVE  RowStep
  BY DEF RowStep, Replaces, Installed

LEMMA NextIsRowStep == TypeInv /\ [Next]_vars => RowStep
  <1>. SUFFICES ASSUME TypeInv, [Next]_vars PROVE RowStep
    OBVIOUS
  <1>1. CASE UNCHANGED vars
    BY <1>1 DEF vars, RowStep
  <1>2. ASSUME NEW i \in Items, NEW v \in Versions, InstallFromArchive(i, v) \/ InstallHalts(i, v)
        PROVE  RowStep
    <2>1. InstallRows(i, v)
      BY <1>2 DEF InstallFromArchive, InstallHalts
    <2>. QED BY <2>1 DEF RowStep
  <1>3. ASSUME NEW i \in Items, NEW v \in Versions, UpdateFromArchive(i, v)
        PROVE  RowStep
    BY <1>3, ReplaceIsRowStep DEF UpdateFromArchive
  <1>4. ASSUME NEW j \in Jobs, CommitUpdate(j)
        PROVE  RowStep
    <2>1. jobs[j].item \in Items /\ jobs[j].ver \in Versions
      BY <1>4 DEF CommitUpdate, TypeInv, TypeOK, Job
    <2>2. \/ /\ jobs[j].item \in Installed
             /\ CanRecord(jobs[j].item, jobs[j].ver)
             /\ files' = RecordFiles(jobs[j].item, jobs[j].ver)
             /\ row' = [row EXCEPT ![jobs[j].item].ver = jobs[j].ver]
          \/ UNCHANGED <<files, row>>
      BY <1>4 DEF CommitUpdate
    <2>. QED BY <2>1, <2>2, ReplaceIsRowStep DEF RowStep
  <1>5. ASSUME NEW m \in recover, RecoverSingleUpdate(m)
        PROVE  RowStep
    <2>1. m.item \in Items /\ m.ver \in Versions
      BY DEF TypeInv, TypeOK, Marker
    <2>2. \/ /\ m.item \in Installed
             /\ CanRecord(m.item, m.ver)
             /\ files' = RecordFiles(m.item, m.ver)
             /\ row' = [row EXCEPT ![m.item].ver = m.ver]
          \/ UNCHANGED <<files, row>>
      BY <1>5 DEF RecoverSingleUpdate, RecoverForward, RecoverBack
    <2>. QED BY <2>1, <2>2, ReplaceIsRowStep DEF RowStep
  <1>6. ASSUME NEW i \in Items, NEW v \in Versions,
               UpdateHalts(i, v) \/ \E j \in Jobs : MarkUpdate(j, i, v)
        PROVE  RowStep
    BY <1>6 DEF UpdateHalts, MarkUpdate, db, RowStep
  <1>7. ASSUME NEW j \in Jobs, NEW p \in Paths,
               CopyFile(j, p) \/ DeleteStale(j, p)
        PROVE  RowStep
    BY <1>7 DEF CopyFile, DeleteStale, db, RowStep
  <1>8. ASSUME NEW i \in Items, DisableHalts(i) \/ EnableHalts(i)
        PROVE  RowStep
    BY <1>8 DEF DisableHalts, EnableHalts, db, RowStep
  <1>9. ASSUME \/ Crash \/ Restart \/ Serve
               \/ \E j \in Jobs : SwapFails(j)
               \/ \E m \in recover : RecoverHalts(m)
        PROVE  RowStep
    BY <1>9 DEF Crash, Restart, Serve, SwapFails, RecoverHalts, db, RowStep
  <1>10. ASSUME NEW i \in Items,
                \/ RemoveById(i) \/ RemoveHalts(i)
                \/ DisableMod(i) \/ DisableAddon(i) \/ EnableMod(i) \/ EnableAddon(i)
         PROVE  RowStep
    BY <1>10, RemoveIsRowStep, ToggleIsRowStep
  <1>11. CASE Next
    BY <1>2, <1>3, <1>4, <1>5, <1>6, <1>7, <1>8, <1>9, <1>10, <1>11 DEF Next
  <1>. QED BY <1>1, <1>11

LEMMA InstallIsRecordable ==
  ASSUME NEW i \in Items, NEW v \in Versions, InstallRows(i, v)
  PROVE  CanRecord(i, v)
  BY DEF InstallRows, CanRecord

LEMMA RowStepInstalls ==
  ASSUME RecordInv, NEW i \in Items, NEW v \in Versions, InstallRows(i, v)
  PROVE  row'[i] # None
  <1>1. /\ row' = [row EXCEPT ![i] = [id |-> nextId, ver |-> v, disabled |-> FALSE]]
        /\ nextId \in 1..MaxId
    BY BoundAssumption DEF InstallRows, RecordInv, TypeInv, TypeOK
  <1>2. row'[i] = [id |-> nextId, ver |-> v, disabled |-> FALSE]
    BY <1>1 DEF RecordInv, TypeInv, TypeOK
  <1>3. [id |-> nextId, ver |-> v, disabled |-> FALSE] \in Row
    BY <1>1 DEF Row
  <1>. QED BY <1>2, <1>3, NoneAssumption DEF Row

LEMMA RowStepKeepsRows == RecordInv /\ RowStep => RowsInv'
  <1>. SUFFICES ASSUME RecordInv, RowStep PROVE RowsInv'
    OBVIOUS
  <1>0. row \in [Items -> Row \cup {None}]
    BY DEF RecordInv, TypeInv, TypeOK, Row
  <1>1. ASSUME NEW i \in Items, NEW v \in Versions, InstallRows(i, v) PROVE RowsInv'
    <2>1. /\ row' = [row EXCEPT ![i] = [id |-> nextId, ver |-> v, disabled |-> FALSE]]
          /\ files' = RecordFiles(i, v)
          /\ i \in Addons => row[ParentOf[i]] # None
      BY <1>1 DEF InstallRows
    <2>3. /\ row'[i] = [id |-> nextId, ver |-> v, disabled |-> FALSE]
          /\ \A k \in Items \ {i} : row'[k] = row[k]
      BY <1>0, <2>1
    <2>4. row'[i] # None
      BY <1>1, RowStepInstalls
    <2>5. row'[i].ver = v
      BY <2>3
    <2>. QED BY <1>1, <2>1, <2>3, <2>4, <2>5, InstallIsRecordable, ReplaceKeepsRows
  <1>2. ASSUME NEW i \in Items, NEW v \in Versions, Replaces(i, v) PROVE RowsInv'
    <2>1. row[i] \in Row /\ row' = [row EXCEPT ![i].ver = v]
      BY <1>0, <1>2 DEF Replaces
    <2>2. row'[i] = [row[i] EXCEPT !.ver = v] /\ \A k \in Items \ {i} : row'[k] = row[k]
      BY <1>0, <2>1
    <2>3. row'[i] \in Row /\ row'[i].ver = v
      BY <2>1, <2>2 DEF Row
    <2>4. row'[i] # None
      BY <2>3, NoneAssumption DEF Row
    <2>5. i \in Addons => row[ParentOf[i]] # None
      BY <1>2 DEF Replaces, RecordInv, RowsInv, NothingDangles, Installed
    <2>. QED BY <1>2, <2>2, <2>3, <2>4, <2>5, ReplaceKeepsRows DEF Replaces
  <1>3. ASSUME NEW S \in SUBSET Items, Deletes(S) PROVE RowsInv'
    BY <1>3, DeleteKeepsRows DEF Deletes
  <1>4. ASSUME NEW i \in Items, Toggles(i) PROVE RowsInv'
    <2>1. row[i] \in Row /\ row[i] # None
      BY <1>0, <1>4 DEF Toggles
    <2>2. /\ row'[i] = [row[i] EXCEPT !.disabled = ~row[i].disabled]
          /\ \A k \in Items \ {i} : row'[k] = row[k]
      BY <1>0, <1>4 DEF Toggles
    <2>3. row'[i] \in Row /\ row'[i].ver = row[i].ver
      BY <2>1, <2>2 DEF Row
    <2>4. row'[i] # None
      BY <2>3, NoneAssumption DEF Row
    <2>5. \A k \in Items : (row'[k] # None <=> row[k] # None)
                           /\ (row[k] # None => row'[k].ver = row[k].ver)
      BY <2>1, <2>2, <2>3, <2>4
    <2>6. files' = files
      BY <1>4 DEF Toggles
    <2>7. Installed' = Installed
      BY <2>5 DEF Installed
    <2>8. RecordsAreOneVersion'
      BY <2>5, <2>6, <2>7 DEF RecordInv, RowsInv, RecordsAreOneVersion, Installed, FilesOf, PathsIn
    <2>9. NothingDangles'
      BY <2>6, <2>7 DEF RecordInv, RowsInv, NothingDangles
    <2>. QED BY <2>8, <2>9 DEF RowsInv
  <1>5. CASE UNCHANGED <<row, files>>
    BY <1>5 DEF RecordInv, RowsInv, RecordsAreOneVersion, NothingDangles, Installed, FilesOf, PathsIn
  <1>. QED BY <1>1, <1>2, <1>3, <1>4, <1>5 DEF RowStep

LEMMA InitRecords == Init => RecordInv
  BY InitTyped DEF Init, RecordInv, RowsInv, RecordsAreOneVersion, NothingDangles, Installed

LEMMA NextKeepsRecords == RecordInv /\ [Next]_vars => RecordInv'
  BY NextTyped, NextIsRowStep, RowStepKeepsRows DEF RecordInv

\* The file rows of an installed item are always those of one version of it.
THEOREM OneVersion == Spec => []RecordsAreOneVersion
  <1>1. RecordInv => RecordsAreOneVersion
    BY DEF RecordInv, RowsInv
  <1>. QED BY <1>1, InitRecords, NextKeepsRecords, PTL DEF Spec

\* No file row without its item, no addon without its mod.
THEOREM NoDangling == Spec => []NothingDangles
  <1>1. RecordInv => NothingDangles
    BY DEF RecordInv, RowsInv
  <1>. QED BY <1>1, InitRecords, NextKeepsRecords, PTL DEF Spec

\* The rows are those of whole items of one version each.
THEOREM WholeRows == Spec => []RowsAreWhole
  <1>1. RecordsAreOneVersion /\ NothingDangles => RowsAreWhole
    BY DEF RowsAreWhole
  <1>. QED BY <1>1, OneVersion, NoDangling, PTL

------------------------------------------------------------------------------
(* Refinement of ModCatalogue.                                              *)

cat == [i \in Items |-> Entry(i)]

\* The paths the catalogue says an item owns are those of its file rows.
LEMMA OwnsIsFilesOf ==
  ASSUME RecordInv, NEW k \in Items
  PROVE  Catalogue!Owns(k) \subseteq FilesOf(k)
  <1>1. CASE row[k] = None
    BY <1>1 DEF Catalogue!Owns, Entry
  <1>2. CASE row[k] # None
    <2>1. row[k] \in Row
      BY <1>2 DEF RecordInv, TypeInv, TypeOK, Row
    <2>2. Entry(k) = [ver |-> row[k].ver, disabled |-> row[k].disabled]
      BY <1>2 DEF Entry
    <2>3. Entry(k).ver = row[k].ver /\ row[k].ver \in Versions
      BY <2>1, <2>2 DEF Row
    <2>4. FilesOf(k) = PathsIn(k, row[k].ver)
      BY <1>2 DEF RecordInv, RowsInv, RecordsAreOneVersion, Installed
    <2>. QED BY <2>3, <2>4 DEF Catalogue!Owns
  <1>. QED BY <1>1, <1>2

LEMMA RecordableIsAdmissible ==
  ASSUME RecordInv, NEW i \in Items, NEW v \in Versions, CanRecord(i, v)
  PROVE  Catalogue!Admissible(i, v)
  <1>. SUFFICES ASSUME NEW k \in Items \ {i} PROVE Catalogue!Owns(k) \cap PathsIn(i, v) = {}
    BY DEF Catalogue!Admissible, Catalogue!Items, Items
  <1>1. FilesOf(k) \cap PathsIn(i, v) = {}
    BY DEF FilesOf, CanRecord
  <1>. QED BY <1>1, OwnsIsFilesOf

LEMMA EntryIsNone ==
  ASSUME RecordInv, NEW k \in Items
  PROVE  Entry(k) = None <=> row[k] = None
  <1>1. CASE row[k] # None
    <2>1. row[k] \in Row
      BY <1>1 DEF RecordInv, TypeInv, TypeOK, Row
    <2>2. [ver |-> row[k].ver, disabled |-> row[k].disabled] \in [ver : Versions, disabled : BOOLEAN]
      BY <2>1 DEF Row
    <2>. QED BY <1>1, <2>2, NoneAssumption DEF Entry
  <1>. QED BY <1>1 DEF Entry

LEMMA InitRefines == Init => Catalogue!Init
  BY DEF Init, Catalogue!Init, Catalogue!Items, Items, Entry

LEMMA RowStepRefines ==
  ASSUME RecordInv, RecordInv', RowStep
  PROVE  Catalogue!Next \/ UNCHANGED cat
  <1>0. row \in [Items -> Row \cup {None}] /\ row' \in [Items -> Row \cup {None}]
    BY DEF RecordInv, TypeInv, TypeOK, Row
  <1>1. ASSUME NEW i \in Items, NEW v \in Versions, InstallRows(i, v)
        PROVE  Catalogue!Install(i, v)
    <2>1. /\ row[i] = None
          /\ row' = [row EXCEPT ![i] = [id |-> nextId, ver |-> v, disabled |-> FALSE]]
          /\ i \in Addons => row[ParentOf[i]] # None
      BY <1>1 DEF InstallRows
    <2>2. /\ row'[i] = [id |-> nextId, ver |-> v, disabled |-> FALSE]
          /\ \A k \in Items \ {i} : row'[k] = row[k]
      BY <1>0, <2>1
    <2>3. row'[i] # None
      BY <1>1, RowStepInstalls
    <2>4. Entry(i)' = [ver |-> v, disabled |-> FALSE]
      BY <2>2, <2>3 DEF Entry
    <2>5. \A k \in Items \ {i} : Entry(k)' = Entry(k)
      BY <2>2 DEF Entry
    <2>6. cat' = [cat EXCEPT ![i] = [ver |-> v, disabled |-> FALSE]]
      BY <2>4, <2>5 DEF cat
    <2>7. i \in Addons => ParentOf[i] \in Items
      BY ItemAssumption DEF Items
    <2>8. cat[i] = None /\ (i \in Addons => cat[ParentOf[i]] # None)
      BY <2>1, <2>7, EntryIsNone DEF cat
    <2>9. Catalogue!Admissible(i, v)
      BY <1>1, InstallIsRecordable, RecordableIsAdmissible
    <2>. QED BY <2>6, <2>8, <2>9 DEF Catalogue!Install, cat
  <1>2. ASSUME NEW i \in Items, NEW v \in Versions, Replaces(i, v)
        PROVE  Catalogue!Update(i, v)
    <2>1. row[i] # None /\ row[i] \in Row /\ row' = [row EXCEPT ![i].ver = v]
      BY <1>0, <1>2 DEF Replaces
    <2>2. /\ row'[i] = [row[i] EXCEPT !.ver = v]
          /\ \A k \in Items \ {i} : row'[k] = row[k]
      BY <1>0, <2>1
    <2>3. row'[i] \in Row /\ row'[i].ver = v /\ row'[i].disabled = row[i].disabled
      BY <2>1, <2>2 DEF Row
    <2>4. row'[i] # None
      BY <2>3, NoneAssumption DEF Row
    <2>5. Entry(i)' = [ver |-> v, disabled |-> row[i].disabled]
      BY <2>3, <2>4 DEF Entry
    <2>6. \A k \in Items \ {i} : Entry(k)' = Entry(k)
      BY <2>2 DEF Entry
    <2>7. Entry(i).disabled = row[i].disabled /\ Entry(i) # None
      BY <2>1, EntryIsNone DEF Entry
    <2>8. cat' = [cat EXCEPT ![i] = [ver |-> v, disabled |-> cat[i].disabled]]
      BY <2>5, <2>6, <2>7 DEF cat
    <2>9. Catalogue!Admissible(i, v)
      BY <1>2, RecordableIsAdmissible DEF Replaces
    <2>. QED BY <2>7, <2>8, <2>9 DEF Catalogue!Update, cat
  <1>3. ASSUME NEW S \in SUBSET Items, Deletes(S)
        PROVE  Catalogue!Remove(S)
    <2>1. \A k \in Items : row'[k] = IF k \in S THEN None ELSE row[k]
      BY <1>3 DEF Deletes, DeleteRows
    <2>2. \A k \in Items : Entry(k)' = IF k \in S THEN None ELSE Entry(k)
      BY <2>1 DEF Entry
    <2>3. cat' = [k \in Items |-> IF k \in S THEN None ELSE cat[k]]
      BY <2>2 DEF cat
    <2>4. \A a \in Addons : cat[a] # None /\ ParentOf[a] \in S => a \in S
      BY <1>3, EntryIsNone DEF Deletes, cat, Items
    <2>. QED BY <2>3, <2>4 DEF Catalogue!Remove, Catalogue!Items, Items, cat
  <1>4. ASSUME NEW i \in Items, Toggles(i)
        PROVE  Catalogue!Toggle(i)
    <2>. DEFINE b == ~row[i].disabled
    <2>1. row[i] # None /\ row[i] \in Row /\ row' = [row EXCEPT ![i].disabled = b]
      BY <1>0, <1>4 DEF Toggles
    <2>0. b \in BOOLEAN
      OBVIOUS
    <2>. HIDE DEF b
    <2>2. /\ row'[i] = [row[i] EXCEPT !.disabled = b]
          /\ \A k \in Items \ {i} : row'[k] = row[k]
      BY <1>0, <2>1
    <2>3. row'[i] \in Row /\ row'[i].ver = row[i].ver /\ row'[i].disabled = b
      BY <2>0, <2>1, <2>2 DEF Row
    <2>4. row'[i] # None
      BY <2>3, NoneAssumption DEF Row
    <2>5. Entry(i)' = [ver |-> row[i].ver, disabled |-> b]
      BY <2>3, <2>4 DEF Entry
    <2>6. \A k \in Items \ {i} : Entry(k)' = Entry(k)
      BY <2>2 DEF Entry
    <2>7. Entry(i).ver = row[i].ver /\ Entry(i).disabled = row[i].disabled /\ Entry(i) # None
      BY <2>1, EntryIsNone DEF Entry
    <2>8. cat' = [cat EXCEPT ![i] = [ver |-> cat[i].ver, disabled |-> b]]
      BY <2>5, <2>6, <2>7 DEF cat
    <2>9. b = ~cat[i].disabled
      BY <2>7 DEF b, cat
    <2>. QED BY <2>7, <2>8, <2>9 DEF Catalogue!Toggle, cat
  <1>5. CASE UNCHANGED <<row, files>>
    BY <1>5 DEF cat, Entry
  <1>. QED BY <1>1, <1>2, <1>3, <1>4, <1>5 DEF RowStep, Catalogue!Next, Catalogue!Items, Items

\* Every behaviour of the store, with its jobs, failures, crashes and recoveries,
\* is a behaviour of the catalogue that changes by whole operations only.
THEOREM Refinement == Spec => ImplementsCatalogue
  <1>1. RecordInv /\ RecordInv' /\ [Next]_vars => [Catalogue!Next]_cat
    BY RowStepRefines, NextIsRowStep DEF RecordInv
  <1>. QED BY <1>1, InitRefines, InitRecords, NextKeepsRecords, PTL
           DEF Spec, ImplementsCatalogue, Catalogue!Spec, cat

\* What the catalogue promises of paths: no two installed items own the same one,
\* however updates, failures and recoveries interleave (file_path is UNIQUE).
THEOREM Owners == Spec => []Catalogue!OneOwner
  <1>1. RecordInv => Catalogue!OneOwner
    BY OwnsIsFilesOf DEF Catalogue!OneOwner, Catalogue!Items, Items, FilesOf
  <1>. QED BY <1>1, InitRecords, NextKeepsRecords, PTL DEF Spec

------------------------------------------------------------------------------
(* The disk: what one item's operations do to the files of another.         *)

\* Some version of i has file p with this content.
Brings(i, p, content) ==
  \E v \in Versions : p \in PathsIn(i, v) /\ content = Archive[i][v][p]

\* Every file on disk came from an archive.
FromArchives ==
  \A r \in Roots, p \in Paths :
    disk[r][p] # None => \E i \in Items : Brings(i, p, disk[r][p])

\* What a job is still to delete was in an archive of its item.
StaleOK ==
  \A j \in Jobs : jobs[j] # None =>
    \A p \in jobs[j].stale : \E v \in Versions : p \in PathsIn(jobs[j].item, v)

DiskInv == RecordInv /\ FromArchives /\ StaleOK

LEMMA PutAt ==
  ASSUME NEW c, NEW S, NEW t, NEW p \in Paths
  PROVE  Put(c, S, t)[p] = IF p \in S THEN t[p] ELSE c[p]
  BY DEF Put

LEMMA DropAt ==
  ASSUME NEW c, NEW S, NEW p \in Paths
  PROVE  Drop(c, S)[p] = IF p \in S THEN None ELSE c[p]
  BY DEF Drop

LEMMA RootAt ==
  ASSUME TypeOK, NEW r \in Roots, NEW c, NEW x \in Roots, disk' = [disk EXCEPT ![r] = c]
  PROVE  disk'[x] = IF x = r THEN c ELSE disk[x]
  BY DEF TypeOK

LEMMA MoveAt ==
  ASSUME TypeOK, NEW from \in Roots, NEW to \in Roots, from # to, NEW S, NEW p \in Paths,
         disk' = MoveTo(from, to, S)
  PROVE  /\ disk'[from][p] = IF p \in S THEN None ELSE disk[from][p]
         /\ disk'[to][p] = IF p \in S THEN disk[from][p] ELSE disk[to][p]
  <1>1. /\ disk'[from] = Drop(disk[from], S)
        /\ disk'[to] = Put(disk[to], S, disk[from])
    BY DEF MoveTo, TypeOK
  <1>. QED BY <1>1, PutAt, DropAt

\* What a step can leave at a place: nothing, what was at that path below one of
\* the roots, or a file of an archive.
LeftAt(r, p) ==
  \/ disk'[r][p] = None
  \/ \E x \in Roots : disk'[r][p] = disk[x][p]
  \/ \E i \in Items : Brings(i, p, disk'[r][p])

LEMMA MoveLeaves ==
  ASSUME TypeInv, NEW from \in Roots, NEW to \in Roots, from # to, NEW S,
         disk' = MoveTo(from, to, S), NEW r \in Roots, NEW p \in Paths
  PROVE  LeftAt(r, p)
  <1>1. r = from \/ r = to
    BY DEF Roots
  <1>. QED BY <1>1, MoveAt DEF LeftAt, TypeInv

LEMMA DropLeaves ==
  ASSUME TypeInv, NEW x \in Roots, NEW S, disk' = [disk EXCEPT ![x] = Drop(@, S)],
         NEW r \in Roots, NEW p \in Paths
  PROVE  LeftAt(r, p)
  <1>1. disk'[r] = IF r = x THEN Drop(disk[x], S) ELSE disk[r]
    BY RootAt DEF TypeInv
  <1>. QED BY <1>1, DropAt DEF LeftAt

LEMMA SameLeaves ==
  ASSUME UNCHANGED disk, NEW r \in Roots, NEW p \in Paths
  PROVE  LeftAt(r, p)
  BY DEF LeftAt

LEMMA StepLeaves ==
  ASSUME TypeInv, [Next]_vars, NEW r \in Roots, NEW p \in Paths
  PROVE  LeftAt(r, p)
  <1>0. TypeOK
    BY DEF TypeInv
  <1>1. ASSUME NEW i \in Items, NEW v \in Versions, InstallFromArchive(i, v) \/ InstallHalts(i, v)
        PROVE  LeftAt(r, p)
    <2>1. PICK S \in SUBSET PathsIn(i, v) : disk' = [disk EXCEPT !["live"] = Put(@, S, Archive[i][v])]
      BY <1>1 DEF InstallFromArchive, InstallHalts
    <2>2. disk'[r] = IF r = "live" THEN Put(disk["live"], S, Archive[i][v]) ELSE disk[r]
      BY <1>0, <2>1, RootAt DEF Roots
    <2>. QED BY <2>1, <2>2, PutAt DEF LeftAt, Brings
  <1>2. ASSUME NEW i \in Items, NEW v \in Versions, UpdateFromArchive(i, v) \/ UpdateHalts(i, v)
        PROVE  LeftAt(r, p)
    <2>1. PICK S \in SUBSET PathsIn(i, v) : \E T :
            disk' = [disk EXCEPT ![UpdateRoot(i)] = Drop(Put(@, S, Archive[i][v]), T)]
      BY <1>2 DEF UpdateFromArchive, UpdateHalts
    <2>2. PICK T : disk' = [disk EXCEPT ![UpdateRoot(i)] = Drop(Put(@, S, Archive[i][v]), T)]
      BY <2>1
    <2>3. UpdateRoot(i) \in Roots
      BY RootOfType DEF UpdateRoot
    <2>4. disk' = [disk EXCEPT ![UpdateRoot(i)] = Drop(Put(disk[UpdateRoot(i)], S, Archive[i][v]), T)]
      BY <2>2
    <2>5. disk'[r] = IF r = UpdateRoot(i) THEN Drop(Put(disk[UpdateRoot(i)], S, Archive[i][v]), T)
                     ELSE disk[r]
      BY <1>0, <2>3, <2>4, RootAt
    <2>6. CASE r # UpdateRoot(i)
      BY <2>5, <2>6 DEF LeftAt
    <2>7. CASE r = UpdateRoot(i)
      <3>1. disk'[r][p] = IF p \in T THEN None
                          ELSE IF p \in S THEN Archive[i][v][p] ELSE disk[r][p]
        BY <2>5, <2>7, PutAt, DropAt
      <3>. QED BY <3>1 DEF LeftAt, Brings
    <2>. QED BY <2>6, <2>7
  <1>3. ASSUME NEW j \in Jobs, NEW q \in Paths, CopyFile(j, q)
        PROVE  LeftAt(r, p)
    <2>1. /\ jobs[j] \in Job /\ q \in PathsIn(jobs[j].item, jobs[j].ver)
          /\ disk' = [disk EXCEPT ![jobs[j].root][q] = Archive[jobs[j].item][jobs[j].ver][q]]
      BY <1>3 DEF CopyFile, TypeInv, TypeOK, CopyOK
    <2>2. jobs[j].item \in Items /\ jobs[j].ver \in Versions
      BY <2>1 DEF Job
    <2>3. \/ disk'[r][p] = disk[r][p]
          \/ p = q /\ disk'[r][p] = Archive[jobs[j].item][jobs[j].ver][q]
      BY <1>0, <2>1 DEF TypeOK
    <2>4. CASE p = q /\ disk'[r][p] = Archive[jobs[j].item][jobs[j].ver][q]
      <3>1. Brings(jobs[j].item, p, disk'[r][p])
        BY <2>1, <2>2, <2>4 DEF Brings
      <3>. QED BY <2>2, <3>1 DEF LeftAt
    <2>5. CASE disk'[r][p] = disk[r][p]
      BY <2>5 DEF LeftAt
    <2>. QED BY <2>3, <2>4, <2>5
  <1>4. ASSUME NEW j \in Jobs, NEW q \in Paths, DeleteStale(j, q)
        PROVE  LeftAt(r, p)
    <2>1. disk'[r][p] = disk[r][p] \/ disk'[r][p] = None
      BY <1>0, <1>4 DEF DeleteStale, TypeOK
    <2>. QED BY <2>1 DEF LeftAt
  <1>5. ASSUME NEW i \in Items, RemoveById(i) \/ RemoveHalts(i)
        PROVE  LeftAt(r, p)
    <2>1. \A S : DeletedFrom(S)[r][p] = None \/ DeletedFrom(S)[r][p] = disk[r][p]
      BY DropAt DEF DeletedFrom
    <2>2. CASE RemoveById(i)
      <3>1. disk'[r][p] = DeletedFrom({i} \cup AddonsOf(i))[r][p]
        BY <2>2 DEF RemoveById
      <3>2. disk'[r][p] = None \/ disk'[r][p] = disk[r][p]
        BY <2>1, <3>1
      <3>. QED BY <3>2 DEF LeftAt
    <2>3. CASE RemoveHalts(i)
      <3>1. PICK done, next, lost :
              disk' = [DeletedFrom(done) EXCEPT ![RootOf(row[next].disabled)] = Drop(@, lost)]
        BY <2>3 DEF RemoveHalts
      <3>2. DeletedFrom(done) \in [Roots -> [Paths -> Content]]
        BY <1>0, DeletedFromType
      <3>3. \/ disk'[r] = DeletedFrom(done)[r]
            \/ disk'[r] = Drop(DeletedFrom(done)[r], lost)
        BY <3>1, <3>2
      <3>4. disk'[r][p] = None \/ disk'[r][p] = DeletedFrom(done)[r][p]
        BY <3>3, DropAt
      <3>5. DeletedFrom(done)[r][p] = None \/ DeletedFrom(done)[r][p] = disk[r][p]
        BY <2>1
      <3>6. disk'[r][p] = None \/ disk'[r][p] = disk[r][p]
        BY <3>4, <3>5
      <3>. QED BY <3>6 DEF LeftAt
    <2>. QED BY <1>5, <2>2, <2>3
  <1>6. ASSUME NEW i \in Items, \/ DisableMod(i) \/ DisableAddon(i)
                                \/ EnableMod(i) \/ EnableAddon(i) \/ EnableHalts(i)
        PROVE  LeftAt(r, p)
    <2>1. \E S : disk' = MoveTo("live", "stash", S) \/ disk' = MoveTo("stash", "live", S)
      BY <1>6 DEF DisableMod, DisableAddon, EnableMod, EnableAddon, EnableHalts
    <2>. QED BY <2>1, MoveLeaves DEF Roots
  <1>7. ASSUME NEW i \in Items, DisableHalts(i)
        PROVE  LeftAt(r, p)
    <2>1. PICK done, moves :
            disk' = [live |-> Drop(disk["live"], done),
                     stash |-> Put(Drop(disk["stash"], moves), done, disk["live"])]
      BY <1>7 DEF DisableHalts
    <2>2. /\ disk'["live"] = Drop(disk["live"], done)
          /\ disk'["stash"] = Put(Drop(disk["stash"], moves), done, disk["live"])
      BY <2>1
    <2>3. disk'["live"][p] = IF p \in done THEN None ELSE disk["live"][p]
      BY <2>2, DropAt
    <2>4. disk'["stash"][p] = IF p \in done THEN disk["live"][p]
                             ELSE IF p \in moves THEN None ELSE disk["stash"][p]
      BY <2>2, DropAt, PutAt
    <2>. QED BY <2>3, <2>4 DEF LeftAt, Roots
  <1>8. ASSUME NEW m \in recover, RecoverSingleUpdate(m) \/ RecoverHalts(m)
        PROVE  LeftAt(r, p)
    <2>1. UNCHANGED disk \/ \E S : disk' = [disk EXCEPT ![RootOf(row[m.item].disabled)] = Drop(@, S)]
      BY <1>8 DEF RecoverSingleUpdate, RecoverForward, RecoverBack, RecoverHalts
    <2>. QED BY <2>1, DropLeaves, SameLeaves, RootOfType
  <1>9. CASE \/ Crash \/ Restart \/ Serve \/ UNCHANGED vars
             \/ \E j \in Jobs : CommitUpdate(j) \/ SwapFails(j)
             \/ \E j \in Jobs, i \in Items, v \in Versions : MarkUpdate(j, i, v)
    BY <1>9, SameLeaves DEF Crash, Restart, Serve, CommitUpdate, SwapFails, MarkUpdate, vars
  <1>. QED BY <1>1, <1>2, <1>3, <1>4, <1>5, <1>6, <1>7, <1>8, <1>9 DEF Next

\* The jobs after a step: no more to delete than before, but for a new job.
LEMMA StaleKept ==
  ASSUME RecordInv, StaleOK, [Next]_vars
  PROVE  StaleOK'
  <1>0. TypeInv /\ TypeOK /\ jobs \in [Jobs -> Job \cup {None}]
    BY DEF RecordInv, TypeInv, TypeOK
  <1>1. CASE UNCHANGED jobs \/ \A j \in Jobs : jobs'[j] = None
    BY <1>1 DEF StaleOK, PathsIn
  <1>2. ASSUME NEW kind, Halts(kind) PROVE StaleOK'
    BY <1>1, <1>2 DEF Halts
  <1>3. ASSUME NEW j \in Jobs, NEW i \in Items, NEW v \in Versions, MarkUpdate(j, i, v)
        PROVE  StaleOK'
    <2>. DEFINE job == [item |-> i, id |-> row[i].id, ver |-> v, root |-> UpdateRoot(i),
                        copy |-> PathsIn(i, v), stale |-> FilesOf(i) \ PathsIn(i, v)]
    <2>1. jobs' = [jobs EXCEPT ![j] = job] /\ i \in Installed
      BY <1>3 DEF MarkUpdate
    <2>2. row[i] \in Row /\ FilesOf(i) = PathsIn(i, row[i].ver)
      BY <1>0, <2>1 DEF RecordInv, RowsInv, RecordsAreOneVersion, Installed, TypeOK, Row
    <2>3. \A p \in FilesOf(i) : \E w \in Versions : p \in PathsIn(i, w)
      BY <2>2 DEF Row
    <2>4. job.item = i /\ job.stale \subseteq FilesOf(i)
      OBVIOUS
    <2>. HIDE DEF job
    <2>5. \A k \in Jobs : jobs'[k] = IF k = j THEN job ELSE jobs[k]
      BY <1>0, <2>1
    <2>. QED BY <2>3, <2>4, <2>5 DEF StaleOK, PathsIn
  <1>4. ASSUME NEW j \in Jobs, NEW p \in Paths, CopyFile(j, p) \/ DeleteStale(j, p)
        PROVE  StaleOK'
    <2>1. /\ jobs[j] # None /\ jobs[j] \in Job
          /\ \/ jobs' = [jobs EXCEPT ![j].copy = @ \ {p}]
             \/ jobs' = [jobs EXCEPT ![j].stale = @ \ {p}]
      BY <1>0, <1>4 DEF CopyFile, DeleteStale
    <2>2. /\ jobs'[j].item = jobs[j].item /\ jobs'[j].stale \subseteq jobs[j].stale
          /\ \A k \in Jobs \ {j} : jobs'[k] = jobs[k]
      BY <1>0, <2>1 DEF Job
    <2>. QED BY <2>1, <2>2 DEF StaleOK, PathsIn
  <1>5. ASSUME NEW j \in Jobs, CommitUpdate(j) \/ SwapFails(j)
        PROVE  StaleOK'
    <2>1. \A k \in Jobs : jobs'[k] = IF k = j THEN None ELSE jobs[k]
      BY <1>0, <1>5 DEF CommitUpdate, SwapFails
    <2>. QED BY <2>1 DEF StaleOK, PathsIn
  <1>6. CASE \E i \in Items : \E v \in Versions :
               InstallFromArchive(i, v) \/ UpdateFromArchive(i, v)
    BY <1>1, <1>6 DEF InstallFromArchive, UpdateFromArchive, process
  <1>7. CASE \E i \in Items : \E v \in Versions : InstallHalts(i, v) \/ UpdateHalts(i, v)
    BY <1>2, <1>7 DEF InstallHalts, UpdateHalts
  <1>8. CASE \E i \in Items : \/ RemoveById(i) \/ DisableMod(i) \/ DisableAddon(i)
                              \/ EnableMod(i) \/ EnableAddon(i)
    BY <1>1, <1>8 DEF RemoveById, DisableMod, DisableAddon, EnableMod, EnableAddon, process
  <1>9. CASE \E i \in Items : RemoveHalts(i) \/ DisableHalts(i) \/ EnableHalts(i)
    BY <1>2, <1>9 DEF RemoveHalts, DisableHalts, EnableHalts
  <1>10. CASE \/ Crash \/ Restart \/ Serve \/ UNCHANGED vars
              \/ \E m \in recover : RecoverSingleUpdate(m) \/ RecoverHalts(m)
    BY <1>1, <1>10 DEF Crash, Restart, Serve, RecoverSingleUpdate, RecoverHalts, vars
  <1>. QED BY <1>3, <1>4, <1>5, <1>6, <1>7, <1>8, <1>9, <1>10 DEF Next

LEMMA NextKeepsDisk == DiskInv /\ [Next]_vars => DiskInv'
  <1>. SUFFICES ASSUME DiskInv, [Next]_vars PROVE DiskInv'
    OBVIOUS
  <1>1. RecordInv' /\ StaleOK'
    BY NextKeepsRecords, StaleKept DEF DiskInv
  <1>2. ASSUME NEW r \in Roots, NEW p \in Paths, disk'[r][p] # None
        PROVE  \E i \in Items : Brings(i, p, disk'[r][p])
    BY <1>2, StepLeaves DEF LeftAt, DiskInv, RecordInv, FromArchives
  <1>3. FromArchives'
    BY <1>2 DEF FromArchives, Brings, PathsIn
  <1>. QED BY <1>1, <1>3 DEF DiskInv

LEMMA InitDisk == Init => DiskInv
  BY InitRecords DEF Init, DiskInv, FromArchives, StaleOK

\* A file of item i on disk, as the property watches it: i is settled and enabled.
Watched(i, p) ==
  files[p] # None /\ files[p].item = i /\ Settled(i) /\ Enabled(i)

LEMMA OwnedAlone ==
  ASSUME RecordInv, ArchivesApart, NEW p \in Paths, NEW i \in Items, Watched(i, p)
  PROVE  /\ row[i] \in Row /\ FilesOf(i) = PathsIn(i, row[i].ver) /\ p \in PathsIn(i, row[i].ver)
         /\ \A k \in Items : k # i => p \notin FilesOf(k) /\ \A v \in Versions : p \notin PathsIn(k, v)
  <1>1. row[i] \in Row
    BY DEF Watched, Settled, Installed, RecordInv, TypeInv, TypeOK, Row
  <1>2. FilesOf(i) = PathsIn(i, row[i].ver)
    BY DEF Watched, Settled, RecordInv, RowsInv, RecordsAreOneVersion
  <1>3. p \in FilesOf(i)
    BY DEF Watched, FilesOf
  <1>4. \A k \in Items : k # i => p \notin FilesOf(k)
    BY DEF Watched, FilesOf
  <1>. QED BY <1>1, <1>2, <1>3, <1>4 DEF ArchivesApart, Row

\* With archives apart no other item owns a path of a version of i.
LEMMA ApartCanRecord ==
  ASSUME RecordInv, ArchivesApart, NEW i \in Items, NEW v \in Versions
  PROVE  CanRecord(i, v)
  <1>1. SUFFICES ASSUME NEW q \in PathsIn(i, v), files[q] # None, files[q].item # i
                 PROVE  FALSE
    BY DEF CanRecord
  <1>. DEFINE k == files[q].item
  <1>2. q \in Paths
    BY PathsInType
  <1>3. k \in Installed /\ k \in Items /\ q \in FilesOf(k)
    BY <1>1, <1>2 DEF RecordInv, RowsInv, NothingDangles, FilesOf, Installed
  <1>4. q \in PathsIn(k, row[k].ver) /\ row[k].ver \in Versions
    BY <1>3 DEF RecordInv, RowsInv, RecordsAreOneVersion, TypeInv, TypeOK, Installed
  <1>. QED BY <1>1, <1>3, <1>4 DEF ArchivesApart

LEMMA UpdateKeeps ==
  ASSUME DiskInv, ArchivesApart, NEW p \in Paths, NEW i \in Items, Watched(i, p),
         row'[i] = row[i], disk["live"][p] # None,
         NEW k \in Items, NEW v \in Versions,
         UpdateFromArchive(k, v) \/ (UpdateHalts(k, v) /\ k # i)
  PROVE  disk'["live"][p] # None
  <1>. DEFINE stale == FilesOf(k) \ PathsIn(k, v)
  <1>0. TypeOK /\ RecordInv
    BY DEF DiskInv, RecordInv, TypeInv
  <1>1. p \notin stale
    <2>1. CASE k # i
      BY <1>0, <2>1, OwnedAlone
    <2>2. CASE k = i /\ UpdateFromArchive(k, v)
      <3>1. row' = [row EXCEPT ![i].ver = v]
        BY <1>0, <2>2, ApartCanRecord DEF UpdateFromArchive
      <3>2. row[i].ver = v
        BY <1>0, <3>1, OwnedAlone DEF Row, TypeOK
      <3>. QED BY <1>0, <2>2, <3>2, OwnedAlone
    <2>. QED BY <2>1, <2>2
  <1>2. PICK S \in SUBSET PathsIn(k, v) : \E T \in SUBSET stale :
          disk' = [disk EXCEPT ![UpdateRoot(k)] = Drop(Put(@, S, Archive[k][v]), T)]
    BY DEF UpdateFromArchive, UpdateHalts
  <1>3. PICK T \in SUBSET stale :
          disk' = [disk EXCEPT ![UpdateRoot(k)] = Drop(Put(@, S, Archive[k][v]), T)]
    BY <1>2
  <1>4. disk' = [disk EXCEPT ![UpdateRoot(k)] = Drop(Put(disk[UpdateRoot(k)], S, Archive[k][v]), T)]
    BY <1>3
  <1>5. UpdateRoot(k) \in Roots /\ "live" \in Roots
    BY RootOfType DEF UpdateRoot, Roots
  <1>6. disk'["live"] = IF "live" = UpdateRoot(k)
                        THEN Drop(Put(disk[UpdateRoot(k)], S, Archive[k][v]), T)
                        ELSE disk["live"]
    BY <1>0, <1>4, <1>5, RootAt
  <1>7. CASE "live" = UpdateRoot(k)
    <2>1. disk'["live"][p] = IF p \in T THEN None
                             ELSE IF p \in S THEN Archive[k][v][p] ELSE disk["live"][p]
      BY <1>6, <1>7, PutAt, DropAt
    <2>2. p \in S => Archive[k][v][p] # None
      BY PathsInType, ItemAssumption
    <2>. QED BY <1>1, <2>1, <2>2
  <1>. QED BY <1>6, <1>7

\* A mod that is disabled leaves the file of another enabled item.
LEMMA MovesOthers ==
  ASSUME RecordInv, ArchivesApart, NEW p \in Paths, NEW i \in Items, Watched(i, p),
         NEW k \in Items, k # i
  PROVE  p \notin DisableMoves(k)
  <1>1. p \notin FilesOf(k)
    BY OwnedAlone
  <1>2. ASSUME NEW d \in TopDirs(k) \ SharedDirs(k), p \in In(d)
        PROVE  FALSE
    <2>1. d \in Dirs /\ DirOf[p] = d
      BY <1>2 DEF TopDirs, In
    <2>2. p \in Under[d]
      BY <2>1, DirAssumption
    <2>. QED BY <1>2, <2>2 DEF SharedDirs, Watched
  <1>3. p \notin Loose(k)
    BY <1>1 DEF Loose
  <1>4. p \notin UNION {FilesOf(k) \cap Under[d] : d \in SharedDirs(k)}
    BY <1>1
  <1>. QED BY <1>2, <1>3, <1>4 DEF DisableMoves

LEMMA DeletedOthers ==
  ASSUME NEW p \in Paths, NEW S, \A k \in S : p \notin FilesOf(k)
  PROVE  DeletedFrom(S)["live"][p] = disk["live"][p]
  <1>. DEFINE T == UNION {FilesOf(i) : i \in {k \in S : RootOf(row[k].disabled) = "live"}}
  <1>1. p \notin T
    OBVIOUS
  <1>2. DeletedFrom(S)["live"] = Drop(disk["live"], T)
    BY DEF DeletedFrom, Roots
  <1>. HIDE DEF T
  <1>. QED BY <1>1, <1>2, DropAt

LEMMA StepKeeps ==
  ASSUME DiskInv, ArchivesApart, [Next]_vars, NEW p \in Paths, NEW i \in Items, Watched(i, p),
         row'[i] = row[i], ~OwnHalts(i), disk["live"][p] # None
  PROVE  disk'["live"][p] # None
  <1>0. TypeOK /\ RecordInv /\ status = "up" /\ row[i] # None /\ row[i].disabled = FALSE
    BY DEF DiskInv, RecordInv, TypeInv, TypeOK, Watched, Settled, Enabled, Installed
  <1>1. ASSUME NEW k \in Items, NEW v \in Versions, InstallFromArchive(k, v) \/ InstallHalts(k, v)
        PROVE  disk'["live"][p] # None
    <2>1. PICK S \in SUBSET PathsIn(k, v) : disk' = [disk EXCEPT !["live"] = Put(@, S, Archive[k][v])]
      BY <1>1 DEF InstallFromArchive, InstallHalts
    <2>2. disk'["live"] = Put(disk["live"], S, Archive[k][v])
      BY <1>0, <2>1, RootAt DEF Roots
    <2>3. p \in S => Archive[k][v][p] # None
      BY PathsInType, ItemAssumption
    <2>. QED BY <2>2, <2>3, PutAt
  <1>2. ASSUME NEW k \in Items, NEW v \in Versions, UpdateFromArchive(k, v) \/ UpdateHalts(k, v)
        PROVE  disk'["live"][p] # None
    BY <1>2, UpdateKeeps DEF OwnHalts
  <1>3. ASSUME NEW j \in Jobs, NEW q \in Paths, CopyFile(j, q)
        PROVE  disk'["live"][p] # None
    <2>1. /\ jobs[j] \in Job /\ q \in PathsIn(jobs[j].item, jobs[j].ver)
          /\ disk' = [disk EXCEPT ![jobs[j].root][q] = Archive[jobs[j].item][jobs[j].ver][q]]
      BY <1>0, <1>3 DEF CopyFile, RecordInv, TypeInv, TypeOK, CopyOK
    <2>2. Archive[jobs[j].item][jobs[j].ver][q] # None
      BY <2>1, PathsInType, ItemAssumption DEF Job
    <2>3. disk'["live"][p] = disk["live"][p]
            \/ disk'["live"][p] = Archive[jobs[j].item][jobs[j].ver][q]
      BY <1>0, <2>1 DEF TypeOK, Roots
    <2>. QED BY <2>2, <2>3
  <1>4. ASSUME NEW j \in Jobs, NEW q \in Paths, DeleteStale(j, q)
        PROVE  disk'["live"][p] # None
    <2>1. /\ jobs[j] # None /\ jobs[j] \in Job /\ q \in jobs[j].stale
          /\ disk' = [disk EXCEPT ![jobs[j].root][q] = None]
      BY <1>0, <1>4 DEF DeleteStale, TypeOK
    <2>2. jobs[j].item \in Items /\ jobs[j].item # i
      BY <2>1 DEF Watched, Settled, Updating, Job
    <2>3. \E w \in Versions : q \in PathsIn(jobs[j].item, w)
      BY <2>1 DEF DiskInv, StaleOK
    <2>4. p # q
      BY <1>0, <2>2, <2>3, OwnedAlone
    <2>. QED BY <1>0, <2>1, <2>4 DEF TypeOK, Roots
  <1>5. ASSUME NEW k \in Items, RemoveById(k)
        PROVE  disk'["live"][p] # None
    <2>. DEFINE S == {k} \cup AddonsOf(k)
    <2>1. disk' = DeletedFrom(S) /\ DeleteRows(S)
      BY <1>5 DEF RemoveById
    <2>2. i \notin S
      BY <1>0, <2>1 DEF DeleteRows
    <2>3. S \subseteq Items
      BY DEF AddonsOf, Items
    <2>4. \A x \in S : p \notin FilesOf(x)
      BY <1>0, <2>2, <2>3, OwnedAlone
    <2>. HIDE DEF S
    <2>. QED BY <2>1, <2>4, DeletedOthers
  <1>6. ASSUME NEW k \in Items, RemoveHalts(k)
        PROVE  disk'["live"][p] # None
    <2>1. PICK done \in SUBSET AddonsOf(k) :
            \E next \in IF done = AddonsOf(k) THEN {k} ELSE AddonsOf(k) \ done :
              \E lost \in SUBSET FilesOf(next) :
                disk' = [DeletedFrom(done) EXCEPT ![RootOf(row[next].disabled)] = Drop(@, lost)]
      BY <1>6 DEF RemoveHalts
    <2>2. PICK next \in {k} \cup AddonsOf(k) : \E lost \in SUBSET FilesOf(next) :
            disk' = [DeletedFrom(done) EXCEPT ![RootOf(row[next].disabled)] = Drop(@, lost)]
      BY <2>1
    <2>3. PICK lost \in SUBSET FilesOf(next) :
            disk' = [DeletedFrom(done) EXCEPT ![RootOf(row[next].disabled)] = Drop(@, lost)]
      BY <2>2
    <2>4. /\ i \notin {k} \cup AddonsOf(k)
          /\ {k} \cup AddonsOf(k) \subseteq Items
      BY <1>6 DEF OwnHalts, AddonsOf, Items
    <2>5. p \notin FilesOf(next) /\ \A x \in done : p \notin FilesOf(x)
      BY <1>0, <2>4, OwnedAlone
    <2>6. DeletedFrom(done)["live"][p] = disk["live"][p]
      BY <2>5, DeletedOthers
    <2>7. DeletedFrom(done) \in [Roots -> [Paths -> Content]]
      BY <1>0, DeletedFromType
    <2>8. \/ disk'["live"] = DeletedFrom(done)["live"]
          \/ disk'["live"] = Drop(DeletedFrom(done)["live"], lost)
      BY <2>3, <2>7 DEF Roots
    <2>9. disk'["live"][p] = DeletedFrom(done)["live"][p]
      BY <2>5, <2>8, DropAt
    <2>. QED BY <2>6, <2>9
  <1>7. ASSUME NEW k \in Items, DisableMod(k) \/ DisableAddon(k)
        PROVE  disk'["live"][p] # None
    <2>1. k # i
      BY <1>0, <1>7 DEF DisableMod, DisableAddon, SetDisabled, TypeOK
    <2>2. p \notin DisableMoves(k) /\ p \notin FilesOf(k)
      BY <1>0, <2>1, MovesOthers, OwnedAlone
    <2>3. PICK S : disk' = MoveTo("live", "stash", S) /\ p \notin S
      BY <1>7, <2>2 DEF DisableMod, DisableAddon
    <2>. QED BY <1>0, <2>3, MoveAt DEF Roots
  <1>8. ASSUME NEW k \in Items, DisableHalts(k)
        PROVE  disk'["live"][p] # None
    <2>1. k # i
      BY <1>8 DEF OwnHalts
    <2>2. p \notin DisableMoves(k) /\ p \notin FilesOf(k)
      BY <1>0, <2>1, MovesOthers, OwnedAlone
    <2>3. PICK done : disk'["live"] = Drop(disk["live"], done) /\ p \notin done
      BY <1>8, <2>2 DEF DisableHalts
    <2>. QED BY <2>3, DropAt
  <1>9. ASSUME NEW k \in Items, EnableMod(k) \/ EnableAddon(k) \/ EnableHalts(k)
        PROVE  disk'["live"][p] # None
    <2>0. /\ \A q \in EnableMoves(k) : disk["stash"][q] # None
          /\ \A q \in StashedFiles(k) : disk["stash"][q] # None
      BY DEF EnableMoves, StashedFiles
    <2>1. PICK S : disk' = MoveTo("stash", "live", S) /\ \A q \in S : disk["stash"][q] # None
      BY <1>9, <2>0 DEF EnableMod, EnableAddon, EnableHalts
    <2>. QED BY <1>0, <2>1, MoveAt DEF Roots
  <1>10. CASE \/ Crash \/ Restart \/ Serve \/ UNCHANGED vars
              \/ \E j \in Jobs : CommitUpdate(j) \/ SwapFails(j)
              \/ \E j \in Jobs, k \in Items, v \in Versions : MarkUpdate(j, k, v)
    BY <1>10 DEF Crash, Restart, Serve, CommitUpdate, SwapFails, MarkUpdate, vars
  <1>11. CASE \E m \in recover : RecoverSingleUpdate(m) \/ RecoverHalts(m)
    BY <1>0, <1>11 DEF RecoverSingleUpdate, RecoverHalts
  <1>. QED BY <1>1, <1>2, <1>3, <1>4, <1>5, <1>6, <1>7, <1>8, <1>9, <1>10, <1>11 DEF Next

\* NeighboursUntouched, for any faults, overlaps and numbers of items, if no two
\* items bring the same path: nothing done to other items, halted or not, takes
\* a live file of a settled, enabled item away or gives it other content.
THEOREM Untouched == ArchivesApart => (Spec => NeighboursUntouched)
  <1>. SUFFICES ASSUME ArchivesApart PROVE Spec => NeighboursUntouched
    OBVIOUS
  <1>. DEFINE Kept(p) ==
         LET i == files[p].item IN
         /\ files[p] # None /\ Settled(i) /\ Enabled(i)
         /\ row'[i] = row[i]
         => \/ disk'["live"][p] = disk["live"][p]
            \/ \E v \in Versions : p \in PathsIn(i, v) /\ disk'["live"][p] = Archive[i][v][p]
            \/ OwnHalts(i)
  <1>1. ASSUME DiskInv, [Next]_vars PROVE \A p \in Paths : Kept(p)
    <2>. SUFFICES ASSUME NEW p \in Paths, NEW i \in Items, Watched(i, p),
                         row'[i] = row[i], ~OwnHalts(i),
                         disk'["live"][p] # disk["live"][p]
                  PROVE  \E v \in Versions : p \in PathsIn(i, v) /\ disk'["live"][p] = Archive[i][v][p]
      BY <1>1 DEF Watched, Settled, Installed
    <2>1. disk'["live"][p] # None
      BY <1>1, StepKeeps
    <2>2. PICK k \in Items : Brings(k, p, disk'["live"][p])
      BY <1>1, <2>1, NextKeepsDisk DEF DiskInv, FromArchives, Roots, Brings, PathsIn
    <2>3. k = i
      BY <1>1, <2>2, OwnedAlone DEF Brings, DiskInv
    <2>. QED BY <2>2, <2>3 DEF Brings
  <1>2. DiskInv /\ [Next]_vars => [\A p \in Paths : Kept(p)]_vars
    BY <1>1
  <1>. QED BY <1>2, InitDisk, NextKeepsDisk, PTL DEF Spec, NeighboursUntouched

------------------------------------------------------------------------------
(* The disk: where the files of an item are, if every item has paths and    *)
(* top-level directories of its own.                                        *)

\* A step on item i, or on a mod that takes it along.
ActsOn(i) ==
  \/ \E v \in Versions : \/ InstallFromArchive(i, v) \/ InstallHalts(i, v)
                         \/ UpdateFromArchive(i, v) \/ UpdateHalts(i, v)
  \/ \E j \in Jobs : /\ jobs[j] # None /\ jobs[j].item = i
                     /\ \/ \E q \in Paths : CopyFile(j, q) \/ DeleteStale(j, q)
                        \/ CommitUpdate(j)
  \/ \E k \in Items : i \in {k} \cup AddonsOf(k) /\ (RemoveById(k) \/ RemoveHalts(k))
  \/ DisableMod(i) \/ DisableAddon(i) \/ DisableHalts(i)
  \/ EnableMod(i) \/ EnableAddon(i) \/ EnableHalts(i)
  \/ \E m \in recover : m.item = i /\ (RecoverSingleUpdate(m) \/ RecoverHalts(m))

\* A step leaves path p as it is, below both roots.
Leaves(p) == \A r \in Roots : disk'[r][p] = disk[r][p]

\* p belongs to another item than k.
LEMMA Outside ==
  ASSUME RecordInv, AreasApart, NEW i \in Items, NEW v \in Versions, NEW p \in PathsIn(i, v),
         NEW k \in Items, k # i
  PROVE  /\ p \notin FilesOf(k)
         /\ \A w \in Versions : p \notin PathsIn(k, w)
         /\ p \notin DisableMoves(k)
         /\ p \notin EnableMoves(k)
  <1>1. \A w \in Versions : p \notin PathsIn(k, w)
    BY DEF AreasApart
  <1>2. FilesOf(k) # {} => \E w \in Versions : FilesOf(k) = PathsIn(k, w)
    <2>1. SUFFICES ASSUME FilesOf(k) # {} PROVE \E w \in Versions : FilesOf(k) = PathsIn(k, w)
      OBVIOUS
    <2>2. k \in Installed
      BY <2>1 DEF FilesOf, RecordInv, RowsInv, NothingDangles
    <2>. QED BY <2>2 DEF RecordInv, RowsInv, RecordsAreOneVersion, TypeInv, TypeOK, Installed
  <1>3. p \notin FilesOf(k)
    BY <1>1, <1>2
  <1>4. ASSUME NEW d \in TopDirs(k), DirOf[p] = d PROVE FALSE
    <2>1. PICK q \in FilesOf(k) : DirOf[q] = d
      BY DEF TopDirs
    <2>2. d # None
      BY DirAssumption DEF TopDirs
    <2>. QED BY <1>2, <1>4, <2>1, <2>2 DEF AreasApart
  <1>5. p \notin Loose(k)
    BY <1>3 DEF Loose
  <1>6. p \notin DisableMoves(k)
    BY <1>3, <1>4, <1>5 DEF DisableMoves, In
  <1>7. p \notin EnableMoves(k)
    BY <1>3, <1>4, <1>5 DEF EnableMoves, StashedDirs
  <1>. QED BY <1>1, <1>3, <1>6, <1>7

LEMMA PutDropLeaves ==
  ASSUME TypeOK, NEW x \in Roots, NEW p \in Paths, NEW S, NEW T, NEW t, p \notin S, p \notin T,
         disk' = [disk EXCEPT ![x] = Drop(Put(disk[x], S, t), T)]
  PROVE  Leaves(p)
  <1>. SUFFICES ASSUME NEW r \in Roots PROVE disk'[r][p] = disk[r][p]
    BY DEF Leaves
  <1>1. disk'[r] = IF r = x THEN Drop(Put(disk[x], S, t), T) ELSE disk[r]
    BY RootAt
  <1>. QED BY <1>1, PutAt, DropAt

LEMMA MoveOthers ==
  ASSUME TypeOK, NEW from \in Roots, NEW to \in Roots, from # to, NEW S, NEW p \in Paths,
         p \notin S, disk' = MoveTo(from, to, S)
  PROVE  Leaves(p)
  <1>1. Roots = {from, to}
    BY DEF Roots
  <1>. QED BY <1>1, MoveAt DEF Leaves

LEMMA DropOthers ==
  ASSUME TypeOK, NEW x \in Roots, NEW p \in Paths, NEW S, p \notin S,
         disk' = [disk EXCEPT ![x] = Drop(disk[x], S)]
  PROVE  Leaves(p)
  <1>. SUFFICES ASSUME NEW r \in Roots PROVE disk'[r][p] = disk[r][p]
    BY DEF Leaves
  <1>1. disk'[r] = IF r = x THEN Drop(disk[x], S) ELSE disk[r]
    BY RootAt
  <1>. QED BY <1>1, DropAt

LEMMA RemoveOthers ==
  ASSUME NEW p \in Paths, NEW S, \A k \in S : p \notin FilesOf(k), NEW r \in Roots
  PROVE  DeletedFrom(S)[r][p] = disk[r][p]
  <1>. DEFINE T == UNION {FilesOf(i) : i \in {k \in S : RootOf(row[k].disabled) = r}}
  <1>1. p \notin T
    OBVIOUS
  <1>2. DeletedFrom(S)[r] = Drop(disk[r], T)
    BY DEF DeletedFrom
  <1>. HIDE DEF T
  <1>. QED BY <1>1, <1>2, DropAt

\* What a step on others does to the disk, as far as item i is concerned: nothing.
LEMMA DiskFrame ==
  ASSUME DiskInv, AreasApart, [Next]_vars, NEW i \in Items, ~ActsOn(i),
         NEW v \in Versions, NEW p \in PathsIn(i, v)
  PROVE  Leaves(p)
  <1>0. TypeOK /\ RecordInv /\ p \in Paths
    BY PathsInType DEF DiskInv, RecordInv, TypeInv
  <1>1. ASSUME NEW k \in Items, NEW w \in Versions,
               \/ InstallFromArchive(k, w) \/ InstallHalts(k, w)
               \/ UpdateFromArchive(k, w) \/ UpdateHalts(k, w)
        PROVE  Leaves(p)
    <2>1. k # i
      BY <1>1 DEF ActsOn
    <2>2. p \notin PathsIn(k, w) /\ p \notin FilesOf(k)
      BY <1>0, <2>1, Outside
    <2>3. CASE InstallFromArchive(k, w) \/ InstallHalts(k, w)
      <3>1. PICK S \in SUBSET PathsIn(k, w) : disk' = [disk EXCEPT !["live"] = Put(@, S, Archive[k][w])]
        BY <2>3 DEF InstallFromArchive, InstallHalts
      <3>2. \A r \in Roots : disk'[r] = IF r = "live" THEN Put(disk["live"], S, Archive[k][w]) ELSE disk[r]
        BY <1>0, <3>1, RootAt DEF Roots
      <3>. QED BY <1>0, <2>2, <3>2, PutAt DEF Leaves
    <2>4. CASE UpdateFromArchive(k, w) \/ UpdateHalts(k, w)
      <3>1. PICK S \in SUBSET PathsIn(k, w) : \E T \in SUBSET FilesOf(k) :
              disk' = [disk EXCEPT ![UpdateRoot(k)] = Drop(Put(@, S, Archive[k][w]), T)]
        BY <2>4 DEF UpdateFromArchive, UpdateHalts
      <3>2. PICK T \in SUBSET FilesOf(k) :
              disk' = [disk EXCEPT ![UpdateRoot(k)] = Drop(Put(@, S, Archive[k][w]), T)]
        BY <3>1
      <3>3. disk' = [disk EXCEPT ![UpdateRoot(k)] = Drop(Put(disk[UpdateRoot(k)], S, Archive[k][w]), T)]
        BY <3>2
      <3>4. UpdateRoot(k) \in Roots
        BY RootOfType DEF UpdateRoot
      <3>. QED BY <1>0, <2>2, <3>3, <3>4, PutDropLeaves
    <2>. QED BY <1>1, <2>3, <2>4
  <1>2. ASSUME NEW j \in Jobs, NEW q \in Paths, CopyFile(j, q) \/ DeleteStale(j, q)
        PROVE  Leaves(p)
    <2>1. /\ jobs[j] # None /\ jobs[j] \in Job
          /\ q \in jobs[j].copy \/ q \in jobs[j].stale
          /\ \E c : disk' = [disk EXCEPT ![jobs[j].root][q] = c]
      BY <1>0, <1>2 DEF CopyFile, DeleteStale, TypeOK
    <2>2. jobs[j].item \in Items /\ jobs[j].item # i /\ jobs[j].ver \in Versions
      BY <1>2, <2>1 DEF ActsOn, Job
    <2>3. \E w \in Versions : q \in PathsIn(jobs[j].item, w)
      BY <2>1, <2>2 DEF DiskInv, StaleOK, RecordInv, TypeInv, CopyOK
    <2>4. p # q
      BY <1>0, <2>2, <2>3, Outside
    <2>. QED BY <1>0, <2>1, <2>4 DEF TypeOK, Leaves
  <1>3. ASSUME NEW k \in Items, RemoveById(k) \/ RemoveHalts(k)
        PROVE  Leaves(p)
    <2>1. /\ i \notin {k} \cup AddonsOf(k)
          /\ {k} \cup AddonsOf(k) \subseteq Items
      BY <1>3 DEF ActsOn, AddonsOf, Items
    <2>2. \A x \in {k} \cup AddonsOf(k) : p \notin FilesOf(x)
      BY <1>0, <2>1, Outside
    <2>3. CASE RemoveById(k)
      BY <1>0, <2>2, <2>3, RemoveOthers DEF RemoveById, Leaves
    <2>4. CASE RemoveHalts(k)
      <3>1. PICK done \in SUBSET AddonsOf(k) :
              \E next \in IF done = AddonsOf(k) THEN {k} ELSE AddonsOf(k) \ done :
                \E lost \in SUBSET FilesOf(next) :
                  disk' = [DeletedFrom(done) EXCEPT ![RootOf(row[next].disabled)] = Drop(@, lost)]
        BY <2>4 DEF RemoveHalts
      <3>2. PICK next \in {k} \cup AddonsOf(k) : \E lost \in SUBSET FilesOf(next) :
              disk' = [DeletedFrom(done) EXCEPT ![RootOf(row[next].disabled)] = Drop(@, lost)]
        BY <3>1
      <3>3. PICK lost \in SUBSET FilesOf(next) :
              disk' = [DeletedFrom(done) EXCEPT ![RootOf(row[next].disabled)] = Drop(@, lost)]
        BY <3>2
      <3>. SUFFICES ASSUME NEW r \in Roots PROVE disk'[r][p] = disk[r][p]
        BY DEF Leaves
      <3>4. DeletedFrom(done)[r][p] = disk[r][p]
        BY <1>0, <2>2, RemoveOthers
      <3>5. DeletedFrom(done) \in [Roots -> [Paths -> Content]]
        BY <1>0, DeletedFromType
      <3>6. \/ disk'[r] = DeletedFrom(done)[r]
            \/ disk'[r] = Drop(DeletedFrom(done)[r], lost)
        BY <3>3, <3>5
      <3>7. disk'[r][p] = DeletedFrom(done)[r][p]
        BY <1>0, <2>2, <3>6, DropAt
      <3>. QED BY <3>4, <3>7
    <2>. QED BY <1>3, <2>3, <2>4
  <1>4. ASSUME NEW k \in Items, \/ DisableMod(k) \/ DisableAddon(k)
                                \/ EnableMod(k) \/ EnableAddon(k) \/ EnableHalts(k)
        PROVE  Leaves(p)
    <2>1. k # i
      BY <1>4 DEF ActsOn
    <2>2. p \notin FilesOf(k) /\ p \notin DisableMoves(k) /\ p \notin EnableMoves(k)
      BY <1>0, <2>1, Outside
    <2>3. p \notin StashedFiles(k)
      BY <2>2 DEF StashedFiles
    <2>4. \E S : p \notin S /\ (disk' = MoveTo("live", "stash", S) \/ disk' = MoveTo("stash", "live", S))
      BY <1>4, <2>2, <2>3 DEF DisableMod, DisableAddon, EnableMod, EnableAddon, EnableHalts
    <2>. QED BY <1>0, <2>4, MoveOthers DEF Roots
  <1>5. ASSUME NEW k \in Items, DisableHalts(k)
        PROVE  Leaves(p)
    <2>1. k # i
      BY <1>5 DEF ActsOn
    <2>2. p \notin FilesOf(k) /\ p \notin DisableMoves(k)
      BY <1>0, <2>1, Outside
    <2>3. PICK done, moves :
            /\ p \notin done /\ p \notin moves
            /\ disk' = [live |-> Drop(disk["live"], done),
                        stash |-> Put(Drop(disk["stash"], moves), done, disk["live"])]
      BY <1>5, <2>2 DEF DisableHalts
    <2>4. /\ disk'["live"] = Drop(disk["live"], done)
          /\ disk'["stash"] = Put(Drop(disk["stash"], moves), done, disk["live"])
      BY <2>3
    <2>5. disk'["live"][p] = disk["live"][p] /\ disk'["stash"][p] = disk["stash"][p]
      BY <1>0, <2>3, <2>4, DropAt, PutAt
    <2>. QED BY <2>5 DEF Leaves, Roots
  <1>6. ASSUME NEW m \in recover, RecoverSingleUpdate(m) \/ RecoverHalts(m)
        PROVE  Leaves(p)
    <2>1. m.item \in Items /\ m.ver \in Versions /\ m.item # i
      BY <1>0, <1>6 DEF ActsOn, TypeOK, Marker
    <2>2. p \notin OnlyNew(m)
      BY <1>0, <2>1, Outside DEF OnlyNew
    <2>3. \/ UNCHANGED disk
          \/ \E S : p \notin S /\ disk' = [disk EXCEPT ![RootOf(row[m.item].disabled)] = Drop(@, S)]
      BY <1>6, <2>2 DEF RecoverSingleUpdate, RecoverForward, RecoverBack, RecoverHalts
    <2>. QED BY <1>0, <2>3, DropOthers, RootOfType DEF Leaves
  <1>7. CASE \/ Crash \/ Restart \/ Serve \/ UNCHANGED vars
             \/ \E j \in Jobs : CommitUpdate(j) \/ SwapFails(j)
             \/ \E j \in Jobs, k \in Items, w \in Versions : MarkUpdate(j, k, w)
    BY <1>7 DEF Crash, Restart, Serve, CommitUpdate, SwapFails, MarkUpdate, vars, Leaves
  <1>. QED BY <1>1, <1>2, <1>3, <1>4, <1>5, <1>6, <1>7 DEF Next

LEMMA RowFrame ==
  ASSUME TypeInv, [Next]_vars, NEW i \in Items, ~ActsOn(i)
  PROVE  row'[i] = row[i]
  <1>0. row \in [Items -> Row \cup {None}] /\ i \in Items
    BY DEF TypeInv, TypeOK, Row
  <1>1. ASSUME NEW k \in Items, NEW v \in Versions,
               \/ InstallFromArchive(k, v) \/ InstallHalts(k, v)
               \/ UpdateFromArchive(k, v) \/ UpdateHalts(k, v)
        PROVE  row'[i] = row[i]
    <2>1. k # i
      BY <1>1 DEF ActsOn
    <2>. QED BY <1>0, <1>1, <2>1
             DEF InstallFromArchive, InstallHalts, InstallRows, UpdateFromArchive, UpdateHalts, db
  <1>2. ASSUME NEW j \in Jobs, CommitUpdate(j)
        PROVE  row'[i] = row[i]
    <2>1. jobs[j] # None /\ jobs[j].item # i
      BY <1>2 DEF ActsOn, CommitUpdate
    <2>. QED BY <1>0, <1>2, <2>1 DEF CommitUpdate
  <1>3. ASSUME NEW k \in Items, RemoveById(k) \/ RemoveHalts(k)
        PROVE  row'[i] = row[i]
    <2>1. i \notin {k} \cup AddonsOf(k)
      BY <1>3 DEF ActsOn
    <2>2. PICK S \in SUBSET ({k} \cup AddonsOf(k)) : DeleteRows(S)
      BY <1>3 DEF RemoveById, RemoveHalts
    <2>. QED BY <2>1, <2>2 DEF DeleteRows
  <1>4. ASSUME NEW k \in Items, \/ DisableMod(k) \/ DisableAddon(k) \/ DisableHalts(k)
                                \/ EnableMod(k) \/ EnableAddon(k) \/ EnableHalts(k)
        PROVE  row'[i] = row[i]
    <2>1. k # i
      BY <1>4 DEF ActsOn
    <2>. QED BY <1>0, <1>4, <2>1 DEF DisableMod, DisableAddon, DisableHalts, EnableMod, EnableAddon,
                                     EnableHalts, SetDisabled, db
  <1>5. ASSUME NEW m \in recover, RecoverSingleUpdate(m) \/ RecoverHalts(m)
        PROVE  row'[i] = row[i]
    <2>1. m.item # i
      BY <1>5 DEF ActsOn
    <2>. QED BY <1>0, <1>5, <2>1
             DEF RecoverSingleUpdate, RecoverForward, RecoverBack, RecoverHalts, db
  <1>6. CASE \/ Crash \/ Restart \/ Serve \/ UNCHANGED vars
             \/ \E j \in Jobs : SwapFails(j) \/ \E q \in Paths : CopyFile(j, q) \/ DeleteStale(j, q)
             \/ \E j \in Jobs, k \in Items, v \in Versions : MarkUpdate(j, k, v)
    BY <1>6 DEF Crash, Restart, Serve, SwapFails, CopyFile, DeleteStale, MarkUpdate, vars, db
  <1>. QED BY <1>1, <1>2, <1>3, <1>4, <1>5, <1>6 DEF Next

\* The job of an installed item: what it has copied is there, below the root the
\* item has, and it will delete none of that.
JobOK(j) ==
  /\ jobs[j].item \in Installed /\ row[jobs[j].item].id = jobs[j].id
  /\ jobs[j].root = UpdateRoot(jobs[j].item)
  /\ jobs[j].stale \cap PathsIn(jobs[j].item, jobs[j].ver) = {}
  /\ \A p \in PathsIn(jobs[j].item, jobs[j].ver) \ jobs[j].copy :
       disk[jobs[j].root][p] = Archive[jobs[j].item][jobs[j].ver][p]

SwapInv == DiskInv /\ MarkerInv /\ \A j \in Jobs : jobs[j] # None => JobOK(j)

\* While it is updated, nothing but its own job acts on an item.
LEMMA OnlyItsJob ==
  ASSUME SwapInv, Overlap = {}, [Next]_vars, NEW j \in Jobs, jobs[j] # None, ActsOn(jobs[j].item)
  PROVE  (\E q \in Paths : CopyFile(j, q) \/ DeleteStale(j, q)) \/ CommitUpdate(j)
  <1>. DEFINE i == jobs[j].item
  <1>1. /\ JobOK(j) /\ row[i] # None /\ status = "up" /\ i \in Items
        /\ Updating(i)
    BY DEF SwapInv, JobOK, Installed, MarkerInv, TypeInv, ProcessOK, Updating
  <1>2. \A kind : \A S : MayRun(kind, S) => i \notin S
    BY <1>1 DEF MayRun
  <1>3. \A v \in Versions : ~(\/ InstallFromArchive(i, v) \/ InstallHalts(i, v)
                              \/ UpdateFromArchive(i, v) \/ UpdateHalts(i, v))
    BY <1>1, <1>2 DEF InstallFromArchive, InstallHalts, InstallRows, UpdateFromArchive, UpdateHalts
  <1>4. \A k \in Items : i \in {k} \cup AddonsOf(k) => ~(RemoveById(k) \/ RemoveHalts(k))
    BY <1>2 DEF RemoveById, RemoveHalts
  <1>5. ~(\/ DisableMod(i) \/ DisableAddon(i) \/ DisableHalts(i)
          \/ EnableMod(i) \/ EnableAddon(i) \/ EnableHalts(i))
    <2>1. ~MayRun("toggle", {i}) /\ ~MayRun("toggle", {i} \cup AddonsOf(i))
      BY <1>2
    <2>. QED BY <2>1 DEF DisableMod, DisableAddon, DisableHalts, EnableMod, EnableAddon, EnableHalts
  <1>6. \A m \in recover : ~(RecoverSingleUpdate(m) \/ RecoverHalts(m))
    BY <1>1 DEF RecoverSingleUpdate, RecoverHalts
  <1>7. ASSUME NEW k \in Jobs, jobs[k] # None, jobs[k].item = i PROVE k = j
    BY <1>1, <1>7 DEF SwapInv, JobOK, MarkerInv, OneSwapPerRow
  <1>. QED BY <1>3, <1>4, <1>5, <1>6, <1>7 DEF ActsOn

\* A job that goes on and does not act stays as it is.
LEMMA JobsGoOn ==
  ASSUME TypeInv, [Next]_vars, NEW j \in Jobs, jobs[j] # None, jobs'[j] # None,
         ~\E q \in Paths : CopyFile(j, q) \/ DeleteStale(j, q)
  PROVE  jobs'[j] = jobs[j] /\ ~CommitUpdate(j)
  <1>0. jobs \in [Jobs -> Job \cup {None}]
    BY DEF TypeInv, TypeOK
  <1>1. CASE UNCHANGED jobs \/ \A k \in Jobs : jobs'[k] = None
    BY <1>0, <1>1 DEF CommitUpdate
  <1>2. ASSUME NEW kind, Halts(kind) PROVE jobs'[j] = jobs[j] /\ ~CommitUpdate(j)
    BY <1>1, <1>2 DEF Halts
  <1>3. ~CommitUpdate(j)
    BY <1>0 DEF CommitUpdate
  <1>4. ASSUME NEW k \in Jobs,
               \/ \E q \in Paths : CopyFile(k, q) \/ DeleteStale(k, q)
               \/ CommitUpdate(k) \/ SwapFails(k)
               \/ \E i \in Items, v \in Versions : MarkUpdate(k, i, v)
        PROVE  jobs'[j] = jobs[j]
    <2>1. k # j
      BY <1>0, <1>4 DEF CommitUpdate, SwapFails, MarkUpdate
    <2>. QED BY <1>0, <1>4, <2>1 DEF CopyFile, DeleteStale, CommitUpdate, SwapFails, MarkUpdate
  <1>5. CASE \E i \in Items : \E v \in Versions :
               InstallFromArchive(i, v) \/ UpdateFromArchive(i, v)
    BY <1>1, <1>5 DEF InstallFromArchive, UpdateFromArchive, process
  <1>6. CASE \E i \in Items : \E v \in Versions : InstallHalts(i, v) \/ UpdateHalts(i, v)
    BY <1>2, <1>6 DEF InstallHalts, UpdateHalts
  <1>7. CASE \E i \in Items : \/ RemoveById(i) \/ DisableMod(i) \/ DisableAddon(i)
                              \/ EnableMod(i) \/ EnableAddon(i)
    BY <1>1, <1>7 DEF RemoveById, DisableMod, DisableAddon, EnableMod, EnableAddon, process
  <1>8. CASE \E i \in Items : RemoveHalts(i) \/ DisableHalts(i) \/ EnableHalts(i)
    BY <1>2, <1>8 DEF RemoveHalts, DisableHalts, EnableHalts
  <1>9. CASE \/ Crash \/ Restart \/ Serve \/ UNCHANGED vars
             \/ \E m \in recover : RecoverSingleUpdate(m) \/ RecoverHalts(m)
    BY <1>1, <1>9 DEF Crash, Restart, Serve, RecoverSingleUpdate, RecoverHalts, vars
  <1>. QED BY <1>3, <1>4, <1>5, <1>6, <1>7, <1>8, <1>9 DEF Next

\* A job begins with step 1 of an update.
LEMMA JobsBegin ==
  ASSUME TypeInv, [Next]_vars, NEW j \in Jobs, jobs[j] = None, jobs'[j] # None
  PROVE  \E i \in Items, v \in Versions : MarkUpdate(j, i, v)
  <1>0. jobs \in [Jobs -> Job \cup {None}]
    BY DEF TypeInv, TypeOK
  <1>1. ~(UNCHANGED jobs \/ \A k \in Jobs : jobs'[k] = None)
    OBVIOUS
  <1>2. ~\E kind : Halts(kind)
    BY <1>1 DEF Halts
  <1>3. ASSUME NEW k \in Jobs,
               \/ \E q \in Paths : CopyFile(k, q) \/ DeleteStale(k, q)
               \/ CommitUpdate(k) \/ SwapFails(k)
        PROVE  FALSE
    <2>1. k # j => jobs'[j] = jobs[j]
      BY <1>0, <1>3 DEF CopyFile, DeleteStale, CommitUpdate, SwapFails
    <2>. QED BY <1>0, <1>3, <2>1 DEF CopyFile, DeleteStale, CommitUpdate, SwapFails
  <1>4. ASSUME NEW k \in Jobs, NEW i \in Items, NEW v \in Versions, MarkUpdate(k, i, v)
        PROVE  MarkUpdate(j, i, v)
    BY <1>0, <1>4 DEF MarkUpdate
  <1>5. ~\E i \in Items : \E v \in Versions :
          InstallFromArchive(i, v) \/ UpdateFromArchive(i, v)
    BY <1>1 DEF InstallFromArchive, UpdateFromArchive, process
  <1>6. ~\E i \in Items : \E v \in Versions : InstallHalts(i, v) \/ UpdateHalts(i, v)
    BY <1>2 DEF InstallHalts, UpdateHalts
  <1>7. ~\E i \in Items : \/ RemoveById(i) \/ DisableMod(i) \/ DisableAddon(i)
                            \/ EnableMod(i) \/ EnableAddon(i)
    BY <1>1 DEF RemoveById, DisableMod, DisableAddon, EnableMod, EnableAddon, process
  <1>8. ~\E i \in Items : RemoveHalts(i) \/ DisableHalts(i) \/ EnableHalts(i)
    BY <1>2 DEF RemoveHalts, DisableHalts, EnableHalts
  <1>9. ~(\/ Crash \/ Restart \/ Serve \/ UNCHANGED vars
          \/ \E m \in recover : RecoverSingleUpdate(m) \/ RecoverHalts(m))
    BY <1>1 DEF Crash, Restart, Serve, RecoverSingleUpdate, RecoverHalts, vars
  <1>. QED BY <1>3, <1>4, <1>5, <1>6, <1>7, <1>8, <1>9 DEF Next

LEMMA CopyKeepsJob ==
  ASSUME SwapInv, NEW j \in Jobs, NEW q \in Paths, CopyFile(j, q) \/ DeleteStale(j, q)
  PROVE  JobOK(j)'
  <1>. DEFINE b == jobs[j]
              P == PathsIn(jobs[j].item, jobs[j].ver)
  <1>0. TypeOK /\ JobOK(j) /\ b \in Job /\ b # None
    BY DEF SwapInv, MarkerInv, TypeInv, TypeOK, CopyFile, DeleteStale
  <1>1. /\ jobs' = [jobs EXCEPT ![j].copy = @ \ {q}] \/ jobs' = [jobs EXCEPT ![j].stale = @ \ {q}]
        /\ UNCHANGED <<row, Installed>>
    BY DEF CopyFile, DeleteStale, db, Installed
  <1>2. /\ jobs'[j].item = b.item /\ jobs'[j].id = b.id /\ jobs'[j].ver = b.ver /\ jobs'[j].root = b.root
        /\ jobs'[j].stale \subseteq b.stale
    BY <1>0, <1>1 DEF TypeOK, Job
  <1>3. PathsIn(jobs'[j].item, jobs'[j].ver) = P /\ UpdateRoot(b.item)' = UpdateRoot(b.item)
    BY <1>1, <1>2 DEF PathsIn, UpdateRoot
  <1>4. ASSUME NEW p \in P \ jobs'[j].copy
        PROVE  disk'[b.root][p] = Archive[b.item][b.ver][p]
    <2>0. p \in Paths /\ b.root \in Roots /\ b.item \in Items /\ b.ver \in Versions
      BY <1>0, PathsInType DEF Job
    <2>1. CASE CopyFile(j, q)
      <3>1. /\ disk' = [disk EXCEPT ![b.root][q] = Archive[b.item][b.ver][q]]
            /\ jobs'[j].copy = b.copy \ {q}
        BY <1>0, <2>1 DEF CopyFile, TypeOK, Job
      <3>2. CASE p = q
        BY <1>0, <2>0, <3>1, <3>2 DEF TypeOK
      <3>3. CASE p # q
        <4>1. disk'[b.root][p] = disk[b.root][p]
          BY <1>0, <2>0, <3>1, <3>3 DEF TypeOK
        <4>. QED BY <1>0, <1>4, <3>1, <3>3, <4>1 DEF JobOK
      <3>. QED BY <3>2, <3>3
    <2>2. CASE DeleteStale(j, q)
      <3>1. /\ disk' = [disk EXCEPT ![b.root][q] = None] /\ q \in b.stale
            /\ jobs'[j].copy = b.copy
        BY <1>0, <2>2 DEF DeleteStale, TypeOK, Job
      <3>2. p # q
        BY <1>0, <3>1 DEF JobOK
      <3>3. disk'[b.root][p] = disk[b.root][p]
        BY <1>0, <2>0, <3>1, <3>2 DEF TypeOK
      <3>. QED BY <1>0, <1>4, <3>1, <3>3 DEF JobOK
    <2>. QED BY <2>1, <2>2
  <1>. QED BY <1>0, <1>1, <1>2, <1>3, <1>4 DEF JobOK

LEMMA MarkStartsJob ==
  ASSUME SwapInv, NEW j \in Jobs, NEW i \in Items, NEW v \in Versions, MarkUpdate(j, i, v)
  PROVE  JobOK(j)'
  <1>. DEFINE job == [item |-> i, id |-> row[i].id, ver |-> v, root |-> UpdateRoot(i),
                      copy |-> PathsIn(i, v), stale |-> FilesOf(i) \ PathsIn(i, v)]
  <1>1. jobs' = [jobs EXCEPT ![j] = job] /\ UNCHANGED row /\ i \in Installed
    BY DEF MarkUpdate
  <1>2. jobs'[j] = job
    BY <1>1 DEF SwapInv, MarkerInv, TypeInv, TypeOK
  <1>3. /\ jobs'[j].item = i /\ jobs'[j].id = row[i].id /\ jobs'[j].ver = v
        /\ jobs'[j].root = UpdateRoot(i) /\ jobs'[j].copy = PathsIn(i, v)
        /\ jobs'[j].stale = FilesOf(i) \ PathsIn(i, v)
    BY <1>2
  <1>. HIDE DEF job
  <1>4. UpdateRoot(i)' = UpdateRoot(i) /\ PathsIn(i, v)' = PathsIn(i, v) /\ Installed' = Installed
    BY <1>1 DEF UpdateRoot, PathsIn, Installed
  <1>. QED BY <1>1, <1>3, <1>4 DEF JobOK, PathsIn

LEMMA NextKeepsSwap ==
  ASSUME SwapInv, AreasApart, Overlap = {}, [Next]_vars
  PROVE  SwapInv'
  <1>1. DiskInv' /\ MarkerInv'
    BY NextKeepsDisk, NextKeepsMarkers DEF SwapInv
  <1>2. ASSUME NEW j \in Jobs, jobs'[j] # None PROVE JobOK(j)'
    <2>1. CASE \E q \in Paths : CopyFile(j, q) \/ DeleteStale(j, q)
      BY <2>1, CopyKeepsJob
    <2>2. CASE jobs[j] # None /\ ~\E q \in Paths : CopyFile(j, q) \/ DeleteStale(j, q)
      <3>. DEFINE i == jobs[j].item
                  v == jobs[j].ver
      <3>1. jobs'[j] = jobs[j] /\ ~CommitUpdate(j)
        BY <1>2, <2>2, JobsGoOn DEF SwapInv, MarkerInv
      <3>2. ~ActsOn(i)
        BY <2>2, <3>1, OnlyItsJob
      <3>3. jobs[j] \in Job /\ JobOK(j)
        BY <2>2 DEF SwapInv, MarkerInv, TypeInv, TypeOK
      <3>4. i \in Items /\ v \in Versions /\ jobs[j].root \in Roots
        BY <3>3 DEF Job
      <3>5. row'[i] = row[i]
        BY <3>2, <3>4, RowFrame DEF SwapInv, MarkerInv
      <3>6. \A p \in PathsIn(i, v) : disk'[jobs[j].root][p] = disk[jobs[j].root][p]
        BY <3>2, <3>4, DiskFrame DEF SwapInv, Leaves
      <3>7. UpdateRoot(i)' = UpdateRoot(i) /\ (i \in Installed) = (i \in Installed')
        BY <3>1, <3>4, <3>5 DEF UpdateRoot, Installed
      <3>. QED BY <3>1, <3>3, <3>5, <3>6, <3>7 DEF JobOK, PathsIn
    <2>3. CASE jobs[j] = None
      <3>1. \E i \in Items, v \in Versions : MarkUpdate(j, i, v)
        BY <1>2, <2>3, JobsBegin DEF SwapInv, MarkerInv
      <3>. QED BY <3>1, MarkStartsJob
    <2>. QED BY <2>1, <2>2, <2>3
  <1>. QED BY <1>1, <1>2 DEF SwapInv

LEMMA InitSwap == Init => SwapInv
  BY InitDisk, InitMarkers DEF Init, SwapInv

\* Every file of version v of item i is below root r, as the archive has it.
AllThere(i, v, r) == \A p \in PathsIn(i, v) : disk[r][p] = Archive[i][v][p]

\* A locked update that goes through.
LEMMA VersionSet ==
  ASSUME TypeOK, NEW i \in Items, row[i] # None, NEW v \in Versions, row' = [row EXCEPT ![i].ver = v]
  PROVE  /\ row'[i] # None /\ row'[i].ver = v
         /\ row'[i].id = row[i].id /\ row'[i].disabled = row[i].disabled
  <1>1. row[i] \in Row /\ row'[i] = [row[i] EXCEPT !.ver = v]
    BY DEF TypeOK, Row
  <1>2. row'[i] = [id |-> row[i].id, ver |-> v, disabled |-> row[i].disabled]
    BY <1>1 DEF Row
  <1>3. row'[i] \in Row
    BY <1>1, <1>2 DEF Row
  <1>4. row'[i] # None
    BY <1>3, NoneAssumption DEF Row
  <1>. QED BY <1>2, <1>4

\* A locked update that goes through.
LEMMA UpdateBrings ==
  ASSUME TypeOK, NEW i \in Items, NEW v \in Versions, UpdateFromArchive(i, v)
  PROVE  AllThere(i, v, UpdateRoot(i))'
  <1>. DEFINE r == UpdateRoot(i)
              stale == FilesOf(i) \ PathsIn(i, v)
              c == Drop(Put(disk[r], PathsIn(i, v), Archive[i][v]), stale)
  <1>1. disk' = [disk EXCEPT ![r] = c]
    BY DEF UpdateFromArchive
  <1>2. r \in Roots
    BY RootOfType DEF UpdateRoot
  <1>3. \A p \in PathsIn(i, v) : c[p] = Archive[i][v][p]
    BY PathsInType, PutAt, DropAt
  <1>4. UpdateRoot(i)' = r
    <2>1. UNCHANGED row \/ row' = [row EXCEPT ![i].ver = v]
      BY DEF UpdateFromArchive
    <2>2. row[i] # None
      BY DEF UpdateFromArchive, Installed
    <2>3. row'[i].disabled = row[i].disabled
      BY <2>1, <2>2, VersionSet
    <2>. QED BY <2>3 DEF UpdateRoot
  <1>. HIDE DEF c, r
  <1>5. disk'[r] = c
    BY <1>1, <1>2 DEF TypeOK
  <1>. QED BY <1>3, <1>4, <1>5 DEF AllThere, PathsIn

\* The last step of an asynchronous update, if it goes through.
LEMMA CommitBrings ==
  ASSUME SwapInv, NEW j \in Jobs, CommitUpdate(j), jobs[j].item \in Installed
  PROVE  AllThere(jobs[j].item, jobs[j].ver, UpdateRoot(jobs[j].item))
  <1>1. jobs[j] # None /\ jobs[j].copy = {}
    BY DEF CommitUpdate
  <1>. QED BY <1>1 DEF SwapInv, JobOK, AllThere

\* Whatever writes a version into a row has all of that version on disk.
LEMMA WrittenIsThere ==
  ASSUME SwapInv, NEW i \in Installed, NEW v \in Versions, row' = [row EXCEPT ![i].ver = v],
         \/ UpdateFromArchive(i, v)
         \/ \E j \in Jobs : jobs[j].item = i /\ jobs[j].ver = v /\ CommitUpdate(j)
         \/ \E m \in recover : m.item = i /\ m.ver = v /\ RecoverForward(m)
  PROVE  row'[i].ver = v /\ AllThere(i, row[i].ver, UpdateRoot(i))'
  <1>0. TypeOK /\ i \in Items /\ row[i] # None
    BY DEF SwapInv, MarkerInv, TypeInv, Installed
  <1>1. row'[i].ver = v /\ row'[i].disabled = row[i].disabled
    BY <1>0, VersionSet
  <1>2. CASE UpdateFromArchive(i, v)
    BY <1>0, <1>1, <1>2, UpdateBrings DEF AllThere
  <1>3. ASSUME NEW j \in Jobs, jobs[j].item = i, jobs[j].ver = v, CommitUpdate(j)
        PROVE  AllThere(i, row[i].ver, UpdateRoot(i))'
    <2>1. AllThere(i, v, UpdateRoot(i)) /\ UNCHANGED disk
      BY <1>3, CommitBrings DEF CommitUpdate
    <2>. QED BY <1>1, <2>1 DEF AllThere, UpdateRoot, PathsIn
  <1>4. ASSUME NEW m \in recover, m.item = i, m.ver = v, RecoverForward(m)
        PROVE  AllThere(i, row[i].ver, UpdateRoot(i))'
    <2>1. AllThere(i, v, UpdateRoot(i)) /\ UNCHANGED disk
      BY <1>4 DEF RecoverForward, AllNewPresent, Verified, AllThere, UpdateRoot
    <2>. QED BY <1>1, <2>1 DEF AllThere, UpdateRoot, PathsIn
  <1>. QED BY <1>1, <1>2, <1>3, <1>4

LEMMA StepClaims ==
  ASSUME SwapInv, AreasApart, Overlap = {}, [Next]_vars, NEW i \in Installed,
         row'[i] # None, row'[i].ver # row[i].ver
  PROVE  AllThere(i, row[i].ver, UpdateRoot(i))'
  <1>0. TypeOK /\ TypeInv /\ i \in Items /\ row[i] # None /\ row[i] \in Row
    BY DEF SwapInv, MarkerInv, TypeInv, TypeOK, Installed, Row
  <1>1. ActsOn(i)
    BY <1>0, RowFrame
  <1>2. ASSUME NEW v \in Versions, UpdateFromArchive(i, v)
        PROVE  AllThere(i, row[i].ver, UpdateRoot(i))'
    <2>1. row' = [row EXCEPT ![i].ver = v]
      BY <1>2 DEF UpdateFromArchive
    <2>. QED BY <1>2, <2>1, WrittenIsThere
  <1>3. ASSUME NEW j \in Jobs, jobs[j].item = i, CommitUpdate(j)
        PROVE  AllThere(i, row[i].ver, UpdateRoot(i))'
    <2>1. jobs[j].ver \in Versions /\ row' = [row EXCEPT ![i].ver = jobs[j].ver]
      BY <1>0, <1>3 DEF CommitUpdate, TypeOK, Job
    <2>. QED BY <1>3, <2>1, WrittenIsThere
  <1>4. ASSUME NEW m \in recover, m.item = i, RecoverSingleUpdate(m)
        PROVE  AllThere(i, row[i].ver, UpdateRoot(i))'
    <2>1. /\ RecoverForward(m) /\ row' = [row EXCEPT ![i].ver = m.ver]
          /\ m.ver \in Versions
      BY <1>0, <1>4 DEF RecoverSingleUpdate, RecoverForward, RecoverBack, TypeOK, Marker
    <2>. QED BY <1>4, <2>1, WrittenIsThere
  <1>5. ASSUME NEW v \in Versions, InstallFromArchive(i, v) \/ InstallHalts(i, v) \/ UpdateHalts(i, v)
        PROVE  FALSE
    BY <1>0, <1>5 DEF InstallFromArchive, InstallHalts, InstallRows, UpdateHalts, db
  <1>6. ASSUME NEW k \in Items, RemoveById(k) \/ RemoveHalts(k)
        PROVE  FALSE
    <2>1. \E S : DeleteRows(S)
      BY <1>6 DEF RemoveById, RemoveHalts
    <2>. QED BY <1>0, <2>1 DEF DeleteRows
  <1>7. ASSUME \/ DisableMod(i) \/ DisableAddon(i) \/ DisableHalts(i)
               \/ EnableMod(i) \/ EnableAddon(i) \/ EnableHalts(i)
        PROVE  FALSE
    <2>1. UNCHANGED row \/ \E b : row' = [row EXCEPT ![i].disabled = b]
      BY <1>7 DEF DisableMod, DisableAddon, DisableHalts, EnableMod, EnableAddon, EnableHalts,
                  SetDisabled, db
    <2>2. \A b : row' = [row EXCEPT ![i].disabled = b] => row'[i].ver = row[i].ver
      BY <1>0 DEF Row, TypeOK
    <2>. QED BY <2>1, <2>2
  <1>8. ASSUME \/ \E j \in Jobs : \E q \in Paths : CopyFile(j, q) \/ DeleteStale(j, q)
               \/ \E m \in recover : RecoverHalts(m)
        PROVE  FALSE
    BY <1>8 DEF CopyFile, DeleteStale, RecoverHalts, db
  <1>. QED BY <1>1, <1>2, <1>3, <1>4, <1>5, <1>6, <1>7, <1>8 DEF ActsOn

\* ClaimedIsOnDisk, for any numbers of items, versions and jobs and all failures and
\* crashes, if items have paths and directories of their own and nothing else is
\* done to an item while it is updated: the rows name a version only when every
\* file of it is below the root where the item is.
THEOREM Claimed == AreasApart /\ Overlap = {} => (Spec => ClaimedIsOnDisk)
  <1>. SUFFICES ASSUME AreasApart, Overlap = {} PROVE Spec => ClaimedIsOnDisk
    OBVIOUS
  <1>. DEFINE Told ==
         \A i \in Installed :
           row'[i] # None /\ row'[i].id = row[i].id /\ row'[i].ver # row[i].ver =>
             \A p \in PathsIn(i, row'[i].ver) :
               disk'[RootOf(row'[i].disabled)][p] = Archive[i][row'[i].ver][p]
  <1>1. SwapInv /\ [Next]_vars => [Told]_vars
    BY StepClaims DEF AllThere, UpdateRoot, PathsIn
  <1>2. SwapInv /\ [Next]_vars => SwapInv'
    BY NextKeepsSwap
  <1>. QED BY <1>1, <1>2, InitSwap, PTL DEF Spec, ClaimedIsOnDisk

\* The row that a marker is about is there still: ids are not given out twice.
Lives(m) == row[m.item] # None /\ row[m.item].id = m.id

\* Every marker is of a row there is or was, of one row at most, and has the row's files
\* as they are recorded; after a restart it is recovered.  While the process is up its
\* update is under way, unless the swap ended with an error.
MarksOK ==
  /\ \A i \in Installed : row[i].id < nextId
  /\ \A m \in markers : m.id < nextId
  /\ \A m \in markers : Lives(m) => m.old = FilesOf(m.item)
  /\ \A m, n \in markers : m.item = n.item /\ m.id = n.id => m = n
  /\ status = "up" => \A m \in markers : Lives(m) => Updating(m.item) \/ "update" \in Faults
  /\ status = "recovering" => recover = markers

\* All recorded files of i are where the code looks for them ...
Whole(i) == \A p \in FilesOf(i) : disk[UpdateRoot(i)][p] # None
\* ... or all files of the version that its marker is about.
Swapped(i) ==
  \E m \in markers : m.item = i /\ Lives(m) /\ AllThere(i, m.ver, UpdateRoot(i))

Placed == \A i \in Installed : Whole(i) \/ Swapped(i)

PlaceInv == SwapInv /\ MarksOK /\ Placed

LEMMA ApartIsApart == AreasApart => ArchivesApart
  BY DEF AreasApart, ArchivesApart

\* If operations stop halfway in updates and in the recovery only, the others go through.
LEMMA OthersGoThrough ==
  ASSUME Faults \subseteq {"crash", "update", "recover"}
  PROVE  \A i \in Items : /\ ~RemoveHalts(i) /\ ~DisableHalts(i) /\ ~EnableHalts(i)
                          /\ \A v \in Versions : ~InstallHalts(i, v) /\ ~UpdateHalts(i, v)
  BY DEF RemoveHalts, DisableHalts, EnableHalts, InstallHalts, UpdateHalts, Halts

LEMMA NoHalts ==
  ASSUME Hale
  PROVE  /\ \A i \in Items : /\ ~RemoveHalts(i) /\ ~DisableHalts(i) /\ ~EnableHalts(i)
                             /\ \A v \in Versions : ~InstallHalts(i, v) /\ ~UpdateHalts(i, v)
  BY OthersGoThrough DEF Hale, Steady

\* Without a marker an item is whole.
LEMMA RunsWhole ==
  ASSUME PlaceInv, NEW i \in Installed, MarkersOf(i) = {}
  PROVE  Whole(i)
  BY DEF PlaceInv, Placed, Swapped, Lives, MarkersOf

\* Files of an item whose row stays the same stay the same.
LEMMA FilesStay ==
  ASSUME RecordInv, RecordInv', NEW i \in Items, row[i] # None, row'[i] # None,
         row'[i].ver = row[i].ver
  PROVE  FilesOf(i)' = FilesOf(i)
  BY DEF RecordInv, RowsInv, RecordsAreOneVersion, Installed, PathsIn

\* An item with all files of the version its row names is whole.
LEMMA ThereIsWhole ==
  ASSUME RecordInv', NEW i \in Items, row'[i] # None, AllThere(i, row[i].ver, UpdateRoot(i))'
  PROVE  Whole(i)'
  <1>1. FilesOf(i)' = PathsIn(i, row'[i].ver) /\ row'[i].ver \in Versions
    BY DEF RecordInv, RowsInv, RecordsAreOneVersion, Installed, PathsIn, TypeInv, TypeOK
  <1>2. \A p \in PathsIn(i, row'[i].ver) : Archive[i][row'[i].ver][p] # None
    BY <1>1, PathsInType, ItemAssumption
  <1>. QED BY <1>1, <1>2 DEF AllThere, Whole, PathsIn

\* A marker that nobody acts on stays.
LEMMA MarkerStays ==
  ASSUME TypeInv, Hale, [Next]_vars, NEW m \in markers, ~ActsOn(m.item)
  PROVE  m \in markers'
  <1>1. ASSUME NEW j \in Jobs, CommitUpdate(j) PROVE m \in markers'
    <2>1. jobs[j].item # m.item
      BY <1>1 DEF ActsOn, CommitUpdate
    <2>. QED BY <1>1, <2>1 DEF CommitUpdate, MarkersWithout
  <1>2. ASSUME NEW n \in recover, RecoverSingleUpdate(n) \/ RecoverHalts(n) PROVE m \in markers'
    <2>1. n # m
      BY <1>2 DEF ActsOn
    <2>. QED BY <1>2, <2>1 DEF RecoverSingleUpdate, RecoverForward, RecoverBack, RecoverHalts, Clear, db
  <1>3. CASE \E i \in Items, v \in Versions :
               \/ InstallFromArchive(i, v) \/ UpdateFromArchive(i, v)
               \/ \E j \in Jobs : MarkUpdate(j, i, v)
    BY <1>3 DEF InstallFromArchive, InstallRows, UpdateFromArchive, MarkUpdate
  <1>4. CASE \E j \in Jobs : SwapFails(j) \/ \E q \in Paths : CopyFile(j, q) \/ DeleteStale(j, q)
    BY <1>4 DEF SwapFails, CopyFile, DeleteStale, db
  <1>5. CASE \E i \in Items : \/ RemoveById(i) \/ DisableMod(i) \/ DisableAddon(i)
                              \/ EnableMod(i) \/ EnableAddon(i)
    BY <1>5 DEF RemoveById, DisableMod, DisableAddon, EnableMod, EnableAddon, SetDisabled
  <1>6. CASE Crash \/ Restart \/ Serve \/ UNCHANGED vars
    BY <1>6 DEF Crash, Restart, Serve, vars, db
  <1>. QED BY <1>1, <1>2, <1>3, <1>4, <1>5, <1>6, NoHalts DEF Next

LEMMA OutsidePlaced ==
  ASSUME PlaceInv, Hale, [Next]_vars, RecordInv', NEW i \in Items, row'[i] # None, ~ActsOn(i)
  PROVE  (Whole(i) \/ Swapped(i))'
  <1>0. /\ TypeInv /\ RecordInv /\ DiskInv /\ AreasApart /\ row'[i] = row[i] /\ i \in Installed
        /\ row[i] \in Row
    BY RowFrame DEF PlaceInv, SwapInv, MarkerInv, DiskInv, Hale, Steady, Installed, TypeInv, TypeOK, Row
  <1>1. /\ FilesOf(i)' = FilesOf(i) /\ UpdateRoot(i)' = UpdateRoot(i) /\ UpdateRoot(i) \in Roots
        /\ FilesOf(i) = PathsIn(i, row[i].ver) /\ row[i].ver \in Versions
    BY <1>0, FilesStay, RootOfType
       DEF UpdateRoot, RecordInv, RowsInv, RecordsAreOneVersion, Row
  <1>2. \A v \in Versions : \A p \in PathsIn(i, v) : disk'[UpdateRoot(i)][p] = disk[UpdateRoot(i)][p]
    BY <1>0, <1>1, DiskFrame DEF Leaves
  <1>3. CASE Whole(i)
    BY <1>1, <1>2, <1>3 DEF Whole
  <1>4. CASE Swapped(i)
    <2>1. PICK m \in markers : m.item = i /\ Lives(m) /\ AllThere(i, m.ver, UpdateRoot(i))
      BY <1>4 DEF Swapped
    <2>2. m \in markers' /\ m.ver \in Versions /\ Lives(m)'
      BY <1>0, <2>1, MarkerStays DEF TypeInv, TypeOK, Marker, Lives
    <2>3. AllThere(i, m.ver, UpdateRoot(i))'
      BY <1>1, <1>2, <2>1, <2>2 DEF AllThere, PathsIn
    <2>. QED BY <2>1, <2>2, <2>3 DEF Swapped
  <1>. QED BY <1>0, <1>3, <1>4 DEF PlaceInv, Placed

\* Disabling and enabling move every recorded file.
LEMMA DisabledMoves ==
  ASSUME NoneUnder, NEW i \in Items
  PROVE  FilesOf(i) \subseteq DisableMoves(i)
  <1>. SUFFICES ASSUME NEW p \in FilesOf(i) PROVE p \in DisableMoves(i)
    OBVIOUS
  <1>0. p \in Paths /\ DirOf[p] \in Dirs \cup {None}
    BY DirAssumption DEF FilesOf
  <1>1. CASE DirOf[p] = None
    <2>1. p \in Loose(i)
      BY <1>0, <1>1 DEF Loose, TopDirs, NoneUnder
    <2>. QED BY <2>1 DEF DisableMoves
  <1>2. CASE DirOf[p] \in Dirs
    <2>1. DirOf[p] \in TopDirs(i) /\ p \in In(DirOf[p]) /\ p \in Under[DirOf[p]]
      BY <1>0, <1>2, DirAssumption DEF TopDirs, In
    <2>. QED BY <2>1 DEF DisableMoves
  <1>. QED BY <1>0, <1>1, <1>2

LEMMA EnabledMoves ==
  ASSUME NoneUnder, NEW i \in Items, NEW p \in FilesOf(i), disk["stash"][p] # None
  PROVE  p \in EnableMoves(i)
  <1>0. p \in Paths /\ DirOf[p] \in Dirs \cup {None}
    BY DirAssumption DEF FilesOf
  <1>1. CASE DirOf[p] = None
    <2>1. p \in Loose(i)
      BY <1>0, <1>1 DEF Loose, TopDirs, NoneUnder
    <2>. QED BY <1>0, <2>1 DEF EnableMoves
  <1>2. CASE DirOf[p] \in Dirs
    <2>1. DirOf[p] \in StashedDirs(i)
      BY <1>0, <1>2 DEF StashedDirs, TopDirs, HasDir, In
    <2>. QED BY <1>0, <2>1 DEF EnableMoves
  <1>. QED BY <1>0, <1>1, <1>2

\* The files of the version a marker is about go along, where the versions follow each other.
LEMMA SwappedMoves ==
  ASSUME RecordInv, AreasApart, NoneUnder, Follows, NEW i \in Installed, NEW w \in Versions,
         ~(FilesOf(i) \subseteq PathsIn(i, w))
  PROVE  /\ i \in Mods => PathsIn(i, w) \subseteq DisableMoves(i)
         /\ i \notin Mods => PathsIn(i, w) \subseteq FilesOf(i)
         /\ \A p \in PathsIn(i, w) : disk["stash"][p] # None =>
              IF i \in Mods THEN p \in EnableMoves(i) ELSE p \in StashedFiles(i)
  <1>. DEFINE v == row[i].ver
  <1>1. /\ i \in Items /\ v \in Versions /\ FilesOf(i) = PathsIn(i, v)
        /\ PathsIn(i, w) \subseteq Paths
    BY PathsInType DEF RecordInv, RowsInv, RecordsAreOneVersion, Installed, TypeInv, TypeOK
  <1>2. CASE PathsIn(i, w) \subseteq PathsIn(i, v)
    BY <1>1, <1>2, DisabledMoves, EnabledMoves DEF StashedFiles
  <1>3. CASE /\ i \in Mods
             /\ \A p \in PathsIn(i, w) : DirOf[p] # None /\ \E q \in PathsIn(i, v) : DirOf[q] = DirOf[p]
    <2>. SUFFICES ASSUME NEW p \in PathsIn(i, w)
                  PROVE  /\ p \in DisableMoves(i)
                         /\ disk["stash"][p] # None => p \in EnableMoves(i)
      BY <1>3
    <2>1. DirOf[p] \in Dirs /\ DirOf[p] \in TopDirs(i) /\ p \in In(DirOf[p])
      BY <1>1, <1>3, DirAssumption DEF TopDirs, In
    <2>2. DirOf[p] \notin SharedDirs(i)
      <3>. SUFFICES ASSUME NEW q \in Under[DirOf[p]], files[q] # None, files[q].item # i,
                           Enabled(files[q].item)
                    PROVE  FALSE
        BY DEF SharedDirs
      <3>1. q \in Paths /\ DirOf[q] = DirOf[p]
        BY <2>1, DirAssumption DEF NoneUnder
      <3>2. files[q].item \in Installed /\ files[q].item \in Items /\ q \in FilesOf(files[q].item)
        BY <3>1 DEF Enabled, FilesOf, Installed
      <3>3. q \in PathsIn(files[q].item, row[files[q].item].ver) /\ row[files[q].item].ver \in Versions
        BY <3>2 DEF RecordInv, RowsInv, RecordsAreOneVersion, Installed, TypeInv, TypeOK
      <3>. QED BY <1>1, <2>1, <3>1, <3>2, <3>3, DirAssumption DEF AreasApart
    <2>3. p \in DisableMoves(i)
      BY <2>1, <2>2 DEF DisableMoves
    <2>4. ASSUME disk["stash"][p] # None PROVE p \in EnableMoves(i)
      BY <1>1, <2>1, <2>4 DEF EnableMoves, StashedDirs, HasDir
    <2>. QED BY <2>3, <2>4
  <1>4. CASE PathsIn(i, v) \subseteq PathsIn(i, w)
    BY <1>1, <1>4
  <1>. QED BY <1>1, <1>2, <1>3, <1>4 DEF Follows

\* A toggle moves whatever of S is there.
LEMMA ToggleMoves ==
  ASSUME TypeOK, NEW i \in Installed, NEW S \in SUBSET Paths,
         \A p \in S : disk[UpdateRoot(i)][p] # None,
         i \in Mods => S \subseteq DisableMoves(i),
         i \notin Mods => S \subseteq FilesOf(i),
         \A p \in S : disk["stash"][p] # None =>
            IF i \in Mods THEN p \in EnableMoves(i) ELSE p \in StashedFiles(i),
         DisableMod(i) \/ DisableAddon(i) \/ EnableMod(i) \/ EnableAddon(i)
  PROVE  \A p \in S : disk'[UpdateRoot(i)'][p] = disk[UpdateRoot(i)][p]
  <1>0. row[i] \in Row /\ i \in Items
    BY DEF TypeOK, Row, Installed
  <1>1. DisableMod(i) \/ EnableMod(i) => i \in Mods
    BY DEF DisableMod, EnableMod
  <1>2. DisableAddon(i) \/ EnableAddon(i) => i \notin Mods
    BY ItemAssumption DEF DisableAddon, EnableAddon
  <1>3. CASE DisableMod(i) \/ DisableAddon(i)
    <2>1. /\ UpdateRoot(i) = "live" /\ UpdateRoot(i)' = "stash"
      <3>1. row' = [row EXCEPT ![i].disabled = TRUE] /\ ~row[i].disabled
        BY <1>3 DEF DisableMod, DisableAddon, SetDisabled
      <3>2. row'[i].disabled
        BY <1>0, <3>1 DEF TypeOK, Row
      <3>. QED BY <3>1, <3>2 DEF UpdateRoot, RootOf
    <2>2. PICK T : disk' = MoveTo("live", "stash", T) /\ S \subseteq T
      BY <1>1, <1>2, <1>3 DEF DisableMod, DisableAddon
    <2>. QED BY <2>1, <2>2, MoveAt DEF Roots
  <1>4. CASE EnableMod(i) \/ EnableAddon(i)
    <2>1. /\ UpdateRoot(i) = "stash" /\ UpdateRoot(i)' = "live"
      <3>1. row' = [row EXCEPT ![i].disabled = FALSE] /\ row[i].disabled
        BY <1>4 DEF EnableMod, EnableAddon, SetDisabled
      <3>2. ~row'[i].disabled
        BY <1>0, <3>1 DEF TypeOK, Row
      <3>. QED BY <3>1, <3>2 DEF UpdateRoot, RootOf
    <2>2. PICK T : disk' = MoveTo("stash", "live", T) /\ S \subseteq T
      BY <1>1, <1>2, <1>4, <2>1 DEF EnableMod, EnableAddon
    <2>. QED BY <2>1, <2>2, MoveAt DEF Roots
  <1>. QED BY <1>3, <1>4

LEMMA TogglePlaced ==
  ASSUME PlaceInv, Hale, NEW i \in Items,
         DisableMod(i) \/ DisableAddon(i) \/ EnableMod(i) \/ EnableAddon(i)
  PROVE  (Whole(i) \/ Swapped(i))'
  <1>0. /\ TypeOK /\ RecordInv /\ i \in Installed /\ status = "up" /\ ~Updating(i)
        /\ UNCHANGED <<files, markers>> /\ FilesOf(i)' = FilesOf(i) /\ FilesOf(i) \subseteq Paths
        /\ row[i] \in Row /\ \E b \in BOOLEAN : row' = [row EXCEPT ![i].disabled = b]
    BY DEF PlaceInv, SwapInv, MarkerInv, DiskInv, TypeInv, TypeOK, Hale, Steady, Row, Installed,
           DisableMod, DisableAddon, EnableMod, EnableAddon, SetDisabled, MayRun, FilesOf
  <1>1. row'[i] # None /\ row'[i].id = row[i].id
    <2>1. row'[i].id = row[i].id /\ row'[i] \in Row
      BY <1>0 DEF TypeOK, Row, Installed
    <2>. QED BY <2>1, NoneAssumption DEF Row
  <1>2. CASE Whole(i)
    <2>1. \A p \in FilesOf(i) : disk[UpdateRoot(i)][p] # None
      BY <1>2 DEF Whole
    <2>2. FilesOf(i) \subseteq DisableMoves(i)
      BY DisabledMoves DEF Hale, Steady
    <2>3. \A p \in FilesOf(i) : disk["stash"][p] # None =>
            IF i \in Mods THEN p \in EnableMoves(i) ELSE p \in StashedFiles(i)
      BY EnabledMoves DEF Hale, Steady, StashedFiles
    <2>4. \A p \in FilesOf(i) : disk'[UpdateRoot(i)'][p] = disk[UpdateRoot(i)][p]
      BY <1>0, <2>1, <2>2, <2>3, ToggleMoves
    <2>. QED BY <1>0, <2>1, <2>4 DEF Whole
  <1>3. CASE ~Whole(i)
    <2>1. PICK m \in markers : m.item = i /\ Lives(m) /\ AllThere(i, m.ver, UpdateRoot(i))
      BY <1>0, <1>3 DEF PlaceInv, Placed, Swapped
    <2>2. Follows /\ m.ver \in Versions /\ PathsIn(i, m.ver) \subseteq Paths
      BY <1>0, <2>1, PathsInType DEF PlaceInv, MarksOK, Hale, Steady, TypeOK, Marker
    <2>3. \A p \in PathsIn(i, m.ver) : /\ disk[UpdateRoot(i)][p] = Archive[i][m.ver][p]
                                       /\ disk[UpdateRoot(i)][p] # None
      BY <2>1, <2>2, PathsInType, ItemAssumption DEF AllThere
    <2>4. ~(FilesOf(i) \subseteq PathsIn(i, m.ver))
      BY <1>3, <2>3 DEF Whole
    <2>5. \A p \in PathsIn(i, m.ver) : disk'[UpdateRoot(i)'][p] = disk[UpdateRoot(i)][p]
      BY <1>0, <2>2, <2>3, <2>4, SwappedMoves, ToggleMoves DEF Hale, Steady
    <2>6. AllThere(i, m.ver, UpdateRoot(i))' /\ Lives(m)'
      BY <1>0, <1>1, <2>1, <2>3, <2>5 DEF AllThere, PathsIn, Lives
    <2>. QED BY <1>0, <2>1, <2>6 DEF Swapped
  <1>. QED BY <1>2, <1>3

\* A file that a job brings, and one that it deletes.
LEMMA JobPlaced ==
  ASSUME PlaceInv, SwapInv', NEW j \in Jobs, NEW q \in Paths, CopyFile(j, q) \/ DeleteStale(j, q)
  PROVE  (Whole(jobs[j].item) \/ Swapped(jobs[j].item))'
  <1>. DEFINE b == jobs[j]
              i == jobs[j].item
              v == jobs[j].ver
              r == UpdateRoot(jobs[j].item)
  <1>0. /\ TypeOK /\ TypeInv /\ b # None /\ b \in Job /\ JobOK(j) /\ q \in Paths
        /\ i \in Items /\ v \in Versions /\ i \in Installed /\ b.root = r /\ r \in Roots
        /\ b.copy \subseteq PathsIn(i, v) /\ b.stale \cap PathsIn(i, v) = {}
    BY RootOfType DEF PlaceInv, SwapInv, MarkerInv, TypeInv, TypeOK, JobOK, CopyOK, Job, UpdateRoot,
                      CopyFile, DeleteStale
  <1>1. UNCHANGED <<row, files, markers>>
    BY DEF CopyFile, DeleteStale, db
  <1>2. jobs'[j].item = i
    BY <1>0 DEF CopyFile, DeleteStale, TypeOK, Job
  <1>3. UpdateRoot(i)' = r /\ FilesOf(i)' = FilesOf(i) /\ FilesOf(i) \subseteq Paths
    BY <1>1, <1>2 DEF UpdateRoot, FilesOf
  <1>4. PICK m \in markers : m.item = i /\ m.id = b.id /\ m.ver = v
    BY <1>0 DEF PlaceInv, SwapInv, MarkerInv, SwapIsMarked
  <1>7. Lives(m) /\ Lives(m)'
    BY <1>0, <1>1, <1>4 DEF Lives, JobOK, Installed
  <1>5. CASE DeleteStale(j, q)
    <2>1. /\ b.copy = {} /\ q \in b.stale
          /\ disk' = [disk EXCEPT ![r][q] = None]
      BY <1>0, <1>5 DEF DeleteStale
    <2>2. \A p \in PathsIn(i, v) : p \in Paths /\ p # q /\ disk[r][p] = Archive[i][v][p]
      BY <1>0, <2>1, PathsInType DEF JobOK
    <2>3. \A p \in PathsIn(i, v) : disk'[r][p] = Archive[i][v][p]
      BY <1>0, <2>1, <2>2 DEF TypeOK
    <2>. QED BY <1>1, <1>2, <1>3, <1>4, <1>7, <2>3 DEF Swapped, AllThere, PathsIn
  <1>6. CASE CopyFile(j, q)
    <2>1. /\ q \in b.copy
          /\ disk' = [disk EXCEPT ![r][q] = Archive[i][v][q]]
      BY <1>0, <1>6 DEF CopyFile
    <2>2. Archive[i][v][q] # None
      BY <1>0, <2>1, PathsInType, ItemAssumption
    <2>3. \A p \in Paths : disk'[r][p] = IF p = q THEN Archive[i][v][q] ELSE disk[r][p]
      BY <1>0, <2>1 DEF TypeOK
    <2>4. CASE Whole(i)
      BY <1>2, <1>3, <2>2, <2>3, <2>4 DEF Whole
    <2>5. CASE Swapped(i)
      <3>1. PICK n \in markers : n.item = i /\ Lives(n) /\ AllThere(i, n.ver, r)
        BY <2>5 DEF Swapped
      <3>2. n = m
        BY <1>4, <1>7, <3>1 DEF PlaceInv, MarksOK, Lives
      <3>3. \A p \in PathsIn(i, v) : disk'[r][p] = Archive[i][v][p]
        BY <1>0, <1>4, <2>3, <3>1, <3>2, PathsInType DEF AllThere
      <3>. QED BY <1>1, <1>2, <1>3, <1>4, <1>7, <3>3 DEF Swapped, AllThere, PathsIn
    <2>. QED BY <1>0, <2>4, <2>5 DEF PlaceInv, Placed
  <1>. QED BY <1>5, <1>6

\* Recovery: an update whose files are all there is completed; of any other one the
\* files that are new are deleted, and the recorded ones were there.
LEMMA RecoverPlaced ==
  ASSUME PlaceInv, Hale, RecordInv', NEW m \in recover, row'[m.item] # None,
         RecoverSingleUpdate(m) \/ RecoverHalts(m)
  PROVE  (Whole(m.item) \/ Swapped(m.item))'
  <1>a. CASE ~Lives(m)
    <2>1. UNCHANGED <<disk, row, files>> /\ markers' = markers \ {m} /\ m.item \in Installed
      BY <1>a DEF Lives, Installed, RecoverSingleUpdate, RecoverHalts, Clear, PlaceInv, SwapInv,
                  MarkerInv, TypeInv, TypeOK, Marker
    <2>2. CASE Whole(m.item)
      BY <2>1, <2>2 DEF Whole, FilesOf, UpdateRoot
    <2>3. CASE Swapped(m.item)
      BY <1>a, <2>1, <2>3 DEF Swapped, Lives, AllThere, UpdateRoot, PathsIn
    <2>. QED BY <2>1, <2>2, <2>3 DEF PlaceInv, Placed
  <1>b. SUFFICES ASSUME Lives(m) PROVE (Whole(m.item) \/ Swapped(m.item))'
    BY <1>a
  <1>. DEFINE i == m.item
              r == UpdateRoot(m.item)
  <1>0. /\ TypeOK /\ RecordInv /\ m \in markers /\ m \in Marker /\ i \in Items /\ m.ver \in Versions
        /\ i \in Installed /\ row[i].id = m.id /\ row[i] # None
        /\ m.old = FilesOf(i) /\ r \in Roots /\ FilesOf(i) \subseteq Paths
    BY <1>b, RootOfType DEF PlaceInv, SwapInv, MarkerInv, DiskInv, TypeInv, TypeOK, MarksOK, Marker, UpdateRoot,
                      Installed, FilesOf, Lives
  <1>1. r = RootOf(row[i].disabled)
    BY DEF UpdateRoot
  <1>2. AllNewPresent(m, r) <=> AllThere(i, m.ver, r)
    BY DEF AllNewPresent, Verified, AllThere
  <1>3. Whole(i) \/ AllNewPresent(m, r)
    <2>1. ASSUME NEW n \in markers, n.item = i, Lives(n), AllThere(i, n.ver, r)
          PROVE  AllNewPresent(m, r)
      <3>1. n = m
        BY <1>0, <2>1 DEF PlaceInv, MarksOK, Lives
      <3>. QED BY <1>2, <2>1, <3>1
    <2>. QED BY <1>0, <2>1 DEF PlaceInv, Placed, Swapped
  <1>4. CASE RecoverSingleUpdate(m) /\ RecoverForward(m)
    <2>1. CanRecord(i, m.ver)
      BY <1>0, ApartIsApart, ApartCanRecord DEF Hale, Steady
    <2>2. row' = [row EXCEPT ![i].ver = m.ver]
      BY <1>4, <2>1 DEF RecoverForward
    <2>3. AllThere(i, row[i].ver, UpdateRoot(i))'
      BY <1>0, <1>4, <2>2, WrittenIsThere DEF PlaceInv
    <2>. QED BY <1>0, <2>3, ThereIsWhole
  <1>5. ASSUME NEW T \in SUBSET OnlyNew(m), disk' = [disk EXCEPT ![r] = Drop(disk[r], T)],
               UNCHANGED <<row, files>>, PartialCopy(m, r)
        PROVE  Whole(i)'
    <2>1. Whole(i)
      BY <1>3, <1>5 DEF PartialCopy
    <2>2. disk'[r] = Drop(disk[r], T)
      BY <1>0, <1>5 DEF TypeOK
    <2>3. \A p \in FilesOf(i) : disk'[r][p] = disk[r][p]
      BY <1>0, <1>5, <2>2, DropAt DEF OnlyNew
    <2>4. FilesOf(i)' = FilesOf(i) /\ UpdateRoot(i)' = r
      BY <1>5 DEF FilesOf, UpdateRoot
    <2>. QED BY <2>1, <2>3, <2>4 DEF Whole
  <1>6. CASE RecoverSingleUpdate(m) /\ RecoverBack(m)
    BY <1>1, <1>5, <1>6 DEF RecoverBack
  <1>7. CASE Verified(m, r) = {} /\ UNCHANGED <<disk, row, files>>
    <2>1. ~AllNewPresent(m, r)
      BY <1>0, <1>7, PathsInType DEF AllNewPresent
    <2>2. Whole(i)
      BY <1>3, <2>1
    <2>. QED BY <1>7, <2>2 DEF Whole, FilesOf, UpdateRoot
  <1>8. CASE RecoverHalts(m)
    <2>1. PICK T \in SUBSET OnlyNew(m) : /\ disk' = [disk EXCEPT ![r] = Drop(disk[r], T)]
                                         /\ UNCHANGED <<row, files>> /\ PartialCopy(m, r)
      BY <1>1, <1>8 DEF RecoverHalts, db
    <2>. QED BY <1>5, <2>1
  <1>. QED BY <1>0, <1>1, <1>4, <1>6, <1>7, <1>8 DEF RecoverSingleUpdate

LEMMA InstallPlaced ==
  ASSUME RecordInv, RecordInv', NEW i \in Items, NEW v \in Versions, InstallFromArchive(i, v)
  PROVE  Whole(i)'
  <1>0. TypeOK /\ i \in Items
    BY DEF RecordInv, TypeInv
  <1>1. row'[i] = [id |-> nextId, ver |-> v, disabled |-> FALSE]
    BY <1>0 DEF InstallFromArchive, InstallRows, TypeOK
  <1>2. row'[i].ver = v /\ row'[i].disabled = FALSE /\ row'[i] # None
    <2>1. InstallRows(i, v)
      BY DEF InstallFromArchive
    <2>2. row'[i] # None
      BY <2>1, RowStepInstalls
    <2>. QED BY <1>1, <2>2
  <1>3. disk'["live"] = Put(disk["live"], PathsIn(i, v), Archive[i][v])
    BY <1>0 DEF InstallFromArchive, TypeOK, Roots
  <1>4. \A p \in PathsIn(i, v) : disk'["live"][p] = Archive[i][v][p]
    BY <1>3, PathsInType, PutAt
  <1>5. AllThere(i, row[i].ver, UpdateRoot(i))'
    BY <1>2, <1>4 DEF AllThere, UpdateRoot, RootOf, PathsIn
  <1>. QED BY <1>2, <1>5, ThereIsWhole

LEMMA NextPlaced ==
  ASSUME PlaceInv, Hale, [Next]_vars, SwapInv'
  PROVE  Placed'
  <1>0. /\ TypeInv /\ TypeOK /\ RecordInv /\ SwapInv /\ AreasApart /\ ArchivesApart /\ Overlap = {}
        /\ RecordInv'
    BY ApartIsApart DEF PlaceInv, SwapInv, DiskInv, RecordInv, TypeInv, Hale, Steady
  <1>. SUFFICES ASSUME NEW i \in Items, row'[i] # None PROVE (Whole(i) \/ Swapped(i))'
    BY DEF Placed, Installed
  <1>1. CASE ~ActsOn(i)
    BY <1>0, <1>1, OutsidePlaced
  <1>2. ASSUME NEW v \in Versions, InstallFromArchive(i, v) PROVE Whole(i)'
    BY <1>0, <1>2, InstallPlaced
  <1>3. ASSUME NEW v \in Versions, UpdateFromArchive(i, v) PROVE Whole(i)'
    <2>1. row' = [row EXCEPT ![i].ver = v] /\ i \in Installed
      BY <1>0, <1>3, ApartCanRecord DEF UpdateFromArchive
    <2>2. AllThere(i, row[i].ver, UpdateRoot(i))'
      BY <1>0, <1>3, <2>1, WrittenIsThere
    <2>. QED BY <1>0, <2>2, ThereIsWhole
  <1>4. ASSUME NEW j \in Jobs, NEW q \in Paths, jobs[j].item = i, CopyFile(j, q) \/ DeleteStale(j, q)
        PROVE  (Whole(i) \/ Swapped(i))'
    <2>1. jobs[j] \in Job /\ jobs'[j].item = i
      BY <1>0, <1>4 DEF CopyFile, DeleteStale, TypeOK, Job
    <2>2. (Whole(jobs[j].item) \/ Swapped(jobs[j].item))'
      BY <1>0, <1>4, JobPlaced
    <2>. QED BY <2>1, <2>2 DEF Whole, Swapped, Lives, AllThere, UpdateRoot, FilesOf, PathsIn
  <1>5. ASSUME NEW j \in Jobs, jobs[j].item = i, CommitUpdate(j) PROVE Whole(i)'
    <2>1. /\ jobs[j] # None /\ jobs[j] \in Job /\ JobOK(j) /\ jobs[j].ver \in Versions
      BY <1>0, <1>5 DEF CommitUpdate, SwapInv, TypeOK, Job
    <2>2. i \in Installed /\ row[i].id = jobs[j].id /\ CanRecord(i, jobs[j].ver)
      BY <1>0, <1>5, <2>1, ApartCanRecord DEF JobOK
    <2>3. row' = [row EXCEPT ![i].ver = jobs[j].ver]
      BY <1>5, <2>2 DEF CommitUpdate
    <2>4. AllThere(i, row[i].ver, UpdateRoot(i))'
      BY <1>0, <1>5, <2>1, <2>2, <2>3, WrittenIsThere
    <2>. QED BY <1>0, <2>4, ThereIsWhole
  <1>6. ASSUME NEW k \in Items, i \in {k} \cup AddonsOf(k), RemoveById(k) PROVE FALSE
    BY <1>6 DEF RemoveById, DeleteRows
  <1>7. CASE DisableMod(i) \/ DisableAddon(i) \/ EnableMod(i) \/ EnableAddon(i)
    BY <1>0, <1>7, TogglePlaced
  <1>8. ASSUME NEW m \in recover, m.item = i, RecoverSingleUpdate(m) \/ RecoverHalts(m)
        PROVE  (Whole(i) \/ Swapped(i))'
    BY <1>0, <1>8, RecoverPlaced
  <1>. QED BY <1>1, <1>2, <1>3, <1>4, <1>5, <1>6, <1>7, <1>8, NoHalts DEF ActsOn

\* Steps that keep the markers, or drop some of them, and the rows they are about.
LEMMA MarksKept ==
  ASSUME PlaceInv, RecordInv', markers' \subseteq markers, status' = "up",
         \A m \in markers : m.id < nextId',
         \A i \in Items : row'[i] # None => row'[i].id < nextId',
         \A m \in markers' : Lives(m)' =>
           /\ Lives(m) /\ row'[m.item].ver = row[m.item].ver
           /\ "update" \in Faults \/ \E j \in Jobs : jobs'[j] # None /\ jobs'[j].item = m.item
  PROVE  MarksOK'
  <1>0. \A m \in markers : m.item \in Items
    BY DEF PlaceInv, SwapInv, MarkerInv, TypeInv, TypeOK, Marker
  <1>1. ASSUME NEW m \in markers', Lives(m)' PROVE m.old = FilesOf(m.item)'
    <2>1. m.item \in Items /\ row[m.item] # None /\ row'[m.item] # None /\ m.old = FilesOf(m.item)
      BY <1>0, <1>1 DEF PlaceInv, MarksOK, Lives
    <2>. QED BY <1>1, <2>1, FilesStay DEF PlaceInv, SwapInv, DiskInv
  <1>. QED BY <1>1 DEF PlaceInv, MarksOK, Installed, Updating

LEMMA NextMarks ==
  ASSUME PlaceInv, Hale, [Next]_vars, SwapInv'
  PROVE  MarksOK'
  <1>0. /\ TypeInv /\ TypeOK /\ RecordInv /\ SwapInv /\ AreasApart /\ ArchivesApart /\ Overlap = {}
        /\ RecordInv' /\ MarksOK /\ ProcessOK
    BY ApartIsApart DEF PlaceInv, SwapInv, DiskInv, RecordInv, TypeInv, Hale, Steady
  <1>1. ASSUME NEW m \in markers
        PROVE  /\ m \in Marker /\ m.item \in Items /\ m.id \in Nat /\ m.id < nextId
               /\ Lives(m) => m.item \in Installed
               /\ status = "up" /\ Lives(m) =>
                    "update" \in Faults \/ \E j \in Jobs : jobs[j] # None /\ jobs[j].item = m.item
    BY <1>0, <1>1, BoundAssumption DEF MarksOK, Installed, TypeOK, Marker, Lives, Updating
  <1>a. /\ nextId \in Nat /\ \A i \in Items : row[i] # None => row[i].id \in Nat /\ row[i].id < nextId
        /\ \A i \in Items : row[i] # None => row[i] \in Row
    BY <1>0, BoundAssumption DEF TypeOK, MarksOK, Installed, Row
  \* Steps that change nothing of the rows but what is in them, and no marker.
  <1>b. ASSUME UNCHANGED <<markers, nextId, jobs, status>>, status = "up",
               \A m \in markers : Lives(m)' => row'[m.item].ver = row[m.item].ver,
               \A i \in Items : row'[i] # None => row[i] # None /\ row'[i].id = row[i].id
        PROVE  MarksOK'
    BY <1>0, <1>1, <1>a, <1>b, MarksKept DEF Lives
  <1>2. ASSUME NEW i \in Items, NEW v \in Versions, InstallFromArchive(i, v)
        PROVE  MarksOK'
    <2>1. /\ row[i] = None /\ \A k \in Items \ {i} : row'[k] = row[k]
          /\ UNCHANGED <<markers, jobs, status>> /\ status = "up" /\ nextId' = nextId + 1
          /\ row' = [row EXCEPT ![i] = [id |-> nextId, ver |-> v, disabled |-> FALSE]]
      BY <1>0, <1>2 DEF InstallFromArchive, InstallRows, process, TypeOK
    <2>2. row'[i].id = nextId
      BY <1>0, <2>1 DEF TypeOK
    <2>3. \A m \in markers : m.item = i => ~Lives(m)'
      BY <1>1, <1>a, <2>2 DEF Lives
    <2>4. \A m \in markers : Lives(m)' => Lives(m) /\ row'[m.item] = row[m.item]
      BY <1>1, <2>1, <2>3 DEF Lives
    <2>5. \A k \in Items : row'[k] # None => row'[k].id < nextId'
      BY <1>a, <2>1, <2>2
    <2>. QED BY <1>0, <1>1, <1>a, <2>1, <2>4, <2>5, MarksKept
  <1>3. ASSUME NEW i \in Items, NEW v \in Versions, UpdateFromArchive(i, v)
        PROVE  MarksOK'
    <2>1. /\ MarkersOf(i) = {} /\ row[i] # None /\ UNCHANGED <<markers, nextId, jobs, status>>
          /\ status = "up" /\ row' = [row EXCEPT ![i].ver = v]
      BY <1>0, <1>3, ApartCanRecord DEF UpdateFromArchive, process, MayRun, NoMarkerLeft, Installed
    <2>2. /\ row'[i].id = row[i].id /\ \A k \in Items \ {i} : row'[k] = row[k]
      BY <1>0, <1>a, <2>1 DEF TypeOK, Row
    <2>3. \A m \in markers : m.item = i => ~Lives(m)'
      BY <2>1, <2>2 DEF MarkersOf, Lives
    <2>. QED BY <1>1, <1>b, <2>1, <2>2, <2>3
  <1>4. ASSUME NEW j \in Jobs, NEW i \in Items, NEW v \in Versions, MarkUpdate(j, i, v)
        PROVE  MarksOK'
    <2>. DEFINE new == [item |-> i, id |-> row[i].id, ver |-> v, old |-> FilesOf(i)]
                job == [item |-> i, id |-> row[i].id, ver |-> v, root |-> UpdateRoot(i),
                        copy |-> PathsIn(i, v), stale |-> FilesOf(i) \ PathsIn(i, v)]
    <2>1. /\ markers' = markers \cup {new} /\ jobs' = [jobs EXCEPT ![j] = job] /\ jobs[j] = None
          /\ UNCHANGED <<row, files, status, recover, nextId>> /\ status = "up"
          /\ i \in Installed /\ \A m \in markers : ~(m.item = i /\ m.id = row[i].id)
      BY <1>4 DEF MarkUpdate, CanMark, MarkersOf, Installed
    <2>2. jobs'[j] = job /\ \A k \in Jobs \ {j} : jobs'[k] = jobs[k]
      BY <1>0, <2>1 DEF TypeOK
    <2>3. jobs'[j] # None /\ jobs'[j].item = i
      <3>1. jobs'[j] \in Job
        <4>1. job \in Job
          BY <1>0, <2>1, RootOfType, PathsInType
             DEF Job, UpdateRoot, FilesOf, TypeOK, Installed
        <4>. QED BY <2>2, <4>1
      <3>. QED BY <2>2, <3>1, NoJobAssumption
    <2>5. new.item = i /\ new.id = row[i].id /\ new.old = FilesOf(i)
      OBVIOUS
    <2>. HIDE DEF new, job
    <2>6. \A m \in markers' : Lives(m) => \/ "update" \in Faults
                                         \/ \E k \in Jobs : jobs'[k] # None /\ jobs'[k].item = m.item
      BY <1>1, <2>1, <2>2, <2>3, <2>5
    <2>7. \A m \in markers' : /\ m.id < nextId /\ (Lives(m)' <=> Lives(m))
                              /\ Lives(m) => m.old = FilesOf(m.item)
      BY <1>0, <1>1, <1>a, <2>1, <2>5 DEF MarksOK, Installed, Lives
    <2>8. \A m, n \in markers' : m.item = n.item /\ m.id = n.id => m = n
      BY <1>0, <2>1, <2>5 DEF MarksOK
    <2>. QED BY <1>0, <2>1, <2>6, <2>7, <2>8 DEF MarksOK, Updating, Installed, FilesOf
  <1>5. ASSUME NEW j \in Jobs, NEW q \in Paths, CopyFile(j, q) \/ DeleteStale(j, q)
        PROVE  MarksOK'
    <2>1. /\ UNCHANGED <<markers, row, status, nextId>> /\ status = "up" /\ jobs[j] # None /\ jobs[j] \in Job
          /\ \/ jobs' = [jobs EXCEPT ![j].copy = @ \ {q}]
             \/ jobs' = [jobs EXCEPT ![j].stale = @ \ {q}]
      BY <1>0, <1>5 DEF CopyFile, DeleteStale, db, TypeOK, ProcessOK
    <2>2. /\ jobs'[j] \in Job /\ jobs'[j].item = jobs[j].item
          /\ \A k \in Jobs \ {j} : jobs'[k] = jobs[k]
      BY <1>0, <2>1 DEF TypeOK, Job
    <2>3. jobs'[j] # None
      BY <2>2, NoJobAssumption
    <2>. QED BY <1>0, <1>1, <1>a, <2>1, <2>2, <2>3, MarksKept DEF Lives
  <1>6. ASSUME NEW j \in Jobs, CommitUpdate(j)
        PROVE  MarksOK'
    <2>. DEFINE i == jobs[j].item
    <2>1. /\ jobs[j] # None /\ jobs[j] \in Job /\ JobOK(j) /\ jobs[j].ver \in Versions /\ i \in Items
          /\ status = "up" /\ UNCHANGED <<status, nextId>>
      BY <1>0, <1>6 DEF CommitUpdate, SwapInv, TypeOK, Job, ProcessOK
    <2>2. i \in Installed /\ row[i].id = jobs[j].id /\ CanRecord(i, jobs[j].ver) /\ row[i] # None
      BY <1>0, <1>6, <2>1, ApartCanRecord DEF JobOK, Installed
    <2>3. /\ row' = [row EXCEPT ![i].ver = jobs[j].ver]
          /\ markers' = MarkersWithout(i, jobs[j].id)
          /\ jobs' = [jobs EXCEPT ![j] = None]
      BY <1>6, <2>2 DEF CommitUpdate
    <2>5. /\ \A k \in Items \ {i} : row'[k] = row[k]
          /\ row'[i].id = row[i].id
      BY <1>0, <1>a, <2>1, <2>2, <2>3 DEF TypeOK, Row
    <2>4. \A m \in markers' : m \in markers /\ (Lives(m)' => m.item # i)
      BY <2>2, <2>3, <2>5 DEF MarkersWithout, Lives
    <2>6. \A k \in Jobs \ {j} : jobs'[k] = jobs[k]
      BY <1>0, <2>3 DEF TypeOK
    <2>7. \A m \in markers' : Lives(m)' => Lives(m) /\ row'[m.item] = row[m.item]
      BY <1>1, <2>4, <2>5 DEF Lives
    <2>8. \A m \in markers' : Lives(m)' => \/ "update" \in Faults
                                          \/ \E k \in Jobs : jobs'[k] # None /\ jobs'[k].item = m.item
      BY <1>1, <2>1, <2>4, <2>6, <2>7
    <2>9. \A k \in Items : row'[k] # None => row'[k].id < nextId'
      BY <1>a, <2>1, <2>2, <2>5
    <2>. QED BY <1>0, <1>1, <2>1, <2>4, <2>7, <2>8, <2>9, MarksKept
  <1>7. ASSUME NEW k \in Items, RemoveById(k)
        PROVE  MarksOK'
    <2>1. /\ UNCHANGED <<markers, nextId, jobs, status>> /\ status = "up"
          /\ \A i \in Items : row'[i] # None => row'[i] = row[i]
      BY <1>0, <1>7 DEF RemoveById, process, MayRun, DeleteRows
    <2>2. \A m \in markers : Lives(m)' => row'[m.item] = row[m.item]
      BY <1>1, <2>1 DEF Lives
    <2>. QED BY <1>b, <2>1, <2>2
  <1>8. ASSUME NEW k \in Items, DisableMod(k) \/ DisableAddon(k) \/ EnableMod(k) \/ EnableAddon(k)
        PROVE  MarksOK'
    <2>1. /\ row[k] # None /\ UNCHANGED <<markers, nextId, jobs, status>> /\ status = "up"
          /\ \E b : row' = [row EXCEPT ![k].disabled = b]
      BY <1>0, <1>8 DEF DisableMod, DisableAddon, EnableMod, EnableAddon, SetDisabled, process,
                        MayRun, Installed
    <2>2. /\ row'[k].id = row[k].id /\ row'[k].ver = row[k].ver
          /\ \A x \in Items \ {k} : row'[x] = row[x]
      BY <1>0, <1>a, <2>1 DEF TypeOK, Row
    <2>. QED BY <1>1, <1>b, <2>1, <2>2
  <1>9. CASE Crash \/ Restart
    BY <1>0, <1>9 DEF Crash, Restart, db, MarksOK, Installed, FilesOf, Lives
  <1>10. CASE Serve
    BY <1>0, <1>10 DEF Serve, db, MarksOK, Installed, FilesOf, Lives
  <1>11. CASE UNCHANGED vars
    BY <1>0, <1>11 DEF vars, MarksOK, Installed, FilesOf, Updating, Lives
  <1>12. ASSUME NEW m \in recover, RecoverHalts(m)
        PROVE  MarksOK'
    BY <1>0, <1>12 DEF RecoverHalts, db, MarksOK, Installed, FilesOf, Lives
  <1>13. ASSUME NEW m \in recover, RecoverSingleUpdate(m)
        PROVE  MarksOK'
    <2>1. /\ status = "recovering" /\ UNCHANGED <<status, nextId>> /\ m \in Marker
          /\ recover' = recover \ {m}
          /\ recover = markers /\ m \in markers /\ m.item \in Items /\ m.ver \in Versions
      BY <1>0, <1>13 DEF RecoverSingleUpdate, TypeOK, MarksOK, Marker
    <2>2. CanRecord(m.item, m.ver)
      BY <1>0, <2>1, ApartCanRecord
    <2>3. /\ markers' = markers \ {m}
          /\ row' = row \/ (Lives(m) /\ row' = [row EXCEPT ![m.item].ver = m.ver])
      BY <1>13, <2>2 DEF RecoverSingleUpdate, RecoverForward, RecoverBack, Clear, Installed, Lives
    <2>4. /\ \A k \in Items \ {m.item} : row'[k] = row[k]
          /\ \A k \in Items : row'[k] # None => row[k] # None /\ row'[k].id = row[k].id
      BY <1>0, <1>a, <2>1, <2>3 DEF TypeOK, Row, Lives
    <2>5. ASSUME NEW n \in markers', Lives(n)'
          PROVE  Lives(n) /\ row'[n.item] = row[n.item]
      <3>1. n \in markers /\ n # m /\ n.item \in Items
        BY <1>1, <2>3
      <3>2. Lives(n)
        BY <2>4, <2>5, <3>1 DEF Lives
      <3>3. Lives(m) => n.item # m.item
        BY <1>0, <2>1, <3>1, <3>2 DEF MarksOK, Lives
      <3>. QED BY <2>3, <2>4, <3>1, <3>2, <3>3
    <2>6. ASSUME NEW n \in markers', Lives(n)' PROVE n.old = FilesOf(n.item)'
      <3>1. /\ n \in markers /\ n.item \in Items /\ Lives(n)
            /\ row[n.item] # None /\ row'[n.item] # None /\ row'[n.item] = row[n.item]
        BY <1>1, <2>3, <2>5, <2>6 DEF Lives
      <3>2. n.old = FilesOf(n.item)
        BY <1>0, <3>1 DEF MarksOK
      <3>. QED BY <1>0, <3>1, <3>2, FilesStay
    <2>7. \A k \in Items : row'[k] # None => row'[k].id < nextId'
      BY <1>a, <2>1, <2>4
    <2>. QED BY <1>0, <1>1, <2>1, <2>3, <2>6, <2>7 DEF MarksOK, Installed
  <1>14. ASSUME NEW j \in Jobs, SwapFails(j)
         PROVE  MarksOK'
    BY <1>0, <1>14 DEF SwapFails, db, MarksOK, Installed, FilesOf, Lives
  <1>. QED BY <1>2, <1>3, <1>4, <1>5, <1>6, <1>7, <1>8, <1>9, <1>10, <1>11, <1>12, <1>13, <1>14,
              NoHalts DEF Next

LEMMA InitPlaces == Init => PlaceInv
  BY InitSwap DEF Init, PlaceInv, MarksOK, Placed, Installed

LEMMA PlacedIsResolved == PlaceInv => FilesAtResolvedRoot
  <1>. SUFFICES ASSUME PlaceInv, NEW p \in Paths, files[p] # None, Settled(files[p].item)
                PROVE  disk[RootOf(row[files[p].item].disabled)][p] # None
    BY DEF FilesAtResolvedRoot
  <1>1. Whole(files[p].item)
    BY RunsWhole DEF Settled
  <1>2. p \in FilesOf(files[p].item)
    BY DEF FilesOf
  <1>. QED BY <1>1, <1>2 DEF Whole, UpdateRoot

\* FilesAtResolvedRoot, for any numbers of items, versions and jobs, if items have
\* paths and directories of their own, nothing else is done to an item while it is
\* updated, and operations are killed between steps or in the recovery only: whatever is
\* left of updates, recovery, itself killed any number of times, makes items whole again.
\* Swaps may end with an error as well, in any step, if what an item's versions have in
\* common carries the files along when it is disabled before that (src/src/ops.rs,
\* apply_mod_update, disable_mod, recover_single_update).
THEOREM Resolved == Hale => (Spec => []FilesAtResolvedRoot)
  <1>. SUFFICES ASSUME Hale PROVE Spec => []FilesAtResolvedRoot
    OBVIOUS
  <1>1. PlaceInv /\ [Next]_vars => PlaceInv'
    BY NextKeepsSwap, NextPlaced, NextMarks DEF PlaceInv, Hale, Steady
  <1>. QED BY <1>1, InitPlaces, PlacedIsResolved, PTL DEF Spec

------------------------------------------------------------------------------
(* The disk of a store where nothing fails: no file that the rows do not    *)
(* record.                                                                  *)

\* The contents of version w of item i, and no file of another version.
HasExactly(i, w) ==
  \A v \in Versions : \A p \in PathsIn(i, v) :
    disk[UpdateRoot(i)][p] = IF p \in PathsIn(i, w) THEN Archive[i][w][p] ELSE None

\* Where item i does not belong there is no file of it.
NothingElse(i) ==
  \A r \in Roots : row[i] = None \/ r # UpdateRoot(i) =>
    \A v \in Versions : \A p \in PathsIn(i, v) : disk[r][p] = None

\* What is neither in the new version nor still to be deleted is gone.
SweptBy(j) ==
  \A v \in Versions : \A p \in PathsIn(jobs[j].item, v) :
    p \notin PathsIn(jobs[j].item, jobs[j].ver) /\ p \notin jobs[j].stale =>
      disk[UpdateRoot(jobs[j].item)][p] = None

Tidy(i) ==
  /\ NothingElse(i)
  /\ row[i] # None /\ ~Updating(i) => HasExactly(i, row[i].ver)
  /\ \A j \in Jobs : jobs[j] # None /\ jobs[j].item = i => SweptBy(j)

CalmInv == calm => status = "up" /\ \A i \in Items : Tidy(i)

\* A calm step.
CalmStep == [Next]_vars /\ status' = "up" /\ ~\E j \in Jobs : SwapFails(j)

LEMMA OneJob ==
  ASSUME SwapInv, NEW j \in Jobs, NEW k \in Jobs, jobs[j] # None, jobs[k] # None,
         jobs[j].item = jobs[k].item
  PROVE  j = k
  BY DEF SwapInv, JobOK, MarkerInv, OneSwapPerRow

\* A job ends with its last step, with a failure, or with the process.
LEMMA JobsEnd ==
  ASSUME TypeInv, CalmStep, NEW j \in Jobs, jobs[j] # None, jobs'[j] = None
  PROVE  CommitUpdate(j)
  <1>0. jobs \in [Jobs -> Job \cup {None}]
    BY DEF TypeInv, TypeOK
  <1>1. ~UNCHANGED jobs /\ ~\E kind : Halts(kind)
    BY DEF Halts, CalmStep
  <1>2. ASSUME NEW k \in Jobs, NEW q \in Paths, CopyFile(k, q) \/ DeleteStale(k, q) PROVE FALSE
    <2>1. /\ jobs[k] \in Job
          /\ \/ jobs' = [jobs EXCEPT ![k].copy = @ \ {q}]
             \/ jobs' = [jobs EXCEPT ![k].stale = @ \ {q}]
      BY <1>0, <1>2 DEF CopyFile, DeleteStale
    <2>2. jobs'[k] \in Job
      BY <1>0, <2>1 DEF Job
    <2>3. k # j => jobs'[j] = jobs[j]
      BY <1>0, <2>1
    <2>. QED BY <2>2, <2>3, NoJobAssumption
  <1>3. ASSUME NEW k \in Jobs, CommitUpdate(k) PROVE k = j
    BY <1>0, <1>3 DEF CommitUpdate
  <1>4. ASSUME NEW k \in Jobs, NEW i \in Items, NEW v \in Versions, MarkUpdate(k, i, v) PROVE FALSE
    BY <1>0, <1>4 DEF MarkUpdate
  <1>5. ~\E i \in Items : \E v \in Versions :
          InstallFromArchive(i, v) \/ UpdateFromArchive(i, v)
    BY <1>1 DEF InstallFromArchive, UpdateFromArchive, process
  <1>6. ~\E i \in Items : \E v \in Versions : InstallHalts(i, v) \/ UpdateHalts(i, v)
    BY <1>1 DEF InstallHalts, UpdateHalts
  <1>7. ~\E i \in Items : \/ RemoveById(i) \/ DisableMod(i) \/ DisableAddon(i)
                            \/ EnableMod(i) \/ EnableAddon(i)
    BY <1>1 DEF RemoveById, DisableMod, DisableAddon, EnableMod, EnableAddon, process
  <1>8. ~\E i \in Items : RemoveHalts(i) \/ DisableHalts(i) \/ EnableHalts(i)
    BY <1>1 DEF RemoveHalts, DisableHalts, EnableHalts
  <1>9. ~(\/ Crash \/ Restart \/ Serve \/ UNCHANGED vars
          \/ \E m \in recover : RecoverSingleUpdate(m) \/ RecoverHalts(m))
    BY <1>1 DEF Crash, Restart, Serve, RecoverSingleUpdate, RecoverHalts, vars, CalmStep
  <1>. QED BY <1>2, <1>3, <1>4, <1>5, <1>6, <1>7, <1>8, <1>9 DEF Next, CalmStep

\* The files of an item nobody acts on stay in order.
LEMMA OthersTidy ==
  ASSUME SwapInv, AreasApart, CalmStep, NEW i \in Items, ~ActsOn(i), Tidy(i)
  PROVE  Tidy(i)'
  <1>0. /\ TypeInv /\ DiskInv /\ RecordInv /\ row'[i] = row[i] /\ UpdateRoot(i)' = UpdateRoot(i)
        /\ UpdateRoot(i) \in Roots /\ jobs \in [Jobs -> Job \cup {None}]
    BY RowFrame, RootOfType
       DEF SwapInv, MarkerInv, DiskInv, RecordInv, TypeInv, TypeOK, CalmStep, UpdateRoot
  <1>1. ASSUME NEW v \in Versions, NEW p \in PathsIn(i, v), NEW r \in Roots
        PROVE  disk'[r][p] = disk[r][p]
    BY <1>0, <1>1, DiskFrame DEF Leaves, CalmStep
  <1>2. ASSUME NEW j \in Jobs, jobs[j] # None, jobs[j].item = i PROVE jobs'[j] = jobs[j]
    <2>1. ~CommitUpdate(j) /\ ~\E q \in Paths : CopyFile(j, q) \/ DeleteStale(j, q)
      BY <1>2 DEF ActsOn
    <2>2. jobs'[j] # None
      BY <1>0, <1>2, <2>1, JobsEnd
    <2>. QED BY <1>0, <1>2, <2>1, <2>2, JobsGoOn DEF CalmStep
  <1>3. NothingElse(i)'
    BY <1>0, <1>1 DEF Tidy, NothingElse, PathsIn
  <1>4. row'[i] # None /\ ~Updating(i)' => HasExactly(i, row[i].ver)'
    <2>1. Updating(i) => Updating(i)'
      BY <1>2 DEF Updating
    <2>. QED BY <1>0, <1>1, <2>1 DEF Tidy, HasExactly, PathsIn
  <1>5. ASSUME NEW j \in Jobs, jobs'[j] # None, jobs'[j].item = i PROVE SweptBy(j)'
    <2>1. CASE jobs[j] # None
      <3>1. ~\E q \in Paths : CopyFile(j, q) \/ DeleteStale(j, q)
        <4>1. ASSUME NEW q \in Paths, CopyFile(j, q) \/ DeleteStale(j, q) PROVE FALSE
          <5>1. jobs[j] \in Job /\ jobs'[j].item = jobs[j].item
            BY <1>0, <2>1, <4>1 DEF CopyFile, DeleteStale, Job
          <5>. QED BY <1>5, <2>1, <4>1, <5>1 DEF ActsOn
        <4>. QED BY <4>1
      <3>2. jobs'[j] = jobs[j]
        BY <1>0, <1>5, <2>1, <3>1, JobsGoOn DEF CalmStep
      <3>3. jobs[j].item = i /\ SweptBy(j)
        BY <1>5, <2>1, <3>2 DEF Tidy
      <3>. QED BY <1>0, <1>1, <3>2, <3>3 DEF SweptBy, PathsIn
    <2>2. CASE jobs[j] = None
      <3>1. PICK k \in Items, v \in Versions : MarkUpdate(j, k, v)
        BY <1>0, <1>5, <2>2, JobsBegin DEF CalmStep
      <3>2. jobs'[j] = [item |-> k, id |-> row[k].id, ver |-> v, root |-> UpdateRoot(k),
                        copy |-> PathsIn(k, v), stale |-> FilesOf(k) \ PathsIn(k, v)]
        BY <1>0, <3>1 DEF MarkUpdate
      <3>3. k = i /\ jobs'[j].ver = v /\ jobs'[j].stale = FilesOf(i) \ PathsIn(i, v)
        BY <1>5, <3>2
      <3>4. i \in Installed /\ row[i] # None /\ MarkersOf(i) = {}
        BY <3>1, <3>3 DEF MarkUpdate, CanMark, Installed
      <3>5. ~Updating(i)
        <4>1. ASSUME NEW x \in Jobs, jobs[x] # None, jobs[x].item = i PROVE FALSE
          <5>1. \E m \in markers : m.item = i /\ m.id = jobs[x].id
            BY <4>1 DEF SwapInv, MarkerInv, SwapIsMarked
          <5>2. jobs[x].id = row[i].id
            BY <4>1 DEF SwapInv, JobOK
          <5>. QED BY <3>4, <5>1, <5>2 DEF MarkersOf
        <4>. QED BY <4>1 DEF Updating
      <3>6. HasExactly(i, row[i].ver) /\ FilesOf(i) = PathsIn(i, row[i].ver)
        BY <1>0, <3>4, <3>5 DEF Tidy, RecordInv, RowsInv, RecordsAreOneVersion
      <3>. QED BY <1>0, <1>1, <1>5, <3>3, <3>6 DEF SweptBy, HasExactly, PathsIn
    <2>. QED BY <2>1, <2>2
  <1>. QED BY <1>0, <1>3, <1>4, <1>5 DEF Tidy

\* An item that is not being updated, in order.
LEMMA TidyAtRest ==
  ASSUME NEW i \in Items, ~Updating(i)
  PROVE  Tidy(i) <=> /\ NothingElse(i)
                     /\ row[i] # None => HasExactly(i, row[i].ver)
  BY DEF Tidy, Updating

LEMMA InstallTidies ==
  ASSUME SwapInv, NEW i \in Items, NEW v \in Versions, InstallFromArchive(i, v), Tidy(i)
  PROVE  Tidy(i)'
  <1>0. TypeOK /\ row[i] = None /\ UNCHANGED jobs /\ NothingElse(i)
    BY DEF SwapInv, MarkerInv, TypeInv, InstallFromArchive, InstallRows, process, Tidy
  <1>1. row'[i] = [id |-> nextId, ver |-> v, disabled |-> FALSE]
    BY <1>0 DEF InstallFromArchive, InstallRows, TypeOK
  <1>2. row'[i].ver = v /\ UpdateRoot(i)' = "live" /\ "live" \in Roots
    BY <1>1 DEF UpdateRoot, RootOf, Roots
  <1>3. \A r \in Roots : disk'[r] = IF r = "live" THEN Put(disk["live"], PathsIn(i, v), Archive[i][v])
                                    ELSE disk[r]
    BY <1>0 DEF InstallFromArchive, TypeOK, Roots
  <1>4. \A r \in Roots, w \in Versions : \A p \in PathsIn(i, w) :
          disk'[r][p] = IF r = "live" /\ p \in PathsIn(i, v) THEN Archive[i][v][p] ELSE None
    BY <1>0, <1>2, <1>3, PathsInType, PutAt DEF NothingElse
  <1>5. ~Updating(i)'
    BY <1>0 DEF Updating, SwapInv, JobOK, Installed
  <1>6. NothingElse(i)'
    <2>1. InstallRows(i, v)
      BY DEF InstallFromArchive
    <2>2. row'[i] # None
      BY <2>1, RowStepInstalls DEF SwapInv, DiskInv
    <2>. QED BY <1>2, <1>4, <2>2 DEF NothingElse, PathsIn
  <1>7. HasExactly(i, row[i].ver)'
    BY <1>2, <1>4 DEF HasExactly, PathsIn
  <1>. QED BY <1>5, <1>6, <1>7 DEF Tidy, Updating

LEMMA UpdateTidies ==
  ASSUME SwapInv, ArchivesApart, Overlap = {}, NEW i \in Items, NEW v \in Versions,
         UpdateFromArchive(i, v), Tidy(i)
  PROVE  Tidy(i)'
  <1>. DEFINE x == UpdateRoot(i)
              stale == FilesOf(i) \ PathsIn(i, v)
  <1>0. /\ TypeOK /\ RecordInv /\ i \in Installed /\ row[i] # None /\ ~Updating(i) /\ UNCHANGED jobs
        /\ NothingElse(i) /\ HasExactly(i, row[i].ver) /\ x \in Roots
        /\ FilesOf(i) = PathsIn(i, row[i].ver)
    <2>1. TypeOK /\ RecordInv /\ i \in Installed /\ row[i] # None /\ UNCHANGED jobs
      BY DEF SwapInv, MarkerInv, DiskInv, TypeInv, UpdateFromArchive, process, Installed
    <2>2. ~Updating(i)
      BY DEF UpdateFromArchive, MayRun
    <2>. QED BY <2>1, <2>2, RootOfType
             DEF Tidy, UpdateRoot, RecordInv, RowsInv, RecordsAreOneVersion
  <1>1. row' = [row EXCEPT ![i].ver = v]
    BY <1>0, ApartCanRecord DEF UpdateFromArchive
  <1>2. row'[i] # None /\ row'[i].ver = v /\ UpdateRoot(i)' = x
    BY <1>0, <1>1, VersionSet DEF UpdateRoot
  <1>3. disk' = [disk EXCEPT ![x] = Drop(Put(disk[x], PathsIn(i, v), Archive[i][v]), stale)]
    BY DEF UpdateFromArchive
  <1>4. \A r \in Roots : disk'[r] = IF r = x THEN Drop(Put(disk[x], PathsIn(i, v), Archive[i][v]), stale)
                                    ELSE disk[r]
    BY <1>0, <1>3 DEF TypeOK
  <1>5. ASSUME NEW w \in Versions, NEW p \in PathsIn(i, w)
        PROVE  disk'[x][p] = IF p \in PathsIn(i, v) THEN Archive[i][v][p] ELSE None
    <2>0. p \in Paths
      BY PathsInType
    <2>1. disk'[x][p] = IF p \in stale THEN None
                        ELSE IF p \in PathsIn(i, v) THEN Archive[i][v][p] ELSE disk[x][p]
      BY <1>0, <1>4, <2>0, PutAt, DropAt
    <2>2. disk[x][p] = None \/ p \in PathsIn(i, row[i].ver)
      BY <1>0 DEF HasExactly
    <2>. QED BY <1>0, <2>1, <2>2
  <1>. HIDE DEF x, stale
  <1>6. NothingElse(i)'
    BY <1>0, <1>2, <1>4 DEF NothingElse, PathsIn, x
  <1>7. HasExactly(i, row[i].ver)'
    BY <1>2, <1>5 DEF HasExactly, PathsIn
  <1>8. ~Updating(i)'
    BY <1>0 DEF Updating
  <1>. QED BY <1>6, <1>7, <1>8 DEF Tidy, Updating

\* Moving an item between the roots takes all of its files along.
LEMMA MoveTidies ==
  ASSUME TypeOK, RecordInv, NEW i \in Items, row[i] # None, ~Updating(i), Tidy(i), UNCHANGED jobs,
         NEW to \in Roots, UpdateRoot(i) # to, UpdateRoot(i)' = to,
         row'[i] # None, row'[i].ver = row[i].ver,
         NEW S, FilesOf(i) \subseteq S, disk' = MoveTo(UpdateRoot(i), to, S)
  PROVE  Tidy(i)'
  <1>. DEFINE from == UpdateRoot(i)
  <1>0. /\ NothingElse(i) /\ HasExactly(i, row[i].ver) /\ from \in Roots
        /\ FilesOf(i) = PathsIn(i, row[i].ver)
    BY RootOfType DEF Tidy, UpdateRoot, RecordInv, RowsInv, RecordsAreOneVersion, Installed
  <1>1. \A r \in Roots : r = from \/ r = to
    BY <1>0 DEF Roots
  <1>2. ASSUME NEW w \in Versions, NEW p \in PathsIn(i, w)
        PROVE  /\ disk'[to][p] = IF p \in PathsIn(i, row[i].ver) THEN Archive[i][row[i].ver][p] ELSE None
               /\ disk'[from][p] = None
    <2>0. p \in Paths
      BY PathsInType
    <2>1. /\ disk'[from][p] = IF p \in S THEN None ELSE disk[from][p]
          /\ disk'[to][p] = IF p \in S THEN disk[from][p] ELSE disk[to][p]
      BY <1>0, <2>0, MoveAt
    <2>2. disk[to][p] = None
      BY <1>0 DEF NothingElse
    <2>3. disk[from][p] = IF p \in PathsIn(i, row[i].ver) THEN Archive[i][row[i].ver][p] ELSE None
      BY <1>0 DEF HasExactly
    <2>. QED BY <1>0, <2>1, <2>2, <2>3
  <1>. HIDE DEF from
  <1>3. NothingElse(i)'
    BY <1>1, <1>2 DEF NothingElse, PathsIn
  <1>4. HasExactly(i, row[i].ver)'
    BY <1>2 DEF HasExactly, PathsIn
  <1>5. ~Updating(i)'
    BY DEF Updating
  <1>. QED BY <1>3, <1>4, <1>5 DEF Tidy, Updating

LEMMA ToggleTidies ==
  ASSUME SwapInv, NoneUnder, Overlap = {}, NEW i \in Items, Tidy(i),
         DisableMod(i) \/ DisableAddon(i) \/ EnableMod(i) \/ EnableAddon(i)
  PROVE  Tidy(i)'
  <1>0. /\ TypeOK /\ RecordInv /\ row[i] # None /\ ~Updating(i) /\ UNCHANGED jobs /\ row[i] \in Row
        /\ FilesOf(i) = PathsIn(i, row[i].ver) /\ row[i].ver \in Versions
        /\ HasExactly(i, row[i].ver)
    <2>1. /\ TypeOK /\ RecordInv /\ row[i] # None /\ UNCHANGED jobs /\ row[i] \in Row
      BY DEF SwapInv, MarkerInv, DiskInv, TypeInv, TypeOK, Row, Installed, process,
             DisableMod, DisableAddon, EnableMod, EnableAddon
    <2>2. ~Updating(i)
      BY DEF DisableMod, DisableAddon, EnableMod, EnableAddon, MayRun
    <2>. QED BY <2>1, <2>2 DEF RecordInv, RowsInv, RecordsAreOneVersion, Row, Tidy, Installed
  <1>1. CASE DisableMod(i) \/ DisableAddon(i)
    <2>1. row' = [row EXCEPT ![i].disabled = TRUE] /\ ~row[i].disabled
      BY <1>1 DEF DisableMod, DisableAddon, SetDisabled
    <2>2. row'[i] = [row[i] EXCEPT !.disabled = TRUE]
      BY <1>0, <2>1 DEF TypeOK
    <2>3. row'[i] \in Row /\ row'[i].disabled /\ row'[i].ver = row[i].ver
      BY <1>0, <2>2 DEF Row
    <2>4. row'[i] # None /\ UpdateRoot(i) = "live" /\ UpdateRoot(i)' = "stash"
      BY <2>1, <2>3, NoneAssumption DEF Row, UpdateRoot, RootOf
    <2>5. PICK S : disk' = MoveTo("live", "stash", S) /\ FilesOf(i) \subseteq S
      BY <1>1, DisabledMoves DEF DisableMod, DisableAddon
    <2>. QED BY <1>0, <2>3, <2>4, <2>5, MoveTidies DEF Roots
  <1>2. CASE EnableMod(i) \/ EnableAddon(i)
    <2>1. row' = [row EXCEPT ![i].disabled = FALSE] /\ row[i].disabled
      BY <1>2 DEF EnableMod, EnableAddon, SetDisabled
    <2>2. row'[i] = [row[i] EXCEPT !.disabled = FALSE]
      BY <1>0, <2>1 DEF TypeOK
    <2>3. row'[i] \in Row /\ ~row'[i].disabled /\ row'[i].ver = row[i].ver
      BY <1>0, <2>2 DEF Row
    <2>4. row'[i] # None /\ UpdateRoot(i) = "stash" /\ UpdateRoot(i)' = "live"
      BY <2>1, <2>3, NoneAssumption DEF Row, UpdateRoot, RootOf
    <2>5. \A p \in FilesOf(i) : disk["stash"][p] # None
      <3>1. \A p \in PathsIn(i, row[i].ver) : Archive[i][row[i].ver][p] # None
        BY <1>0, PathsInType, ItemAssumption
      <3>. QED BY <1>0, <2>4, <3>1 DEF HasExactly
    <2>6. FilesOf(i) \subseteq EnableMoves(i) /\ FilesOf(i) \subseteq StashedFiles(i)
      BY <2>5, EnabledMoves DEF StashedFiles
    <2>7. PICK S : disk' = MoveTo("stash", "live", S) /\ FilesOf(i) \subseteq S
      BY <1>2, <2>6 DEF EnableMod, EnableAddon
    <2>. QED BY <1>0, <2>3, <2>4, <2>7, MoveTidies DEF Roots
  <1>. QED BY <1>1, <1>2

LEMMA RemoveTidies ==
  ASSUME SwapInv, Overlap = {}, NEW k \in Items, RemoveById(k),
         NEW i \in Items, i \in {k} \cup AddonsOf(k), Tidy(i)
  PROVE  Tidy(i)'
  <1>. DEFINE S == {k} \cup AddonsOf(k)
  <1>0. /\ TypeOK /\ RecordInv /\ row[i] # None /\ ~Updating(i) /\ UNCHANGED jobs
        /\ NothingElse(i) /\ HasExactly(i, row[i].ver) /\ FilesOf(i) = PathsIn(i, row[i].ver)
    <2>1. TypeOK /\ RecordInv /\ row[i] # None /\ UNCHANGED jobs
      BY DEF SwapInv, MarkerInv, DiskInv, TypeInv, RemoveById, Installed, AddonsOf, process
    <2>2. ~Updating(i)
      BY DEF RemoveById, MayRun
    <2>. QED BY <2>1, <2>2 DEF Tidy, RecordInv, RowsInv, RecordsAreOneVersion, Installed
  <1>1. row'[i] = None
    BY DEF RemoveById, DeleteRows
  <1>2. ASSUME NEW r \in Roots, NEW v \in Versions, NEW p \in PathsIn(i, v)
        PROVE  disk'[r][p] = None
    <2>. DEFINE T == UNION {FilesOf(x) : x \in {y \in S : RootOf(row[y].disabled) = r}}
    <2>0. p \in Paths
      BY PathsInType
    <2>1. disk'[r] = Drop(disk[r], T)
      BY DEF RemoveById, DeletedFrom
    <2>2. p \in FilesOf(i) /\ r = UpdateRoot(i) => p \in T
      BY DEF UpdateRoot
    <2>. HIDE DEF T
    <2>3. disk'[r][p] = IF p \in T THEN None ELSE disk[r][p]
      BY <2>0, <2>1, DropAt
    <2>4. disk[r][p] = None \/ (p \in FilesOf(i) /\ r = UpdateRoot(i))
      BY <1>0 DEF NothingElse, HasExactly
    <2>. QED BY <2>2, <2>3, <2>4
  <1>3. NothingElse(i)'
    BY <1>2 DEF NothingElse, PathsIn
  <1>4. ~Updating(i)'
    BY <1>0 DEF Updating
  <1>. QED BY <1>1, <1>3, <1>4 DEF Tidy, Updating

\* A job works on its own: it brings files of the new version and deletes others.
LEMMA JobTidies ==
  ASSUME SwapInv, NEW j \in Jobs, NEW q \in Paths, CopyFile(j, q) \/ DeleteStale(j, q),
         NEW i \in Items, jobs[j].item = i, Tidy(i)
  PROVE  Tidy(i)'
  <1>. DEFINE b == jobs[j]
              x == UpdateRoot(i)
  <1>0. /\ TypeOK /\ b # None /\ b \in Job /\ JobOK(j) /\ q \in Paths /\ UNCHANGED row
        /\ i \in Items /\ b.ver \in Versions /\ row[i] # None /\ b.root = x /\ x \in Roots
        /\ NothingElse(i) /\ SweptBy(j) /\ b.copy \subseteq PathsIn(i, b.ver)
    <2>1. TypeOK /\ b # None /\ b \in Job /\ JobOK(j) /\ q \in Paths /\ UNCHANGED row
      BY DEF SwapInv, MarkerInv, TypeInv, TypeOK, CopyFile, DeleteStale, db
    <2>. QED BY <2>1 DEF JobOK, Tidy, Job, Installed, SwapInv, MarkerInv, TypeInv, CopyOK
  <1>1. /\ jobs'[j] \in Job /\ jobs'[j].item = i /\ jobs'[j].ver = b.ver
        /\ \A k \in Jobs \ {j} : jobs'[k] = jobs[k]
        /\ jobs'[j].stale = b.stale \/ (DeleteStale(j, q) /\ jobs'[j].stale = b.stale \ {q})
    <2>1. CASE CopyFile(j, q)
      BY <1>0, <2>1 DEF CopyFile, TypeOK, Job
    <2>2. CASE DeleteStale(j, q)
      BY <1>0, <2>2 DEF DeleteStale, TypeOK, Job
    <2>. QED BY <2>1, <2>2
  <1>2. UpdateRoot(i)' = x /\ jobs'[j] # None
    BY <1>0, <1>1, NoJobAssumption DEF UpdateRoot
  <1>3. PICK c : /\ disk' = [disk EXCEPT ![x][q] = c]
                 /\ q \in PathsIn(i, b.ver) \/ (c = None /\ DeleteStale(j, q))
    BY <1>0 DEF CopyFile, DeleteStale
  <1>4. ASSUME NEW r \in Roots, NEW p \in Paths
        PROVE  disk'[r][p] = IF r = x /\ p = q THEN c ELSE disk[r][p]
    BY <1>0, <1>3 DEF TypeOK
  <1>. HIDE DEF x
  <1>5. NothingElse(i)'
    <2>. SUFFICES ASSUME NEW r \in Roots, r # x, NEW v \in Versions, NEW p \in PathsIn(i, v)
                  PROVE  disk'[r][p] = None
      BY <1>0, <1>2 DEF NothingElse, PathsIn
    <2>1. p \in Paths
      BY PathsInType
    <2>. QED BY <1>0, <1>4, <2>1 DEF NothingElse, x
  <1>6. SweptBy(j)'
    <2>. SUFFICES ASSUME NEW v \in Versions, NEW p \in PathsIn(i, v),
                         p \notin PathsIn(i, b.ver), p \notin jobs'[j].stale
                  PROVE  disk'[x][p] = None
      BY <1>1, <1>2 DEF SweptBy, PathsIn
    <2>1. p \in Paths
      BY PathsInType
    <2>2. CASE p = q
      <3>1. c = None
        BY <1>3, <2>2
      <3>. QED BY <1>0, <1>4, <2>1, <2>2, <3>1 DEF x
    <2>3. CASE p # q
      <3>1. p \notin b.stale
        BY <1>1, <2>3
      <3>. QED BY <1>0, <1>4, <2>1, <2>3, <3>1 DEF SweptBy, x
    <2>. QED BY <2>2, <2>3
  <1>7. ASSUME NEW k \in Jobs, jobs'[k] # None, jobs'[k].item = i PROVE k = j
    BY <1>0, <1>1, <1>7, OneJob
  <1>8. Updating(i)'
    BY <1>1, <1>2 DEF Updating
  <1>. QED BY <1>5, <1>6, <1>7, <1>8 DEF Tidy

LEMMA CommitTidies ==
  ASSUME SwapInv, ArchivesApart, NEW j \in Jobs, CommitUpdate(j), NEW i \in Items, jobs[j].item = i,
         Tidy(i)
  PROVE  Tidy(i)'
  <1>. DEFINE v == jobs[j].ver
  <1>0. /\ TypeOK /\ RecordInv /\ jobs[j] # None /\ JobOK(j) /\ v \in Versions /\ UNCHANGED disk
        /\ jobs[j].stale = {} /\ jobs[j].copy = {} /\ jobs' = [jobs EXCEPT ![j] = None]
        /\ NothingElse(i) /\ SweptBy(j)
    BY DEF SwapInv, MarkerInv, DiskInv, TypeInv, TypeOK, CommitUpdate, Tidy, Job
  <1>1. i \in Installed /\ row[i] # None /\ row[i].id = jobs[j].id /\ CanRecord(i, v)
    BY <1>0, ApartCanRecord DEF JobOK, Installed
  <1>2. row' = [row EXCEPT ![i].ver = v]
    BY <1>1 DEF CommitUpdate
  <1>3. row'[i] # None /\ row'[i].ver = v /\ UpdateRoot(i)' = UpdateRoot(i)
    BY <1>0, <1>1, <1>2, VersionSet DEF UpdateRoot
  <1>4. NothingElse(i)'
    BY <1>0, <1>1, <1>3 DEF NothingElse, PathsIn
  <1>5. HasExactly(i, row[i].ver)'
    <2>1. \A p \in PathsIn(i, v) : disk[UpdateRoot(i)][p] = Archive[i][v][p]
      BY <1>0 DEF JobOK
    <2>2. \A w \in Versions : \A p \in PathsIn(i, w) :
            p \notin PathsIn(i, v) => disk[UpdateRoot(i)][p] = None
      BY <1>0 DEF SweptBy
    <2>. QED BY <1>0, <1>3, <2>1, <2>2 DEF HasExactly, PathsIn
  <1>6. ~Updating(i)'
    <2>1. ASSUME NEW k \in Jobs, jobs'[k] # None, jobs'[k].item = i PROVE FALSE
      <3>1. jobs'[k] = IF k = j THEN None ELSE jobs[k]
        BY <1>0 DEF TypeOK
      <3>. QED BY <1>0, <2>1, <3>1, OneJob
    <2>. QED BY <2>1 DEF Updating
  <1>. QED BY <1>4, <1>5, <1>6 DEF Tidy, Updating

LEMMA NextCalm ==
  ASSUME SwapInv, Steady, CalmInv, calm, CalmStep
  PROVE  \A i \in Items : Tidy(i)'
  <1>0. /\ AreasApart /\ ArchivesApart /\ Overlap = {} /\ NoneUnder /\ status = "up"
        /\ Faults \subseteq {"crash", "update", "recover"} /\ TypeOK
    BY ApartIsApart DEF Steady, CalmInv, SwapInv, MarkerInv, TypeInv
  <1>. SUFFICES ASSUME NEW i \in Items, Tidy(i) PROVE Tidy(i)'
    BY DEF CalmInv
  <1>1. CASE ~ActsOn(i)
    BY <1>0, <1>1, OthersTidy
  <1>2. ASSUME NEW v \in Versions, InstallFromArchive(i, v) PROVE Tidy(i)'
    BY <1>2, InstallTidies
  <1>3. ASSUME NEW v \in Versions, UpdateFromArchive(i, v) PROVE Tidy(i)'
    BY <1>0, <1>3, UpdateTidies
  <1>4. ASSUME NEW j \in Jobs, NEW q \in Paths, jobs[j].item = i, CopyFile(j, q) \/ DeleteStale(j, q)
        PROVE  Tidy(i)'
    BY <1>4, JobTidies
  <1>5. ASSUME NEW j \in Jobs, jobs[j].item = i, CommitUpdate(j) PROVE Tidy(i)'
    BY <1>0, <1>5, CommitTidies
  <1>6. ASSUME NEW k \in Items, i \in {k} \cup AddonsOf(k), RemoveById(k) PROVE Tidy(i)'
    BY <1>0, <1>6, RemoveTidies
  <1>7. CASE DisableMod(i) \/ DisableAddon(i) \/ EnableMod(i) \/ EnableAddon(i)
    BY <1>0, <1>7, ToggleTidies
  <1>8. ASSUME NEW m \in recover, RecoverSingleUpdate(m) \/ RecoverHalts(m) PROVE FALSE
    BY <1>0, <1>8 DEF RecoverSingleUpdate, RecoverHalts
  <1>. QED BY <1>0, <1>1, <1>2, <1>3, <1>4, <1>5, <1>6, <1>7, <1>8, OthersGoThrough DEF ActsOn

LEMMA CalmIsInOrder ==
  ASSUME SwapInv, CalmInv
  PROVE  CalmDiskIsCatalogue
  <1>. SUFFICES ASSUME calm, status = "up", \A i \in Installed : Settled(i),
                       NEW p \in Paths, NEW r \in Roots
                PROVE  disk[r][p] = IF files[p] # None /\ RootOf(row[files[p].item].disabled) = r
                                    THEN files[p].hash ELSE None
    BY DEF CalmDiskIsCatalogue, DiskIsCatalogue
  <1>0. TypeOK /\ RecordInv /\ FromArchives
    BY DEF SwapInv, MarkerInv, DiskInv, TypeInv
  <1>1. ASSUME NEW i \in Items, row[i] # None
        PROVE  /\ NothingElse(i) /\ HasExactly(i, row[i].ver) /\ row[i].ver \in Versions
               /\ FilesOf(i) = PathsIn(i, row[i].ver)
               /\ \A q \in FilesOf(i) : files[q].hash = Archive[i][row[i].ver][q]
    BY <1>0, <1>1 DEF CalmInv, Tidy, Settled, Installed, RecordInv, RowsInv, RecordsAreOneVersion, TypeOK
  <1>2. CASE files[p] # None
    <2>. DEFINE i == files[p].item
    <2>1. i \in Items /\ row[i] # None /\ p \in FilesOf(i)
      BY <1>0, <1>2 DEF RecordInv, RowsInv, NothingDangles, Installed, FilesOf
    <2>2. p \in PathsIn(i, row[i].ver) /\ files[p].hash = Archive[i][row[i].ver][p]
      BY <1>1, <2>1
    <2>. HIDE DEF i
    <2>3. disk[r][p] = IF r = UpdateRoot(i) THEN Archive[i][row[i].ver][p] ELSE None
      BY <1>1, <2>1, <2>2 DEF NothingElse, HasExactly
    <2>. QED BY <1>2, <2>2, <2>3 DEF UpdateRoot, i
  <1>3. CASE files[p] = None
    <2>1. SUFFICES ASSUME disk[r][p] # None PROVE FALSE
      BY <1>3
    <2>2. PICK i \in Items, v \in Versions : p \in PathsIn(i, v)
      BY <1>0, <2>1 DEF FromArchives, Brings
    <2>3. NothingElse(i)
      BY DEF CalmInv, Tidy
    <2>4. row[i] # None /\ r = UpdateRoot(i)
      BY <2>1, <2>2, <2>3 DEF NothingElse
    <2>5. p \notin PathsIn(i, row[i].ver)
      BY <1>1, <1>3, <2>4 DEF FilesOf
    <2>. QED BY <1>1, <2>1, <2>2, <2>4, <2>5 DEF HasExactly
  <1>. QED BY <1>2, <1>3

\* CalmDiskIsCatalogue, for any numbers of items, versions and jobs, if items have
\* paths and directories of their own and nothing else is done to an item while it
\* is updated: as long as nothing fails, the disk is what the rows say, no file
\* more and no file less.
THEOREM Tidied == Steady => (WatchedSpec => []CalmDiskIsCatalogue)
  <1>. SUFFICES ASSUME Steady PROVE WatchedSpec => []CalmDiskIsCatalogue
    OBVIOUS
  <1>1. WatchedInit => SwapInv /\ CalmInv
    <2>1. Init => \A i \in Items : Tidy(i)
      BY PathsInType DEF Init, Tidy, NothingElse
    <2>. QED BY <2>1, InitSwap DEF WatchedInit, CalmInv, Init
  <1>2. SwapInv /\ CalmInv /\ [WatchedNext]_<<vars, calm>> => SwapInv' /\ CalmInv'
    <2>. SUFFICES ASSUME SwapInv, CalmInv, [WatchedNext]_<<vars, calm>> PROVE SwapInv' /\ CalmInv'
      OBVIOUS
    <2>1. [Next]_vars
      BY DEF WatchedNext
    <2>2. SwapInv'
      BY <2>1, NextKeepsSwap DEF Steady
    <2>3. CASE WatchedNext
      <3>1. calm' => calm /\ CalmStep
        BY <2>1, <2>3 DEF WatchedNext, CalmStep
      <3>2. calm' => \A i \in Items : Tidy(i)'
        BY <3>1, NextCalm
      <3>. QED BY <2>2, <3>1, <3>2 DEF CalmInv, CalmStep
    <2>4. CASE UNCHANGED <<vars, calm>>
      BY <2>2, <2>4 DEF CalmInv, Tidy, NothingElse, HasExactly, SweptBy, Updating, UpdateRoot, PathsIn, vars
    <2>. QED BY <2>2, <2>3, <2>4
  <1>. QED BY <1>1, <1>2, CalmIsInOrder, PTL DEF WatchedSpec
=============================================================================
