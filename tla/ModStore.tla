------------------------------ MODULE ModStore ------------------------------
(***************************************************************************)
(* The mod store of Quartermaster: the catalogue in SQLite (installed      *)
(* mods and addons, their files, the pending_updates markers) and the two  *)
(* places on disk where the files of an item may be: the live SPT          *)
(* directory, and the stash quartermaster/disabled/ of a disabled item.    *)
(*                                                                         *)
(* A locked operation of src/src/ops.rs runs under the database mutex and  *)
(* is one action; where it can stop halfway (an I/O error, a crash) the    *)
(* halves are actions of their own, named ...Halts.  An asynchronous       *)
(* update (apply_mod_update, apply_addon_update) is a job of three steps   *)
(* that holds the mutex in the first and the last only, so everything else *)
(* may come between.  After a crash the markers are recovered, one by one. *)
(***************************************************************************)
EXTENDS Naturals, FiniteSets

CONSTANTS
  Mods, Addons,  \* what can be installed (Forge identities)
  ParentOf,      \* the mod an addon belongs to
  Versions,
  Paths,         \* canonical relative paths
  Hashes,        \* contents of files
  Archive,       \* Archive[i][v]: what version v of i contains, path -> hash
  Dirs,          \* top-level mod directories, such as BepInEx/plugins/Foo
  DirOf,         \* the top-level directory a path is in; None: a loose file
  Under,         \* Under[d]: the paths whose text starts with the name of d
  Jobs,          \* asynchronous update tasks
  Faults,        \* what may stop halfway: the kinds of operations, "crash"
  Overlap,       \* the kinds of locked operations that may come between the
                 \* steps of an update of the same item (the code allows all)
  MaxId,         \* bound on the row ids the model hands out
  None

Items == Mods \cup Addons
OpKinds == {"install", "locked_update", "update", "remove", "toggle", "recover"}

\* The directory name is compared as text and without a trailing slash, so
\* Foo.dll is Under Foo; a path below one top-level directory is Under another
\* only if it is loose.
ASSUME DirAssumption ==
  /\ DirOf \in [Paths -> Dirs \cup {None}]
  /\ Under \in [Dirs -> SUBSET Paths]
  /\ None \notin Dirs
  /\ \A p \in Paths, d \in Dirs :
       /\ DirOf[p] = d => p \in Under[d]
       /\ p \in Under[d] => DirOf[p] \in {d, None}

ASSUME ItemAssumption ==
  /\ Mods \cap Addons = {}
  /\ ParentOf \in [Addons -> Mods]
  /\ None \notin Items /\ None \notin Hashes

\* The sentinel is not a row, a file row or a catalogue entry.
ASSUME NoneAssumption ==
  /\ None \notin [id : 1..MaxId, ver : Versions, disabled : BOOLEAN]
  /\ None \notin [item : Items, hash : Hashes]
  /\ None \notin [ver : Versions, disabled : BOOLEAN]

\* An archive holds at least one file.
ASSUME ArchiveAssumption ==
  \A i \in Items, v \in Versions :
    /\ DOMAIN Archive[i][v] \in (SUBSET Paths) \ {{}}
    /\ \A p \in DOMAIN Archive[i][v] : Archive[i][v][p] \in Hashes

ASSUME BoundAssumption ==
  /\ MaxId \in Nat
  /\ Faults \subseteq OpKinds \cup {"crash"}
  /\ Overlap \subseteq OpKinds

VARIABLES
  disk,      \* disk[r][p]: content of path p below root r, None: no file
  row,       \* installed_mods and installed_addons; None: not installed
  files,     \* installed_files; file_path is UNIQUE
  markers,   \* pending_updates; (mod_db_id, item_type) is UNIQUE
  jobs,      \* the asynchronous updates in flight
  status,    \* the Quartermaster process: up, down or recovering
  recover,   \* markers the recovery pass has still to look at
  nextId     \* AUTOINCREMENT

vars == <<disk, row, files, markers, jobs, status, recover, nextId>>
db == <<row, files, markers, nextId>>
process == <<jobs, status, recover>>

Roots == {"live", "stash"}
RootOf(disabled) == IF disabled THEN "stash" ELSE "live"

PathsIn(i, v) == DOMAIN Archive[i][v]
FilesOf(i) == {p \in Paths : files[p] # None /\ files[p].item = i}
AddonsOf(i) == {a \in Addons : ParentOf[a] = i /\ row[a] # None}
Installed == {i \in Items : row[i] # None}

Marker == [item : Items, id : 1..MaxId, ver : Versions, old : SUBSET Paths]
Job == [item : Items, id : 1..MaxId, ver : Versions, root : Roots,
        copy : SUBSET Paths, stale : SUBSET Paths]

ASSUME NoJobAssumption == None \notin Job

MarkersOf(i) == {m \in markers : row[i] # None /\ m.item = i /\ m.id = row[i].id}

\* A locked operation runs while the process is up, and between the steps of an
\* update of the same item only if Overlap says so.
Updating(i) == \E j \in Jobs : jobs[j] # None /\ jobs[j].item = i

MayRun(kind, items) ==
  /\ status = "up"
  /\ kind \in Overlap \/ \A i \in items : ~Updating(i)

\* What is left of the process when an operation stops halfway: it returns the
\* error and goes on, or it has crashed and every job with it.
Halts(kind) ==
  /\ kind \in Faults
  /\ \/ UNCHANGED <<jobs, status>>
     \/ status' = "down" /\ jobs' = [j \in Jobs |-> None]
  /\ UNCHANGED recover

------------------------------------------------------------------------------
(* Conditions on the instance, under which theorems hold: the code asks for *)
(* none of them.                                                            *)

\* No two items bring the same path, in whatever versions.  Where they do, an
\* update writes over the other's file before its transaction fails.
ArchivesApart ==
  \A i, k \in Items : \A v, w \in Versions :
    i # k => PathsIn(i, v) \cap PathsIn(k, w) = {}

\* No two items bring the same path, or paths below one top-level directory.
AreasApart ==
  \A i, k \in Items : \A v, w \in Versions : i # k =>
    \A p \in PathsIn(i, v), q \in PathsIn(k, w) :
      p # q /\ (DirOf[p] # None => DirOf[p] # DirOf[q])

\* The directory name is compared as text: no loose file's path starts with one.
NoneUnder == \A p \in Paths, d \in Dirs : DirOf[p] = None => p \notin Under[d]

\* Disabling and enabling an item with one version on disk and the other in its row: the
\* one has all files of the other; or it is a mod, whose directories move as a whole, and
\* has its files in directories that the other has files in too.
Follows ==
  \A i \in Items : \A v, w \in Versions :
    \/ PathsIn(i, v) \subseteq PathsIn(i, w) \/ PathsIn(i, w) \subseteq PathsIn(i, v)
    \/ /\ i \in Mods
       /\ \A p \in PathsIn(i, w) : DirOf[p] # None /\ \E q \in PathsIn(i, v) : DirOf[q] = DirOf[p]

\* Operations other than updates and the recovery do not stop halfway.
Steady == /\ AreasApart /\ NoneUnder /\ Overlap = {}
          /\ Faults \subseteq {"crash", "update", "recover"}

\* Where swaps, too, end with an error, the versions follow each other.
Hale == Steady /\ ("update" \in Faults => Follows)

------------------------------------------------------------------------------
(* Disk and catalogue updates the operations share.                         *)

Put(content, paths, contents) ==
  [p \in Paths |-> IF p \in paths THEN contents[p] ELSE content[p]]

Drop(content, paths) ==
  [p \in Paths |-> IF p \in paths THEN None ELSE content[p]]

\* Rename paths from one root to the other; what the target held is gone.
MoveTo(from, to, paths) ==
  [disk EXCEPT ![from] = Drop(@, paths), ![to] = Put(@, paths, disk[from])]

\* delete_files_for_mod and record_extracted_files: the file_path column is
\* UNIQUE, so the second fails on a path another item owns.
AlwaysRecord(i, v) == TRUE  \* mutant: INSERT OR REPLACE
CanRecord(i, v) ==
  \A p \in PathsIn(i, v) : files[p] = None \/ files[p].item = i

RecordsAdded(i, v) ==  \* mutant: the rows of the old version stay
  [p \in Paths |->
     IF p \in PathsIn(i, v) THEN [item |-> i, hash |-> Archive[i][v][p]]
     ELSE files[p]]

RecordFiles(i, v) ==
  [p \in Paths |->
     IF p \in PathsIn(i, v) THEN [item |-> i, hash |-> Archive[i][v][p]]
     ELSE IF p \in FilesOf(i) THEN None
     ELSE files[p]]

\* Deleting a row cascades to its files; addons go with their mod.
DeleteRowsOnly(items) ==  \* mutant: without the cascade
  /\ row' = [i \in Items |-> IF i \in items THEN None ELSE row[i]]
  /\ UNCHANGED files

DeleteRows(items) ==
  /\ row' = [i \in Items |-> IF i \in items THEN None ELSE row[i]]
  /\ files' = Drop(files, UNION {FilesOf(i) : i \in items})

------------------------------------------------------------------------------
Init ==
  /\ disk = [r \in Roots |-> [p \in Paths |-> None]]
  /\ row = [i \in Items |-> None]
  /\ files = [p \in Paths |-> None]
  /\ markers = {}
  /\ jobs = [j \in Jobs |-> None]
  /\ status = "up"
  /\ recover = {}
  /\ nextId = 1

(* install_mod_from_archive, install_addon_from_archive: the rows are       *)
(* committed first, then the staged files are moved to the live directory.  *)
InstallRows(i, v) ==
  /\ status = "up"
  /\ row[i] = None
  /\ i \in Addons => row[ParentOf[i]] # None
  /\ \A p \in PathsIn(i, v) : files[p] = None
  /\ nextId <= MaxId
  /\ nextId' = nextId + 1
  /\ row' = [row EXCEPT ![i] = [id |-> nextId, ver |-> v, disabled |-> FALSE]]
  /\ files' = RecordFiles(i, v)
  /\ UNCHANGED markers

InstallFromArchive(i, v) ==
  /\ InstallRows(i, v)
  /\ disk' = [disk EXCEPT !["live"] = Put(@, PathsIn(i, v), Archive[i][v])]
  /\ UNCHANGED process

InstallHalts(i, v) ==
  \E moved \in SUBSET PathsIn(i, v) :
    /\ InstallRows(i, v)
    /\ moved # PathsIn(i, v)
    /\ disk' = [disk EXCEPT !["live"] = Put(@, moved, Archive[i][v])]
    /\ Halts("install")

(* update_mod_from_archive, update_addon_from_archive: new files are moved   *)
(* in, stale ones deleted, and only then are the rows replaced; a path that  *)
(* another item owns makes the transaction fail after the disk has changed.  *)
(* It does not look at the markers, and a failed update may have left one.   *)
NoMarkerLeft(i) == "locked_update" \in Overlap \/ MarkersOf(i) = {}

LiveRoot(i) == "live"  \* mutant: forgets that the item may be disabled
UpdateRoot(i) == RootOf(row[i].disabled)

UpdateFromArchive(i, v) ==
  LET r == UpdateRoot(i)
      stale == FilesOf(i) \ PathsIn(i, v)
  IN
  /\ i \in Installed
  /\ MayRun("locked_update", {i}) /\ NoMarkerLeft(i)
  /\ disk' = [disk EXCEPT ![r] = Drop(Put(@, PathsIn(i, v), Archive[i][v]), stale)]
  /\ IF CanRecord(i, v)
     THEN /\ files' = RecordFiles(i, v)
          /\ row' = [row EXCEPT ![i].ver = v]
     ELSE UNCHANGED <<files, row>>
  /\ UNCHANGED <<markers, nextId, process>>

UpdateHalts(i, v) ==
  LET r == UpdateRoot(i)
      stale == FilesOf(i) \ PathsIn(i, v)
  IN
  \E moved \in SUBSET PathsIn(i, v), gone \in SUBSET stale :
    /\ i \in Installed
    /\ MayRun("locked_update", {i}) /\ NoMarkerLeft(i)
    /\ gone # {} => moved = PathsIn(i, v)
    /\ disk' = [disk EXCEPT ![r] = Drop(Put(@, moved, Archive[i][v]), gone)]
    /\ UNCHANGED db
    /\ Halts("locked_update")

------------------------------------------------------------------------------
(* apply_mod_update and apply_addon_update, the asynchronous update.        *)

\* insert_pending_update fails on a second marker of the same row.
AnotherMarker(i) == TRUE  \* mutant: without the UNIQUE index
CanMark(i) == MarkersOf(i) = {}

\* Step 1, under the lock: read the old paths and whether the item is disabled,
\* and insert the marker.
MarkUpdate(j, i, v) ==
  /\ status = "up"
  /\ jobs[j] = None
  /\ i \in Installed
  /\ row[i].ver # v
  /\ CanMark(i)
  /\ markers' = markers \cup
       {[item |-> i, id |-> row[i].id, ver |-> v, old |-> FilesOf(i)]}
  /\ jobs' = [jobs EXCEPT ![j] =
       [item |-> i, id |-> row[i].id, ver |-> v, root |-> UpdateRoot(i),
        copy |-> PathsIn(i, v), stale |-> FilesOf(i) \ PathsIn(i, v)]]
  /\ UNCHANGED <<disk, row, files, nextId, status, recover>>

\* Step 2, no lock: move the staged files in, one by one ...
CopyFile(j, p) ==
  /\ jobs[j] # None
  /\ p \in jobs[j].copy
  /\ disk' = [disk EXCEPT ![jobs[j].root][p] = Archive[jobs[j].item][jobs[j].ver][p]]
  /\ jobs' = [jobs EXCEPT ![j].copy = @ \ {p}]
  /\ UNCHANGED <<db, status, recover>>

\* ... then delete the old files the new version does not have.
DeleteStale(j, p) ==
  /\ jobs[j] # None
  /\ jobs[j].copy = {}
  /\ p \in jobs[j].stale
  /\ disk' = [disk EXCEPT ![jobs[j].root][p] = None]
  /\ jobs' = [jobs EXCEPT ![j].stale = @ \ {p}]
  /\ UNCHANGED <<db, status, recover>>

NoMarkers(i, id) == {}  \* mutant: deletes without a condition
MarkersWithout(i, id) == {m \in markers : ~(m.item = i /\ m.id = id)}

\* Step 3, under the lock and in one transaction: replace the rows and delete
\* the marker.  It fails, and leaves the marker, if the row was removed in the
\* meantime (foreign key) or another item owns one of the paths.
CommitUpdate(j) ==
  LET i == jobs[j].item
      v == jobs[j].ver
      mine == i \in Installed /\ row[i].id = jobs[j].id
  IN
  /\ jobs[j] # None
  /\ jobs[j].copy = {} /\ jobs[j].stale = {}
  /\ IF mine /\ CanRecord(i, v)
     THEN /\ files' = RecordFiles(i, v)
          /\ row' = [row EXCEPT ![i].ver = v]
          /\ markers' = MarkersWithout(i, jobs[j].id)
     ELSE UNCHANGED <<files, row, markers>>
  /\ jobs' = [jobs EXCEPT ![j] = None]
  /\ UNCHANGED <<disk, nextId, status, recover>>

\* An I/O error in step 2 ends the job; nothing removes the marker.
SwapFails(j) ==
  /\ "update" \in Faults
  /\ jobs[j] # None
  /\ jobs[j].copy # {} \/ jobs[j].stale # {}
  /\ jobs' = [jobs EXCEPT ![j] = None]
  /\ UNCHANGED <<disk, db, status, recover>>

------------------------------------------------------------------------------
(* remove_addon_by_id and remove_mod_by_id: files first, then the row; a mod *)
(* takes its addons with it, one by one and before its own files.            *)
DeletedFromLive(items) ==  \* mutant: looks in the live directory only
  [disk EXCEPT !["live"] = Drop(@, UNION {FilesOf(i) : i \in items})]

DeletedFrom(items) ==
  [r \in Roots |->
     Drop(disk[r], UNION {FilesOf(i) : i \in {k \in items : RootOf(row[k].disabled) = r}})]

RemoveById(i) ==
  /\ i \in Installed
  /\ MayRun("remove", {i} \cup AddonsOf(i))
  /\ disk' = DeletedFrom({i} \cup AddonsOf(i))
  /\ DeleteRows({i} \cup AddonsOf(i))
  /\ UNCHANGED <<markers, nextId, process>>

\* Some addons are gone and the next item has lost some of its files.
RemoveHalts(i) ==
  \E done \in SUBSET AddonsOf(i) :
    \E next \in IF done = AddonsOf(i) THEN {i} ELSE AddonsOf(i) \ done :
      \E lost \in SUBSET FilesOf(next) :
        LET cleared == DeletedFrom(done)
            r == RootOf(row[next].disabled)
        IN
        /\ i \in Installed
        /\ MayRun("remove", {i} \cup AddonsOf(i))
        /\ disk' = [cleared EXCEPT ![r] = Drop(@, lost)]
        /\ DeleteRows(done)
        /\ UNCHANGED <<markers, nextId>>
        /\ Halts("remove")

------------------------------------------------------------------------------
(* Disabling and enabling move files between the two roots.                 *)

In(d) == {p \in Paths : DirOf[p] = d}
HasDir(r, d) == \E p \in In(d) : disk[r][p] # None

TopDirs(i) == {d \in Dirs : \E p \in FilesOf(i) : DirOf[p] = d}
Loose(i) == {p \in FilesOf(i) : \A d \in TopDirs(i) : p \notin Under[d]}

\* get_all_enabled_mod_files: the files of an enabled addon count only while
\* its mod is enabled too.
Enabled(i) ==
  /\ i \in Installed
  /\ ~row[i].disabled
  /\ i \in Addons => row[ParentOf[i]] # None /\ ~row[ParentOf[i]].disabled

\* filter_shared_dirs: a directory is shared if another enabled item has files
\* under it.
NoSharedDirs(i) == {}  \* mutant: every directory is taken for exclusive

SharedDirs(i) ==
  {d \in TopDirs(i) : \E p \in Under[d] :
     files[p] # None /\ files[p].item # i /\ Enabled(files[p].item)}

\* disable_mod moves an exclusive directory as a whole, whatever is in it, and
\* of a shared one the mod's own files.
DisableMoves(i) ==
  Loose(i)
    \cup (UNION {In(d) : d \in TopDirs(i) \ SharedDirs(i)})
    \cup (UNION {FilesOf(i) \cap Under[d] : d \in SharedDirs(i)})

SetDisabled(i, b) ==
  /\ row' = [row EXCEPT ![i].disabled = b]
  /\ UNCHANGED <<files, markers, nextId>>

DisableMod(i) ==
  /\ i \in Installed \cap Mods
  /\ ~row[i].disabled
  /\ MayRun("toggle", {i} \cup AddonsOf(i))
  /\ disk' = MoveTo("live", "stash", DisableMoves(i))
  /\ SetDisabled(i, TRUE)
  /\ UNCHANGED process

DisableAddon(a) ==
  /\ a \in Installed \cap Addons
  /\ ~row[a].disabled
  /\ MayRun("toggle", {a})
  /\ disk' = MoveTo("live", "stash", FilesOf(a))
  /\ SetDisabled(a, TRUE)
  /\ UNCHANGED process

\* What was at the stash side of the moves has been deleted; then, some of the
\* moves are made and the transaction is not committed.  A failed move undoes
\* the others, so only a crash leaves some of them behind.
DisableHalts(i) ==
  LET moves == IF i \in Mods THEN DisableMoves(i) ELSE FilesOf(i) IN
  \E done \in SUBSET moves :
    /\ i \in Installed
    /\ ~row[i].disabled
    /\ MayRun("toggle", {i} \cup AddonsOf(i))
    /\ i \in Mods => \A d \in TopDirs(i) \ SharedDirs(i) :
                       In(d) \subseteq done \/ In(d) \cap done = {}
    /\ disk' = [live |-> Drop(disk["live"], done),
                stash |-> Put(Drop(disk["stash"], moves), done, disk["live"])]
    /\ UNCHANGED db
    /\ Halts("toggle")
    /\ done # {} => status' = "down"

\* enable_mod: a directory that exists in the stash is moved as a whole, which
\* needs the live one to be absent; else the mod's own files are.
StashedDirs(i) == {d \in TopDirs(i) : HasDir("stash", d)}
EnableBlocked(i) == \E d \in StashedDirs(i) : HasDir("live", d)

EnableMoves(i) ==
  {p \in Paths :
     /\ disk["stash"][p] # None
     /\ \/ p \in Loose(i)
        \/ DirOf[p] \in StashedDirs(i)
        \/ p \in FilesOf(i) /\ \E d \in TopDirs(i) \ StashedDirs(i) : p \in Under[d]}

EnableMod(i) ==
  /\ i \in Installed \cap Mods
  /\ row[i].disabled
  /\ ~EnableBlocked(i)
  /\ MayRun("toggle", {i} \cup AddonsOf(i))
  /\ disk' = MoveTo("stash", "live", EnableMoves(i))
  /\ SetDisabled(i, FALSE)
  /\ UNCHANGED process

StashedFiles(a) == {p \in FilesOf(a) : disk["stash"][p] # None}

EnableAddon(a) ==
  /\ a \in Installed \cap Addons
  /\ row[a].disabled
  /\ MayRun("toggle", {a})
  /\ disk' = MoveTo("stash", "live", StashedFiles(a))
  /\ SetDisabled(a, FALSE)
  /\ UNCHANGED process

\* A crash between the moves and the commit.
EnableHalts(i) ==
  LET moves == IF i \in Mods THEN EnableMoves(i) ELSE StashedFiles(i) IN
  \E done \in (SUBSET moves) \ {{}} :
    /\ i \in Installed
    /\ row[i].disabled
    /\ i \in Mods => ~EnableBlocked(i)
    /\ MayRun("toggle", {i} \cup AddonsOf(i))
    /\ i \in Mods => \A d \in StashedDirs(i) :
                       In(d) \cap moves \subseteq done \/ In(d) \cap done = {}
    /\ disk' = MoveTo("stash", "live", done)
    /\ UNCHANGED db
    /\ Halts("toggle")
    /\ status' = "down"

------------------------------------------------------------------------------
(* Crash, restart, recovery.                                                *)
Crash ==
  /\ "crash" \in Faults
  /\ status # "down"
  /\ status' = "down"
  /\ jobs' = [j \in Jobs |-> None]
  /\ recover' = {}
  /\ UNCHANGED <<disk, db>>

Restart ==
  /\ status = "down"
  /\ status' = "recovering"
  /\ recover' = markers
  /\ UNCHANGED <<disk, db, jobs>>

\* count_verified_files and assess_recovery_state
Verified(m, r) == {p \in PathsIn(m.item, m.ver) : disk[r][p] = Archive[m.item][m.ver][p]}
SomeNewPresent(m, r) == Verified(m, r) # {}  \* mutant: does not count
AllNewPresent(m, r) == Verified(m, r) = PathsIn(m.item, m.ver)
PartialCopy(m, r) == Verified(m, r) # {} /\ ~AllNewPresent(m, r)

ClearItem(m) == markers' = {k \in markers : k.item # m.item}  \* mutant: by item
Clear(m) == markers' = markers \ {m}

RecoverForward(m) ==
  LET i == m.item IN
  /\ AllNewPresent(m, RootOf(row[i].disabled))
  /\ IF CanRecord(i, m.ver)
     THEN /\ files' = RecordFiles(i, m.ver)
          /\ row' = [row EXCEPT ![i].ver = m.ver]
          /\ Clear(m)
     ELSE UNCHANGED <<files, row, markers>>
  /\ UNCHANGED disk

\* cleanup_partial_copy deletes what the new version brought, not what it changed.
AllCopied(m) == PathsIn(m.item, m.ver)  \* mutant: also what the old version had
OnlyNew(m) == PathsIn(m.item, m.ver) \ m.old

RecoverBack(m) ==
  LET r == RootOf(row[m.item].disabled) IN
  /\ PartialCopy(m, r)
  /\ disk' = [disk EXCEPT ![r] = Drop(@, OnlyNew(m))]
  /\ Clear(m)
  /\ UNCHANGED <<row, files>>

RecoverSingleUpdate(m) ==
  LET alive == m.item \in Installed /\ row[m.item].id = m.id IN
  /\ status = "recovering"
  /\ m \in recover
  /\ \/ alive /\ RecoverForward(m)
     \/ alive /\ RecoverBack(m)
     \/ /\ alive => Verified(m, RootOf(row[m.item].disabled)) = {}
        /\ Clear(m)
        /\ UNCHANGED <<disk, row, files>>
  /\ recover' = recover \ {m}
  /\ UNCHANGED <<nextId, jobs, status>>

\* A crash while the partial copy is being cleaned up.
RecoverHalts(m) ==
  LET r == RootOf(row[m.item].disabled) IN
  \E gone \in SUBSET OnlyNew(m) :
    /\ "recover" \in Faults
    /\ status = "recovering"
    /\ m \in recover
    /\ m.item \in Installed /\ row[m.item].id = m.id
    /\ PartialCopy(m, r)
    /\ disk' = [disk EXCEPT ![r] = Drop(@, gone)]
    /\ status' = "down"
    /\ recover' = {}
    /\ UNCHANGED <<db, jobs>>

Serve ==
  /\ status = "recovering"
  /\ recover = {}
  /\ status' = "up"
  /\ UNCHANGED <<disk, db, jobs, recover>>

------------------------------------------------------------------------------
Next ==
  \/ \E i \in Items, v \in Versions :
       \/ InstallFromArchive(i, v) \/ InstallHalts(i, v)
       \/ UpdateFromArchive(i, v) \/ UpdateHalts(i, v)
       \/ \E j \in Jobs : MarkUpdate(j, i, v)
  \/ \E j \in Jobs :
       \/ \E p \in Paths : CopyFile(j, p) \/ DeleteStale(j, p)
       \/ CommitUpdate(j)
       \/ SwapFails(j)
  \/ \E i \in Items :
       \/ RemoveById(i) \/ RemoveHalts(i)
       \/ DisableMod(i) \/ DisableAddon(i) \/ DisableHalts(i)
       \/ EnableMod(i) \/ EnableAddon(i) \/ EnableHalts(i)
  \/ Crash
  \/ Restart
  \/ \E m \in recover : RecoverSingleUpdate(m) \/ RecoverHalts(m)
  \/ Serve

Spec == Init /\ [][Next]_vars

------------------------------------------------------------------------------
(* Properties.                                                              *)

TypeOK ==
  /\ disk \in [Roots -> [Paths -> Hashes \cup {None}]]
  /\ row \in [Items -> [id : 1..MaxId, ver : Versions, disabled : BOOLEAN] \cup {None}]
  /\ files \in [Paths -> [item : Items, hash : Hashes] \cup {None}]
  /\ markers \subseteq Marker
  /\ jobs \in [Jobs -> Job \cup {None}]
  /\ status \in {"up", "down", "recovering"}
  /\ recover \subseteq markers
  /\ nextId \in 1..(MaxId + 1)

\* Two updates never swap the files of the same row at the same time, whatever
\* the handlers start: the UNIQUE marker of step 1 excludes the second one
\* (migrations/002: "only one pending update per mod").
OneSwapPerRow ==
  \A j, k \in Jobs :
    /\ j # k /\ jobs[j] # None /\ jobs[k] # None
    /\ jobs[j].item = jobs[k].item
    => jobs[j].id # jobs[k].id

\* While an update is between its steps, a marker says what it writes and what
\* it deletes, so that a crash at any moment leaves recovery the facts.
SwapIsMarked ==
  \A j \in Jobs : jobs[j] # None =>
    \E m \in markers :
      /\ m.item = jobs[j].item /\ m.id = jobs[j].id /\ m.ver = jobs[j].ver
      /\ jobs[j].copy \subseteq PathsIn(m.item, m.ver)
      /\ jobs[j].stale \subseteq m.old

\* Together: every swap under way is alone on its row and known to recovery.
SwapsAreGuarded == OneSwapPerRow /\ SwapIsMarked

\* The file rows of an installed item are exactly the manifest of the version
\* its row names, with the hashes of that version: no interleaving, failure or
\* recovery leaves the catalogue with a mixture of two versions.
RecordsAreOneVersion ==
  \A i \in Installed :
    /\ FilesOf(i) = PathsIn(i, row[i].ver)
    /\ \A p \in FilesOf(i) : files[p].hash = Archive[i][row[i].ver][p]

\* The rows implement the catalogue that changes by whole operations only.
Entry(i) == IF row[i] = None THEN None
            ELSE [ver |-> row[i].ver, disabled |-> row[i].disabled]

Catalogue == INSTANCE ModCatalogue WITH
  entry <- [i \in Items |-> Entry(i)],
  Manifest <- [i \in Items |-> [v \in Versions |-> PathsIn(i, v)]]

\* Installing, updating (locked or asynchronous), removing, toggling and
\* recovering items, with every crash and failure, is a behaviour of ModCatalogue.
ImplementsCatalogue == Catalogue!Spec

\* Every file row belongs to an installed item and every addon to an installed
\* mod: removal takes along whatever hangs on the row.
NothingDangles ==
  /\ \A p \in Paths : files[p] # None => files[p].item \in Installed
  /\ \A a \in Addons \cap Installed : ParentOf[a] \in Installed

\* Together: the rows are those of whole items of one version each.
RowsAreWhole == RecordsAreOneVersion /\ NothingDangles

\* No update of the item is unfinished, and the process is serving.
Settled(i) ==
  /\ status = "up"
  /\ i \in Installed
  /\ ~Updating(i)
  /\ MarkersOf(i) = {}

\* Where the code looks for the files of an item (resolve_mod_root): each file
\* of a settled item exists below the root its disabled flag names.
FilesAtResolvedRoot ==
  \A p \in Paths :
    files[p] # None /\ Settled(files[p].item) =>
      disk[RootOf(row[files[p].item].disabled)][p] # None

\* With every item settled the disk holds the recorded contents at the right
\* root and nothing else.
DiskIsCatalogue ==
  (\A i \in Installed : Settled(i)) /\ status = "up" =>
    \A p \in Paths, r \in Roots :
      disk[r][p] = IF files[p] # None /\ RootOf(row[files[p].item].disabled) = r
                   THEN files[p].hash
                   ELSE None

\* The catalogue names a new version only when every file of it is on disk,
\* below the root the item then has.
ClaimedIsOnDisk ==
  [][\A i \in Installed :
       row'[i] # None /\ row'[i].id = row[i].id /\ row'[i].ver # row[i].ver =>
         \A p \in PathsIn(i, row'[i].ver) :
           disk'[RootOf(row'[i].disabled)][p] = Archive[i][row'[i].ver][p]]_vars

\* An operation on the item itself that stops halfway; a mod takes its addons along.
OwnHalts(i) ==
  \/ \E v \in Versions : UpdateHalts(i, v)
  \/ DisableHalts(i)
  \/ \E k \in Items : i \in {k} \cup AddonsOf(k) /\ RemoveHalts(k)

\* Disabling, enabling, updating or removing one item, and the recovery of its
\* update, never takes away or changes a live file of another enabled item, even
\* where the two share a directory.  (An item's own update writes its own content.)
NeighboursUntouched ==
  [][\A p \in Paths :
       LET i == files[p].item IN
       /\ files[p] # None /\ Settled(i) /\ Enabled(i)
       /\ row'[i] = row[i]
       => \/ disk'["live"][p] = disk["live"][p]
          \/ \E v \in Versions : p \in PathsIn(i, v) /\ disk'["live"][p] = Archive[i][v][p]
          \/ OwnHalts(i)]_vars
=============================================================================
