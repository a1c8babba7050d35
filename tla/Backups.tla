------------------------------ MODULE Backups ------------------------------
(***************************************************************************)
(* Backups of mods and of everything, their retention, and restoring them  *)
(* (src/src/backup.rs, src/src/db/backups.rs), with the mod operations     *)
(* that call auto_backup_mod first (src/src/ops.rs), each as a whole: what *)
(* happens inside of them is the matter of ModStore.  All of it runs under *)
(* the database lock, but a backup is a directory and then a row, a pruned *)
(* one loses the directory and then the row, and a restore changes files   *)
(* while only its rows are in a transaction.  Every item, a Forge mod or   *)
(* an addon of one, has one file, named like the item.                     *)
(***************************************************************************)
EXTENDS Naturals, FiniteSets

CONSTANTS
  Mods, Addons,
  ParentOf,     \* addon -> its mod
  MaxVersion,   \* bound on versions
  MaxDirs,      \* bound on the backup directories ever made
  MaxBackups,   \* max_backups of the configuration
  Nothing          \* no row, no owner, no directory

VARIABLES
  row,      \* item -> [version, disabled], or Nothing
  owner,    \* path -> the item that the file rows give it to, or Nothing
  live,     \* path -> version of the file in the game's directories, or 0
  stash,    \* path -> version of the file among the disabled ones, or 0
  records,  \* the rows of backups
  dirs,     \* directory -> what was copied into it, or Nothing
  lastDir,  \* directories are numbered in the order of time
  require,  \* require_backup: a failed backup blocks the change
  spoilt    \* a restore ended halfway

backupVars == <<row, owner, live, stash, records, dirs, lastDir, require, spoilt>>

Items == Mods \cup Addons
Vers == 1..MaxVersion
DirIds == 1..MaxDirs
ItemRow == [version : Vers, disabled : BOOLEAN]
Copy == [Items -> 0..MaxVersion]
Content == [copy : Copy, manifest : Copy]
Record == [dir : DirIds, kind : {"mod", "full"}, mod : Mods \cup {Nothing}, version : 0..MaxVersion]

ASSUME BackupsAssumption ==
  /\ Mods \cap Addons = {} /\ ParentOf \in [Addons -> Mods]
  /\ MaxVersion \in Nat /\ MaxDirs \in Nat
  /\ MaxBackups \in Nat \ {0}
  /\ Nothing \notin Items \cup ItemRow \cup Content

BackupsInit ==
  /\ row = [i \in Items |-> Nothing] /\ owner = [p \in Items |-> Nothing]
  /\ live = [p \in Items |-> 0] /\ stash = [p \in Items |-> 0]
  /\ records = {} /\ dirs = [d \in DirIds |-> Nothing] /\ lastDir = 0
  /\ require = FALSE /\ spoilt = FALSE

Family(m) == {m} \cup {a \in Addons : ParentOf[a] = m}
FamilyOf(i) == IF i \in Mods THEN i ELSE ParentOf[i]
PathsOf(S) == {p \in Items : owner[p] \in S}
Installed(S) == {i \in S : row[i] # Nothing}

\* resolve_mod_root: where the file of a path lies.
FileAt(p) ==
  IF owner[p] # Nothing /\ row[owner[p]].disabled THEN stash[p] ELSE live[p]

------------------------------------------------------------------------------
(* Backups                                                                 *)

\* copy_files_to_backup, copy_files_for_manifest: what exists is copied.
CopyOf(S) == [p \in Items |-> IF owner[p] \in S THEN FileAt(p) ELSE 0]
ManifestOf(S) == [i \in Items |-> IF i \in Installed(S) THEN row[i].version ELSE 0]
Dir(S) == [copy |-> CopyOf(S), manifest |-> ManifestOf(S)]

SameKind(r, s) == r.kind = s.kind /\ r.mod = s.mod
Newer(rs, r) == {s \in rs : SameKind(r, s) /\ s.dir > r.dir}

\* enforce_retention: the oldest go while there are more than max_backups.
KeepFewer(rs) == {r \in rs : Cardinality(Newer(rs, r)) + 1 < MaxBackups}  \* mutant: >=
Retained(rs) == {r \in rs : Cardinality(Newer(rs, r)) < MaxBackups}

\* A new directory with its row, then the retention, the oldest first; the process
\* may die when the directory of one is gone and its row is not.
NewRecord(kind, m) == [dir |-> lastDir + 1, kind |-> kind, mod |-> m,
                       version |-> IF m = Nothing THEN 0 ELSE row[m].version]
WithNew(kind, m) == records \cup {NewRecord(kind, m)}
Pruned(all, gone, hollow) ==
  /\ lastDir < MaxDirs
  /\ lastDir' = lastDir + 1
  /\ records' = (all \ gone) \cup hollow
  /\ LET new == CHOOSE r \in all : r.dir = lastDir + 1
     IN dirs' = [d \in DirIds |->
          IF d \in {r.dir : r \in gone} THEN Nothing
          ELSE IF d = lastDir + 1 THEN Dir(IF new.mod = Nothing THEN Items ELSE Family(new.mod))
          ELSE dirs[d]]
Take(kind, m) ==
  LET all == WithNew(kind, m) IN Pruned(all, all \ Retained(all), {})
TakeDies(kind, m) ==
  LET all == WithNew(kind, m) IN
  \E last \in all \ Retained(all) :
    Pruned(all, {r \in all \ Retained(all) : r.dir <= last.dir}, {last})

\* The copy or the insertion fails: a directory stays behind that no row names and
\* that nothing reads again; what is in it does not matter.
TakeFails ==
  /\ lastDir < MaxDirs
  /\ lastDir' = lastDir + 1
  /\ UNCHANGED <<records, dirs>>

BackupMod(m) ==
  /\ row[m] # Nothing
  /\ Take("mod", m) \/ TakeDies("mod", m) \/ TakeFails
  /\ UNCHANGED <<row, owner, live, stash, require, spoilt>>

BackupFull ==
  /\ Take("full", Nothing) \/ TakeDies("full", Nothing)
  /\ UNCHANGED <<row, owner, live, stash, require, spoilt>>

\* The CHECK of backups.trigger knows the operations on mods, not those on addons.
Triggers == {"auto_update", "auto_remove", "auto_disable", "auto_enable", "manual"}

\* auto_backup_mod, with auto_backup on.
MayGoOn == ~require
BackedUp(i, trigger) ==
  \/ trigger \in Triggers /\ Take("mod", FamilyOf(i))
  \/ TakeFails /\ MayGoOn
Blocked(i) ==
  /\ row[i] # Nothing /\ require
  /\ TakeFails
  /\ UNCHANGED <<row, owner, live, stash, require, spoilt>>

------------------------------------------------------------------------------
(* Operations on mods and addons, as far as backups see them               *)

\* A file row for a path that another item owns is refused, and with it the change.
Install(i, v) ==
  /\ row[i] = Nothing /\ owner[i] = Nothing
  /\ i \in Addons => row[ParentOf[i]] # Nothing
  /\ row' = [row EXCEPT ![i] = [version |-> v, disabled |-> FALSE]]
  /\ owner' = [owner EXCEPT ![i] = i]
  /\ live' = [live EXCEPT ![i] = v]
  /\ UNCHANGED <<stash, records, dirs, lastDir, require, spoilt>>

\* The files of an update replace all that the item had, where it had them.
Without(f, S) == [p \in Items |-> IF p \in S THEN 0 ELSE f[p]]
Update(i, v) ==
  /\ row[i] # Nothing /\ row[i].version # v /\ owner[i] \in {i, Nothing}
  /\ BackedUp(i, IF i \in Mods THEN "auto_update" ELSE "auto_update_addon")
  /\ row' = [row EXCEPT ![i].version = v]
  /\ owner' = [p \in Items |-> IF p = i THEN i ELSE IF owner[p] = i THEN Nothing ELSE owner[p]]
  /\ IF row[i].disabled
     THEN stash' = [Without(stash, PathsOf({i})) EXCEPT ![i] = v] /\ UNCHANGED live
     ELSE live' = [Without(live, PathsOf({i})) EXCEPT ![i] = v] /\ UNCHANGED stash
  /\ UNCHANGED <<require, spoilt>>

\* Addons go with their mod, each from where it lies.
PathsIn(S, disabled) == {p \in PathsOf(S) : row[owner[p]].disabled = disabled}
Gone(S) ==
  /\ row' = [i \in Items |-> IF i \in S THEN Nothing ELSE row[i]]
  /\ owner' = [p \in Items |-> IF owner[p] \in S THEN Nothing ELSE owner[p]]
RemoveItem(i) ==
  LET S == IF i \in Mods THEN Family(i) ELSE {i} IN
  /\ row[i] # Nothing
  /\ BackedUp(i, IF i \in Mods THEN "auto_remove" ELSE "auto_remove_addon")
  /\ Gone(S)
  /\ live' = Without(live, PathsIn(S, FALSE))
  /\ stash' = Without(stash, PathsIn(S, TRUE))
  /\ UNCHANGED <<require, spoilt>>

Toggle(i) ==
  LET S == PathsOf({i}) IN
  /\ row[i] # Nothing
  /\ BackedUp(i, IF i \in Addons THEN "auto_toggle_addon"  \* two names, neither known
                 ELSE IF row[i].disabled THEN "auto_enable" ELSE "auto_disable")
  /\ row' = [row EXCEPT ![i].disabled = ~@]
  /\ IF row[i].disabled
     THEN /\ live' = [p \in Items |-> IF p \in S THEN stash[p] ELSE live[p]]
          /\ stash' = Without(stash, S)
     ELSE /\ stash' = [p \in Items |-> IF p \in S THEN live[p] ELSE stash[p]]
          /\ live' = Without(live, S)
  /\ UNCHANGED <<owner, require, spoilt>>

------------------------------------------------------------------------------
(* Restoring, with the game server stopped                                 *)

Whole(r) == dirs[r.dir] # Nothing
Copied(r) == {p \in Items : dirs[r.dir].copy[p] # 0}
Over(f, r) == [p \in Items |-> IF p \in Copied(r) THEN dirs[r.dir].copy[p] ELSE f[p]]

\* copy_backup_tree_and_record gives every file of the directory to the mod, those of
\* its addons too; a path that another item owns is refused.
Refused(r) == {p \in Copied(r) : owner[p] \notin {Nothing, r.mod}}

StayDisabled(m) == IF row[m] = Nothing THEN FALSE ELSE row[m].disabled  \* mutant
Enabled(m) == FALSE

\* What the restored mod had before is deleted where it lies.
DeletedOf(m) == IF row[m] = Nothing THEN {} ELSE PathsOf({m})
RestoreMod(r) ==
  LET m == r.mod
      old == DeletedOf(m)
      inStash == row[m] # Nothing /\ row[m].disabled
  IN /\ r.kind = "mod" /\ Whole(r) /\ Refused(r) = {}
     /\ row' = [row EXCEPT ![m] = [version |-> r.version, disabled |-> Enabled(m)]]
     /\ owner' = [p \in Items |-> IF p \in Copied(r) THEN m
                                  ELSE IF owner[p] = m THEN Nothing ELSE owner[p]]
     /\ stash' = IF inStash THEN Without(stash, old) ELSE stash
     /\ live' = Over(IF inStash THEN live ELSE Without(live, old), r)
     /\ UNCHANGED <<records, dirs, lastDir, require, spoilt>>

\* A row is refused, a copy fails, or the process dies: the rows are as before, the
\* files of the mod are gone and some of the backup's are there.
RestoreStops(r) ==
  LET m == r.mod
      inStash == row[m] # Nothing /\ row[m].disabled
  IN /\ r.kind = "mod" /\ Whole(r)
     /\ \E done \in SUBSET Copied(r) :
          live' = [p \in Items |-> IF p \in done THEN dirs[r.dir].copy[p]
                     ELSE IF ~inStash /\ p \in DeletedOf(m) THEN 0 ELSE live[p]]
     /\ stash' = IF inStash THEN Without(stash, DeletedOf(m)) ELSE stash
     /\ spoilt' = TRUE
     /\ UNCHANGED <<row, owner, records, dirs, lastDir, require>>

\* restore_full_backup: the files and rows of all mods go (an addon's row goes with
\* its mod's, its files stay), and the manifest's items come back, enabled.
Back(r) == {i \in Items : dirs[r.dir].manifest[i] # 0}
RestoreFull(r) ==
  /\ r.kind = "full" /\ Whole(r)
  /\ row' = [i \in Items |-> IF i \in Back(r)
       THEN [version |-> dirs[r.dir].manifest[i], disabled |-> FALSE] ELSE Nothing]
  /\ owner' = [p \in Items |-> IF p \in Copied(r) THEN
       IF p \in Back(r) THEN p ELSE FamilyOf(p) ELSE Nothing]
  /\ stash' = Without(stash, PathsIn(Mods, TRUE))
  /\ live' = Over(Without(live, PathsIn(Mods, FALSE)), r)
  /\ UNCHANGED <<records, dirs, lastDir, require, spoilt>>

SetRequire ==
  /\ require' = ~require
  /\ UNCHANGED <<row, owner, live, stash, records, dirs, lastDir, spoilt>>

BackupsNext ==
  \/ SetRequire
  \/ \E m \in Mods : BackupMod(m)
  \/ BackupFull
  \/ \E i \in Items : RemoveItem(i) \/ Toggle(i) \/ Blocked(i)
  \/ \E i \in Items, v \in Vers : Install(i, v) \/ Update(i, v)
  \/ \E r \in records : RestoreMod(r) \/ RestoreStops(r) \/ RestoreFull(r)

BackupsSpec == BackupsInit /\ [][BackupsNext]_backupVars

------------------------------------------------------------------------------
BackupsTypeOK ==
  /\ row \in [Items -> ItemRow \cup {Nothing}]
  /\ owner \in [Items -> Items \cup {Nothing}]
  /\ live \in Copy /\ stash \in Copy
  /\ records \subseteq Record
  /\ dirs \in [DirIds -> Content \cup {Nothing}]
  /\ lastDir \in 0..MaxDirs /\ {require, spoilt} \subseteq BOOLEAN

\* With require_backup on, what an update, a toggle or a removal of a mod does away
\* with is in a backup when it is done, and no retention took that backup again.
ChangesAreBackedUp ==
  [][\A m \in Mods :
       (require /\ row[m] # Nothing /\ row'[m] # row[m] /\ lastDir' # lastDir) =>
         \E r \in records' : r.mod = m /\ r.version = row[m].version
                             /\ dirs'[r.dir] = Dir(Family(m))]_backupVars
\* (A restore makes no backup, and is no such change.)

\* Whatever is installed, toggled, restored in whatever order: the file of an item is
\* of the version its row says, at the place its row says, unless a restore stopped.
RowsMatchFiles ==
  ~spoilt => \A i \in Items : owner[i] = i =>
    row[i] # Nothing /\ FileAt(i) = row[i].version

\* "copies the backup files back into the SPT directory, re-records them in the
\* database": a backup that is listed and whole can be restored.
BackupIsRestorable ==
  \A r \in records : r.kind = "mod" /\ Whole(r) => Refused(r) = {}
=============================================================================
