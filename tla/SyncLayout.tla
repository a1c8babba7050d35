----------------------------- MODULE SyncLayout -----------------------------
(***************************************************************************)
(* The sync groups of NarcoNet on disk (src/src/modsync.rs): the folder of *)
(* a plugin lies in BepInEx/plugins or, when its mod is in a group, in the *)
(* directory quma-<group> below it, and config.yaml says which of these    *)
(* directories the clients load.  Folders move when mods are installed,    *)
(* updated or enabled, when groups are saved, and at the start; the rows   *)
(* of the files in them are re-prefixed afterwards, item by item.  Every   *)
(* item, a Forge mod or an addon of one, has one file in one folder;       *)
(* several items may share a folder.  What an operation on a mod does      *)
(* beside is the matter of ModStore.                                       *)
(***************************************************************************)
EXTENDS Naturals, Sequences

CONSTANTS
  ModOrder,     \* the mods, in the order in which they are listed
  Extras,       \* addons
  ParentMod,    \* addon -> its mod
  Folders,      \* names of plugin folders
  FolderMaps,   \* item -> its folder: the arrangements looked at
  Groups,       \* group slugs
  Ungrouped,    \* no group; the place outside of all groups
  Regens,       \* requests that regenerate
  Nowhere       \* no row, no file, no request

Plugins == {ModOrder[n] : n \in DOMAIN ModOrder}
Parts == Plugins \cup Extras
Places == Groups \cup {Ungrouped}

VARIABLES
  folderOf,  \* item -> its folder
  slot,      \* item -> [place, disabled]: its row and the path of its file row
  fileAt,    \* item -> [stashed, place]: where the file lies
  member,    \* mod -> its group, in the configuration in memory
  stripped,  \* mods removed since, whose membership the file has lost already
  served,    \* what config.yaml lets the clients load
  regen,     \* request -> the groups it has read, or Nowhere
  mislaid    \* items whose row a move has parted from its file

layoutVars == <<folderOf, slot, fileAt, member, stripped, served, regen, mislaid>>

Slot == [place : Places, disabled : BOOLEAN]
Spot == [place : Places, stashed : BOOLEAN]
ModOf(i) == IF i \in Plugins THEN i ELSE ParentMod[i]
Present(s) == {i \in Parts : s[i] # Nowhere}

ASSUME LayoutAssumption ==
  /\ ModOrder \in Seq(Plugins)
  /\ ParentMod \in [Extras -> Plugins] /\ Plugins \cap Extras = {}
  /\ Ungrouped \notin Groups
  /\ FolderMaps \subseteq [Parts -> Folders]
  /\ Nowhere \notin Slot \cup Spot \cup [Plugins -> Places]

LayoutInit ==
  /\ folderOf \in FolderMaps
  /\ slot = [i \in Parts |-> Nowhere] /\ fileAt = [i \in Parts |-> Nowhere]
  /\ member = [m \in Plugins |-> Ungrouped] /\ stripped = {}
  /\ served = {} /\ mislaid = {}
  /\ regen = [h \in Regens |-> Nowhere]

------------------------------------------------------------------------------
(* ensure_mod_layout, as a function of the rows and files                  *)

Layout == [slot |-> slot, file |-> fileAt, mislaid |-> mislaid]

\* Items whose file rows name the folder of mod m, and the live files in it.
RowsIn(L, m) == {i \in Present(L.slot) :
  folderOf[i] = folderOf[m] /\ L.slot[i].place = L.slot[m].place}
Inside(L, m) == {i \in Present(L.file) :
  /\ folderOf[i] = folderOf[m]
  /\ L.file[i] = [place |-> L.slot[m].place, stashed |-> FALSE]}

\* Other mods that share the folder must go to the same group.
Sharers(L, m) == RowsIn(L, m) \cap Plugins
Moves(L, group, m) ==
  /\ L.slot[m] # Nowhere /\ ~L.slot[m].disabled
  /\ L.slot[m].place # group[m]
  /\ Inside(L, m) # {}
  /\ \A o \in Sharers(L, m) : group[o] = group[m]

\* The rows of the mods that share it, and of their addons, get the new prefix.
OnlyOwn(L, m) == {i \in RowsIn(L, m) : ModOf(i) = m}  \* mutant
Reprefixed(L, m) == {i \in RowsIn(L, m) : ModOf(i) \in Sharers(L, m)}

\* Rows of disabled items are re-prefixed though their files stay in the stash, and
\* a file whose mod has no file of its own in the folder moves without its row.
Parted(L, m) ==
  LET withSharers == {i \in RowsIn(L, m) : ModOf(i) \in Sharers(L, m)} IN
  {i \in withSharers : L.slot[i].disabled} \cup (Inside(L, m) \ withSharers)

MoveFiles(L, group, m) ==
  LET moved == Inside(L, m) IN
  [i \in Parts |-> IF i \in moved THEN [place |-> group[m], stashed |-> FALSE] ELSE L.file[i]]
Laid(L, group, m) ==
  LET rows == Reprefixed(L, m) IN
  IF ~Moves(L, group, m) THEN L
  ELSE [slot |-> [i \in Parts |->
          IF i \in rows THEN [L.slot[i] EXCEPT !.place = group[m]] ELSE L.slot[i]],
        file |-> MoveFiles(L, group, m),
        mislaid |-> L.mislaid \cup Parted(L, m)]

\* ensure_all_mod_layouts
AllLaid(L, group) ==
  LET upTo[n \in 0..Len(ModOrder)] ==
        IF n = 0 THEN L ELSE Laid(upTo[n - 1], group, ModOrder[n])
  IN upTo[Len(ModOrder)]

Becomes(L) == slot' = L.slot /\ fileAt' = L.file /\ mislaid' = L.mislaid

\* generate_config: a path per group with an enabled plugin, and the directory of
\* all plugins once there is any; the groups' directories are excluded from it.
GroupsOf(s, group) == {group[ModOf(i)] :
  i \in {j \in Present(s) : ~s[j].disabled /\ ~s[ModOf(j)].disabled}}
SyncPaths(s, group) ==
  LET paths == GroupsOf(s, group) IN paths \cup (IF paths = {} THEN {} ELSE {Ungrouped})
Generated(s, group) == served' = SyncPaths(s, group)

------------------------------------------------------------------------------
(* Operations on mods                                                      *)

\* New files go to the plain place; config.yaml is written, then a mod is laid out,
\* an addon is not.
PutAt(i, disabled) ==
  [slot |-> [slot EXCEPT ![i] = [place |-> Ungrouped, disabled |-> disabled]],
   file |-> [fileAt EXCEPT ![i] = [place |-> Ungrouped, stashed |-> disabled]],
   mislaid |-> mislaid \ {i}]

InstallItem(i) ==
  /\ slot[i] = Nowhere /\ (i \in Extras => slot[ModOf(i)] # Nowhere)
  /\ LET L == PutAt(i, FALSE) IN
       /\ Becomes(IF i \in Plugins THEN Laid(L, member, i) ELSE L)
       /\ Generated(L.slot, member)
  /\ UNCHANGED <<folderOf, member, stripped, regen>>

\* The asynchronous update of the dashboard leaves the layout to regenerate_modsync.
UpdateItem(i, async) ==
  /\ slot[i] # Nowhere
  /\ LET L == PutAt(i, slot[i].disabled) IN
       /\ Becomes(IF i \in Plugins /\ ~async THEN Laid(L, member, i) ELSE L)
       /\ IF async THEN UNCHANGED served ELSE Generated(L.slot, member)
  /\ UNCHANGED <<folderOf, member, stripped, regen>>

\* A file that is where its row says goes with the row.
AtRow(i) == slot[i] # Nowhere /\ fileAt[i] = [place |-> slot[i].place, stashed |-> slot[i].disabled]
UninstallItem(i) ==
  LET S == {j \in Parts : j = i \/ (i \in Plugins /\ ModOf(j) = i)}
      s == [j \in Parts |-> IF j \in S THEN Nowhere ELSE slot[j]]
  IN /\ slot[i] # Nowhere
     /\ slot' = s
     /\ fileAt' = [j \in Parts |-> IF j \in S /\ AtRow(j) THEN Nowhere ELSE fileAt[j]]
     /\ mislaid' = mislaid \ S
     /\ stripped' = stripped \cup {m \in S \cap Plugins : member[m] # Ungrouped}
     /\ Generated(s, member)
     /\ UNCHANGED <<folderOf, member, regen>>

ToggleItem(i) ==
  /\ slot[i] # Nowhere
  /\ LET L == [slot |-> [slot EXCEPT ![i].disabled = ~@],
               file |-> IF AtRow(i) THEN [fileAt EXCEPT ![i].stashed = ~@] ELSE fileAt,
               mislaid |-> mislaid]
     IN Becomes(IF i \in Plugins /\ slot[i].disabled THEN Laid(L, member, i) ELSE L)
  /\ UNCHANGED <<folderOf, member, stripped, served, regen>>

------------------------------------------------------------------------------
(* Groups                                                                  *)

\* validate_shared_directories: mods with a folder in common are in one group.
TogetherIn(group) ==
  \A m, o \in Present(slot) \cap Plugins : folderOf[m] = folderOf[o] => group[m] = group[o]

\* save_groups keeps installed mods only.
SaveGroups(group) ==
  /\ group # member /\ TogetherIn(group)
  /\ \A m \in Plugins : slot[m] = Nowhere => group[m] = Ungrouped
  /\ member' = group /\ stripped' = {}
  /\ UNCHANGED <<folderOf, slot, fileAt, served, regen, mislaid>>

\* Any other settings form reads the file into memory.
ReloadGroups ==
  /\ stripped # {}
  /\ member' = [m \in Plugins |-> IF m \in stripped THEN Ungrouped ELSE member[m]]
  /\ stripped' = {}
  /\ UNCHANGED <<folderOf, slot, fileAt, served, regen, mislaid>>

\* regenerate_modsync reads the groups, waits for the database, lays out all mods
\* and writes config.yaml from the groups of that time.
RegenAsks(h) ==
  /\ regen[h] = Nowhere
  /\ regen' = [regen EXCEPT ![h] = member]
  /\ UNCHANGED <<folderOf, slot, fileAt, member, stripped, served, mislaid>>
RegenRuns(h) ==
  /\ regen[h] # Nowhere
  /\ LET L == AllLaid(Layout, regen[h]) IN Becomes(L) /\ Generated(L.slot, member)
  /\ regen' = [regen EXCEPT ![h] = Nowhere]
  /\ UNCHANGED <<folderOf, member, stripped>>

\* The process dies after a folder was renamed and before its rows were.
MoveCrash(m) ==
  /\ Moves(Layout, member, m)
  /\ fileAt' = MoveFiles(Layout, member, m)
  /\ mislaid' = mislaid \cup Inside(Layout, m)
  /\ regen' = [h \in Regens |-> Nowhere]
  /\ UNCHANGED <<folderOf, slot, member, stripped, served>>

\* Start-up: config.yaml first, then the layout.
LayoutRestart ==
  LET group == [m \in Plugins |-> IF m \in stripped THEN Ungrouped ELSE member[m]] IN
  /\ member' = group /\ stripped' = {}
  /\ Generated(slot, group)
  /\ Becomes(AllLaid(Layout, group))
  /\ regen' = [h \in Regens |-> Nowhere]
  /\ UNCHANGED folderOf

LayoutNext ==
  \/ \E i \in Parts :
       \/ InstallItem(i) \/ UninstallItem(i) \/ ToggleItem(i)
       \/ \E async \in BOOLEAN : UpdateItem(i, async)
  \/ \E group \in [Plugins -> Places] : SaveGroups(group)
  \/ ReloadGroups
  \/ \E h \in Regens : RegenAsks(h) \/ RegenRuns(h)
  \/ \E m \in Plugins : MoveCrash(m)
  \/ LayoutRestart

LayoutSpec == LayoutInit /\ [][LayoutNext]_layoutVars

------------------------------------------------------------------------------
LayoutTypeOK ==
  /\ folderOf \in [Parts -> Folders]
  /\ slot \in [Parts -> Slot \cup {Nowhere}] /\ fileAt \in [Parts -> Spot \cup {Nowhere}]
  /\ member \in [Plugins -> Places] /\ stripped \subseteq Plugins
  /\ served \subseteq Places /\ mislaid \subseteq Parts
  /\ regen \in [Regens -> [Plugins -> Places] \cup {Nowhere}]

\* "Moves files and updates DB paths": the file of every item lies where its row
\* says, whichever folders moved for which mods, unless the item was disabled when
\* its folder moved, was alone of its mod in it, or a crash came between.
RowsFollowFolders ==
  \A i \in Present(slot) \ mislaid : AtRow(i)

\* Mods of two groups share a folder: it cannot be in both.
Torn(s, group, m) == \E o \in Present(s) \cap Plugins :
  folderOf[o] = folderOf[m] /\ s[o].place = s[m].place /\ group[o] # group[m]

\* After a regeneration with the current groups, the clients load every enabled
\* plugin: its folder is in a directory that config.yaml names.  (The addon of a mod
\* that was updated away from the addon's folder may stay behind in a directory that
\* no group has any more: the moves follow the mod's files only.)
WithMod(i) == slot[i].place \in {Ungrouped, slot[ModOf(i)].place}
EnabledIsServed ==
  \A h \in Regens : regen[h] = member /\ regen'[h] = Nowhere /\ RegenRuns(h) =>
    \A i \in Present(slot) \ mislaid' :
      ~slot[i].disabled /\ ~slot[ModOf(i)].disabled /\ WithMod(i)
        /\ ~Torn(slot', member, ModOf(i)) => slot'[i].place \in served'

\* Both, of every step (at the start nothing is installed): the rows follow the files
\* from one directory to another, and the clients get what is enabled.
LayoutServes == [][RowsFollowFolders' /\ EnabledIsServed]_layoutVars
=============================================================================
