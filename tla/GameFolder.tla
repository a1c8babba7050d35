----------------------------- MODULE GameFolder -----------------------------
(***************************************************************************)
(* What lies in the game's directory and what the catalogue says of it:    *)
(* where an archive is extracted to (src/src/spt/mods.rs), the core mods   *)
(* that the container image installs and quma adopts at its start          *)
(* (src/src/adopt.rs), and the reindexing of mods whose file rows are      *)
(* missing (src/src/cli/reindex.rs).  Installs, updates and removals are   *)
(* whole here: their steps are the matter of ModStore.  A path is a        *)
(* sequence of its components.                                             *)
(***************************************************************************)
EXTENDS Naturals, Sequences, FiniteSets, SequencesExt

CONSTANTS
  FolderMods,   \* mods that are installed from archives
  ArchivesOf,    \* mod or component -> its archives: sets of [path, dir]
  Spelling,     \* odd spelling of a component -> the canonical one
  CoreMods,     \* the core mods, in the order of CORE_MODS
  CorePaths,    \* core mod -> paths it owns, with all below them
  CoreExclude,  \* core mod -> files among those that are another's
  CoreFiles,    \* core mod -> the files the image installs
  OnGithub,     \* core mods that need a version to be adopted
  GameFiles,    \* files the game writes
  NoMod         \* nobody; no archive

VARIABLES
  folder,    \* path -> who put the file there, or NoMod
  fileOf,    \* path -> the mod of its row in installed_files, or NoMod
  from,      \* mod -> the archive it was installed or updated from, {} if adopted, or NoMod
  boot       \* [todo, tracked, versions]: the core mods adoption has still to look at, the
             \* paths known when it began, and the versions the environment names

folderVars == <<folder, fileOf, from, boot>>

CoreSet == {CoreMods[i] : i \in DOMAIN CoreMods}
Owners == FolderMods \cup CoreSet

\* Core mods do not come from the Forge; nobody has the name of a mark; an archive
\* is a set of entries and not empty.
ASSUME FolderAssumption ==
  /\ FolderMods \cap CoreSet = {}
  /\ {NoMod, "game", "left"} \cap Owners = {}
  /\ NoMod \notin {"game", "left", {}}
  /\ \A m \in Owners : ArchivesOf[m] \cap {NoMod, {}} = {}
  /\ CoreMods \in Seq(CoreSet)

------------------------------------------------------------------------------
(* Archives                                                                *)

ServerPrefix == <<"SPT", "user", "mods">>
ClientPrefix == <<"BepInEx", "plugins">>
Under(p, prefixes) == \E q \in prefixes : IsPrefix(q, p)
Known(p) == Under(p, {ServerPrefix, ClientPrefix})

\* A known prefix is written the canonical way, from the start of the name only.
CanonicalName(c) == IF c \in DOMAIN Spelling THEN Spelling[c] ELSE c
NormalizePath(e) ==
  LET fits(k) == /\ Len(e.path) > Len(k) \/ (e.dir /\ Len(e.path) = Len(k))
                 /\ \A i \in DOMAIN k : CanonicalName(e.path[i]) = k[i]
      known == {k \in {ServerPrefix, ClientPrefix} : fits(k)}
  IN [e EXCEPT !.path = [i \in DOMAIN @ |-> IF \E k \in known : i <= Len(k) THEN CanonicalName(@[i]) ELSE @[i]]]
ListEntries(a) == {NormalizePath(e) : e \in a}

\* One directory around everything is stripped, unless it is that of the game.
DetectStripPrefix(entries) ==
  LET tops == {e.path[1] : e \in entries} IN
  IF \/ \E e \in entries : Len(e.path) = 1 /\ ~e.dir
     \/ tops \cap {"SPT", "BepInEx"} # {} \/ Cardinality(tops) # 1
  THEN 0 ELSE 1

Stripped(a, e) == SubSeq(e.path, DetectStripPrefix(ListEntries(a)) + 1, Len(e.path))
ExtractMod(a) == {Stripped(a, e) : e \in {f \in ListEntries(a) : ~f.dir}}

FilesIn == [a \in UNION {ArchivesOf[m] : m \in Owners} |-> ExtractMod(a)]

\* Two names of one file: the second row is refused.
NamesCollide(a) == Cardinality({e \in a : ~e.dir}) # Cardinality(FilesIn[a])

\* What reindexing looks for: the files of the archive in the known directories.
ReindexEntries(a) == {p \in FilesIn[a] : Known(p)}

AllFiles == (UNION {FilesIn[a] : a \in DOMAIN FilesIn})
            \cup (UNION {CoreFiles[c] : c \in CoreSet}) \cup GameFiles
OnFolder == {p \in AllFiles : folder[p] # NoMod}
RowsOf(m) == {p \in AllFiles : fileOf[p] = m}

------------------------------------------------------------------------------
Booted == [todo |-> <<>>, tracked |-> {}, versions |-> {}]

\* A mod may have been installed when files were not recorded yet.
FolderInit ==
  /\ from \in [Owners -> {NoMod} \cup UNION {ArchivesOf[m] : m \in FolderMods}]
  /\ \A m \in Owners : from[m] = NoMod \/ (m \in FolderMods /\ from[m] \in ArchivesOf[m] /\ ~NamesCollide(from[m]))
  /\ folder = [p \in AllFiles |->
       IF \E m \in FolderMods : from[m] # NoMod /\ p \in FilesIn[from[m]]
       THEN CHOOSE m \in FolderMods : from[m] # NoMod /\ p \in FilesIn[from[m]] ELSE NoMod]
  /\ fileOf = [p \in AllFiles |-> NoMod]
  /\ boot = Booted

PutFiles(f, m, paths) == [p \in AllFiles |-> IF p \in paths THEN m ELSE f[p]]

\* Extracting fails as a whole for collisions, and where another has a row.
FilesFit(m, a) ==
  /\ a \in ArchivesOf[m] /\ ~NamesCollide(a)
  /\ \A p \in FilesIn[a] : fileOf[p] \in {NoMod, m}

InstallMod(m, a) ==
  /\ from[m] = NoMod /\ FilesFit(m, a)
  /\ folder' = PutFiles(folder, m, FilesIn[a]) /\ fileOf' = PutFiles(fileOf, m, FilesIn[a])
  /\ from' = [from EXCEPT ![m] = a]
  /\ UNCHANGED boot

\* What goes is what has a row: files without one stay, and are nobody's.
WithoutRows(m, paths) == PutFiles(PutFiles(folder, "left", {p \in AllFiles : folder[p] = m}), NoMod, paths)

UpdateItem(m, a) ==
  LET stale == RowsOf(m) \ FilesIn[a] IN
     /\ from[m] # NoMod /\ FilesFit(m, a)
     /\ folder' = PutFiles(WithoutRows(m, stale), m, FilesIn[a])
     /\ fileOf' = PutFiles(PutFiles(fileOf, NoMod, stale), m, FilesIn[a])
     /\ from' = [from EXCEPT ![m] = a]
     /\ UNCHANGED boot

TakeAway(m) ==
  /\ from[m] # NoMod /\ from' = [from EXCEPT ![m] = NoMod]
  /\ folder' = WithoutRows(m, RowsOf(m)) /\ fileOf' = PutFiles(fileOf, NoMod, RowsOf(m))
  /\ UNCHANGED boot

\* quma reindex, for a mod without rows: all of its files that are there, or none.
Reindex(m) ==
  LET found == ReindexEntries(from[m]) \cap OnFolder IN
  /\ from[m] \notin {NoMod, {}} /\ RowsOf(m) = {}
  /\ \A p \in found : fileOf[p] = NoMod
  /\ fileOf' = PutFiles(fileOf, m, found)
  /\ UNCHANGED <<folder, from, boot>>

------------------------------------------------------------------------------
(* The core mods                                                           *)

\* Unless quma manages them, the image installs the components of the stack.
StackStarts ==
  /\ \/ /\ \E installs \in SUBSET CoreSet :
             /\ \A c \in installs : \A p \in CoreFiles[c] : fileOf[p] \in {NoMod} \cup CoreSet
             /\ folder' = [p \in AllFiles |->
                  IF \E c \in installs : p \in CoreFiles[c]
                  THEN CHOOSE c \in installs : p \in CoreFiles[c] ELSE folder[p]]
        /\ boot' = Booted
     \/ /\ \E versions \in SUBSET OnGithub :
             boot' = [todo |-> CoreMods, tracked |-> {p \in AllFiles : fileOf[p] # NoMod},
                      versions |-> versions]
        /\ UNCHANGED folder
  /\ UNCHANGED <<fileOf, from>>

CollectAll(c) == {p \in OnFolder : Under(p, CorePaths[c])}  \* Mutant: with what is another's.
CollectFiles(c) == {p \in OnFolder : Under(p, CorePaths[c])} \ CoreExclude[c]

\* adopt_core_mods: one after the other; a mod of which anything is tracked is left
\* alone, and whatever fails is passed over.
AdoptNext ==
  LET c == Head(boot.todo)
      files == CollectFiles(c)
  IN /\ boot.todo # <<>>
     /\ boot' = IF Len(boot.todo) = 1 THEN Booted ELSE [boot EXCEPT !.todo = Tail(@)]
     /\ \/ /\ c \in OnGithub => c \in boot.versions
           /\ files # {} /\ files \cap boot.tracked = {}
           /\ from[c] = NoMod /\ \A p \in files : fileOf[p] = NoMod
           /\ from' = [from EXCEPT ![c] = {}] /\ fileOf' = PutFiles(fileOf, c, files)
        \/ UNCHANGED <<from, fileOf>>
     /\ UNCHANGED folder

GameWrites(p) ==
  /\ folder[p] = NoMod /\ folder' = [folder EXCEPT ![p] = "game"]
  /\ UNCHANGED <<fileOf, from, boot>>

FolderNext ==
  \/ \E m \in Owners : \E a \in ArchivesOf[m] : InstallMod(m, a) \/ UpdateItem(m, a)
  \/ \E m \in Owners : TakeAway(m)
  \/ \E m \in FolderMods : Reindex(m)
  \/ StackStarts \/ AdoptNext
  \/ \E p \in GameFiles : GameWrites(p)

FolderSpec == FolderInit /\ [][FolderNext]_folderVars

FolderTypeOK ==
  /\ folder \in [AllFiles -> Owners \cup {NoMod, "game", "left"}]
  /\ fileOf \in [AllFiles -> Owners \cup {NoMod}]
  /\ \A p \in AllFiles : fileOf[p] # NoMod => from[fileOf[p]] # NoMod /\ folder[p] # NoMod
  /\ IsSuffix(boot.todo, CoreMods) /\ boot.tracked \subseteq AllFiles /\ boot.versions \subseteq OnGithub

------------------------------------------------------------------------------
\* What the image and the archives of a core mod bring.
BroughtBy(c) == CoreFiles[c] \cup UNION {FilesIn[a] : a \in ArchivesOf[c]}

\* What adoption may take for a core mod.
Adoptable(c, p) == Under(p, CorePaths[c]) /\ p \notin CoreExclude[c]

\* No archive of an ordinary mod holds a file of a core mod, and the list of core
\* mods keeps them apart: what one of them brings is neither brought by another
\* nor adopted for it.
CoreApart ==
  /\ \A m \in FolderMods, c \in CoreSet : \A a \in ArchivesOf[m] : FilesIn[a] \cap BroughtBy(c) = {}
  /\ \A c, d \in CoreSet : c # d => /\ BroughtBy(c) \cap BroughtBy(d) = {}
                                    /\ \A p \in BroughtBy(d) : ~Adoptable(c, p)

\* However core mods are handed over, adopted, updated and removed: a file that one of
\* them brought goes only with that one ("otherwise the next client update would prune
\* it as stale and break the headless", src/src/adopt.rs).  And once a mod has file
\* rows, from its install or from reindexing, every file it brought into the known
\* directories has a row.
FilesHaveOwners ==
  [][\A p \in AllFiles :
       /\ folder[p] \in CoreSet /\ folder'[p] = NoMod => fileOf[p] = folder[p]
       /\ folder'[p] \in FolderMods /\ Known(p) /\ (\E q \in AllFiles : fileOf'[q] = folder'[p])
            => fileOf'[p] = folder'[p]]_folderVars
=============================================================================
