---------------------------- MODULE FolderProofs ----------------------------
(* Theorems about GameFolder, the folder the archives of mods land in: whose *)
(* each file is; and about Dependencies: what a mod needs is there, and what *)
(* goes with it.  For any mods, archives and needs.                          *)
EXTENDS GameFolder, Dependencies, Numbers, TLAPS

------------------------------------------------------------------------------
(* The folder of the game: whose the files in it are                        *)

\* A mod that is installed, and its archive unless it was adopted.
FromPart ==
  /\ folder \in [AllFiles -> Owners \cup {NoMod, "game", "left"}]
  /\ fileOf \in [AllFiles -> Owners \cup {NoMod}]
  /\ DOMAIN from = Owners
  /\ \A m \in FolderMods : from[m] = NoMod \/ from[m] \in ArchivesOf[m]

\* What a mod put into the folder is of the archive it was installed from.
PutPart ==
  \A p \in AllFiles : folder[p] \in FolderMods =>
    from[folder[p]] \in ArchivesOf[folder[p]] /\ p \in FilesIn[from[folder[p]]]

\* Once a mod has a row, all its files in the known directories have one.
RowPart ==
  \A p \in AllFiles : folder[p] \in FolderMods /\ Known(p) /\ RowsOf(folder[p]) # {} =>
    fileOf[p] = folder[p]

\* Files and rows of a core mod are where it may have them.
CorePart ==
  \A p \in AllFiles :
    /\ folder[p] \in CoreSet => p \in BroughtBy(folder[p])
    /\ fileOf[p] \in CoreSet => p \in BroughtBy(fileOf[p]) \/ Adoptable(fileOf[p], p)
    /\ fileOf[p] \in FolderMods => \A c \in CoreSet : p \notin BroughtBy(c)

\* Adoption goes through core mods.
BootPart ==
  boot \in [todo : Seq(CoreSet), tracked : SUBSET AllFiles, versions : SUBSET OnGithub]

FolderInv == BootPart /\ FromPart /\ PutPart /\ RowPart /\ CorePart

LEMMA PutFilesAt ==
  ASSUME NEW f, NEW m, NEW S, NEW p \in AllFiles
  PROVE  PutFiles(f, m, S)[p] = IF p \in S THEN m ELSE f[p]
  BY DEF PutFiles

LEMMA FilesInFolder ==
  ASSUME NEW m \in Owners, NEW a \in ArchivesOf[m]
  PROVE  FilesIn[a] \subseteq AllFiles
  <1>1. a \in DOMAIN FilesIn
    BY DEF FilesIn
  <1>. QED BY <1>1 DEF AllFiles

\* What an update or a removal of m leaves: its new files, if any, and their rows.
Replaced(m, files) ==
  \A p \in AllFiles :
    /\ folder'[p] = IF p \in files THEN m
                    ELSE IF fileOf[p] = m THEN NoMod
                    ELSE IF folder[p] = m THEN "left" ELSE folder[p]
    /\ fileOf'[p] = IF p \in files THEN m ELSE IF fileOf[p] = m THEN NoMod ELSE fileOf[p]

\* What an installation of m leaves.
Added(m, files) ==
  \A p \in AllFiles :
    /\ folder'[p] = IF p \in files THEN m ELSE folder[p]
    /\ fileOf'[p] = IF p \in files THEN m ELSE fileOf[p]

LEMMA UpdateReplaces ==
  ASSUME NEW m, NEW a, UpdateItem(m, a)
  PROVE  Replaced(m, FilesIn[a])
  <1>. DEFINE stale == RowsOf(m) \ FilesIn[a]
  <1>1. /\ folder' = PutFiles(WithoutRows(m, stale), m, FilesIn[a])
        /\ fileOf' = PutFiles(PutFiles(fileOf, NoMod, stale), m, FilesIn[a])
    BY DEF UpdateItem
  <1>2. \A p \in AllFiles : p \in stale <=> fileOf[p] = m /\ p \notin FilesIn[a]
    BY DEF RowsOf
  <1>. HIDE DEF stale
  <1>3. \A p \in AllFiles : WithoutRows(m, stale)[p] =
          IF p \in stale THEN NoMod ELSE IF folder[p] = m THEN "left" ELSE folder[p]
    BY PutFilesAt DEF WithoutRows
  <1>. QED BY <1>1, <1>2, <1>3, PutFilesAt DEF Replaced

LEMMA RemovalReplaces ==
  ASSUME NEW m, TakeAway(m)
  PROVE  Replaced(m, {})
  <1>1. folder' = WithoutRows(m, RowsOf(m)) /\ fileOf' = PutFiles(fileOf, NoMod, RowsOf(m))
    BY DEF TakeAway
  <1>2. \A p \in AllFiles : p \in RowsOf(m) <=> fileOf[p] = m
    BY DEF RowsOf
  <1>3. \A p \in AllFiles : WithoutRows(m, RowsOf(m))[p] =
          IF p \in RowsOf(m) THEN NoMod ELSE IF folder[p] = m THEN "left" ELSE folder[p]
    BY PutFilesAt DEF WithoutRows
  <1>. QED BY <1>1, <1>2, <1>3, PutFilesAt DEF Replaced

LEMMA InstallAdds ==
  ASSUME NEW m, NEW a, InstallMod(m, a)
  PROVE  Added(m, FilesIn[a])
  BY PutFilesAt DEF InstallMod, Added

\* An owner of a row and of a file of a core mod are the same.
LEMMA CoreRowsFit ==
  ASSUME FolderInv, CoreApart, NEW p \in AllFiles, folder[p] \in CoreSet, fileOf[p] # NoMod
  PROVE  fileOf[p] = folder[p]
  <1>1. fileOf[p] \in FolderMods \/ fileOf[p] \in CoreSet
    BY DEF FolderInv, FromPart, Owners
  <1>2. p \in BroughtBy(folder[p])
    BY DEF FolderInv, CorePart
  <1>3. CASE fileOf[p] \in FolderMods
    BY <1>2, <1>3 DEF FolderInv, CorePart
  <1>4. CASE fileOf[p] \in CoreSet
    <2>1. p \in BroughtBy(fileOf[p]) \/ Adoptable(fileOf[p], p)
      BY <1>4 DEF FolderInv, CorePart
    <2>. QED BY <1>2, <1>4, <2>1 DEF CoreApart
  <1>. QED BY <1>1, <1>3, <1>4

\* Rows and files of mod m are those of an archive of it.
LEMMA ArchiveIsOwn ==
  ASSUME CoreApart, NEW m \in Owners, NEW a \in ArchivesOf[m], NEW p \in FilesIn[a]
  PROVE  /\ m \in CoreSet => p \in BroughtBy(m)
         /\ m \in FolderMods => \A c \in CoreSet : p \notin BroughtBy(c)
  BY DEF BroughtBy, CoreApart

LEMMA ReplacedCore ==
  ASSUME FolderInv, CoreApart, NEW m \in Owners, NEW files,
         Replaced(m, files) \/ Added(m, files),
         \A p \in files : /\ m \in CoreSet => p \in BroughtBy(m)
                          /\ m \in FolderMods => \A c \in CoreSet : p \notin BroughtBy(c)
  PROVE  CorePart'
  <1>. SUFFICES ASSUME NEW p \in AllFiles
                PROVE  /\ folder'[p] \in CoreSet => p \in BroughtBy(folder'[p])
                       /\ fileOf'[p] \in CoreSet => p \in BroughtBy(fileOf'[p]) \/ Adoptable(fileOf'[p], p)
                       /\ fileOf'[p] \in FolderMods => \A c \in CoreSet : p \notin BroughtBy(c)
    BY DEF CorePart, BroughtBy, Adoptable
  <1>1. NoMod \notin Owners /\ "left" \notin Owners /\ FolderMods \cap CoreSet = {}
    BY FolderAssumption
  <1>2. (folder'[p] = m /\ p \in files) \/ folder'[p] \in {NoMod, "left", folder[p]}
    BY DEF Replaced, Added
  <1>3. (fileOf'[p] = m /\ p \in files) \/ fileOf'[p] \in {NoMod, fileOf[p]}
    BY DEF Replaced, Added
  <1>. QED BY <1>1, <1>2, <1>3 DEF FolderInv, CorePart, Owners

\* The components of the stack write files of theirs over what has no row, or over
\* each other's.
LEMMA StackWrites ==
  ASSUME StackStarts, NEW p \in AllFiles
  PROVE  /\ \/ folder'[p] = folder[p]
            \/ /\ folder'[p] \in CoreSet /\ p \in CoreFiles[folder'[p]]
               /\ fileOf[p] \in {NoMod} \cup CoreSet
         /\ UNCHANGED <<fileOf, from>>
  <1>1. CASE UNCHANGED folder
    BY <1>1 DEF StackStarts
  <1>2. ASSUME NEW installs \in SUBSET CoreSet,
               \A c \in installs : \A q \in CoreFiles[c] : fileOf[q] \in {NoMod} \cup CoreSet,
               folder' = [q \in AllFiles |->
                  IF \E c \in installs : q \in CoreFiles[c]
                  THEN CHOOSE c \in installs : q \in CoreFiles[c] ELSE folder[q]]
        PROVE  \/ folder'[p] = folder[p]
               \/ /\ folder'[p] \in CoreSet /\ p \in CoreFiles[folder'[p]]
                  /\ fileOf[p] \in {NoMod} \cup CoreSet
    <2>1. CASE \E c \in installs : p \in CoreFiles[c]
      <3>1. folder'[p] = CHOOSE c \in installs : p \in CoreFiles[c]
        BY <1>2, <2>1
      <3>2. folder'[p] \in installs /\ p \in CoreFiles[folder'[p]]
        BY <2>1, <3>1
      <3>. QED BY <1>2, <3>2
    <2>2. CASE ~\E c \in installs : p \in CoreFiles[c]
      BY <1>2, <2>2
    <2>. QED BY <2>1, <2>2
  <1>. QED BY <1>1, <1>2 DEF StackStarts

\* Adoption gives rows to files that have none.
LEMMA AdoptionRecords ==
  ASSUME AdoptNext, NEW p \in AllFiles, boot.todo # <<>> => Head(boot.todo) \in CoreSet
  PROVE  /\ UNCHANGED folder
         /\ \/ fileOf'[p] = fileOf[p]
            \/ fileOf[p] = NoMod /\ fileOf'[p] \in CoreSet /\ Adoptable(fileOf'[p], p)
         /\ \A m \in FolderMods : DOMAIN from = Owners => from'[m] = from[m]
         /\ DOMAIN from' = DOMAIN from
  <1>. DEFINE c == Head(boot.todo)
              files == CollectFiles(c)
  <1>1. c \in CoreSet /\ c \notin FolderMods
    BY FolderAssumption DEF AdoptNext
  <1>2. CASE UNCHANGED <<from, fileOf>>
    BY <1>2 DEF AdoptNext
  <1>3. CASE /\ \A q \in files : fileOf[q] = NoMod
             /\ from' = [from EXCEPT ![c] = {}] /\ fileOf' = PutFiles(fileOf, c, files)
    <2>1. \A q \in files : Adoptable(c, q)
      BY DEF CollectFiles, Adoptable
    <2>. HIDE DEF files, c
    <2>2. fileOf'[p] = IF p \in files THEN c ELSE fileOf[p]
      BY <1>3, PutFilesAt
    <2>. QED BY <1>1, <1>3, <2>1, <2>2 DEF AdoptNext
  <1>. QED BY <1>2, <1>3 DEF AdoptNext

\* Reindexing gives a mod without rows the files of its archive.
LEMMA ReindexRecords ==
  ASSUME NEW m \in FolderMods, Reindex(m), NEW p \in AllFiles
  PROVE  LET found == ReindexEntries(from[m]) \cap OnFolder IN
         /\ UNCHANGED <<folder, from, boot>>
         /\ fileOf'[p] = IF p \in found THEN m ELSE fileOf[p]
         /\ p \in found => fileOf[p] = NoMod /\ p \in FilesIn[from[m]]
         /\ folder[p] # NoMod /\ Known(p) /\ p \in FilesIn[from[m]] => p \in found
  <1>. DEFINE found == ReindexEntries(from[m]) \cap OnFolder
  <1>1. /\ UNCHANGED <<folder, from, boot>> /\ fileOf' = PutFiles(fileOf, m, found)
        /\ \A q \in found : fileOf[q] = NoMod
    BY DEF Reindex
  <1>2. \A q \in AllFiles : q \in found <=> folder[q] # NoMod /\ Known(q) /\ q \in FilesIn[from[m]]
    BY DEF ReindexEntries, OnFolder
  <1>. HIDE DEF found
  <1>3. fileOf'[p] = IF p \in found THEN m ELSE fileOf[p]
    BY <1>1, PutFilesAt
  <1>. QED BY <1>1, <1>2, <1>3 DEF found

LEMMA FolderStarts == FolderInit => FolderInv
  <1>. SUFFICES ASSUME FolderInit PROVE FolderInv
    OBVIOUS
  <1>1. ASSUME NEW p \in AllFiles
        PROVE  \/ folder[p] = NoMod
               \/ folder[p] \in FolderMods /\ from[folder[p]] # NoMod /\ p \in FilesIn[from[folder[p]]]
    <2>1. CASE \E m \in FolderMods : from[m] # NoMod /\ p \in FilesIn[from[m]]
      <3>1. folder[p] = CHOOSE m \in FolderMods : from[m] # NoMod /\ p \in FilesIn[from[m]]
        BY <2>1 DEF FolderInit
      <3>. QED BY <2>1, <3>1
    <2>2. CASE ~\E m \in FolderMods : from[m] # NoMod /\ p \in FilesIn[from[m]]
      BY <2>2 DEF FolderInit
    <2>. QED BY <2>1, <2>2
  <1>2. /\ \A p \in AllFiles : fileOf[p] = NoMod
        /\ \A m \in FolderMods : from[m] = NoMod \/ from[m] \in ArchivesOf[m]
        /\ DOMAIN from = Owners
    BY DEF FolderInit, Owners
  <1>3. FromPart
    <2>1. folder = [p \in AllFiles |-> folder[p]] /\ fileOf = [p \in AllFiles |-> fileOf[p]]
      BY DEF FolderInit
    <2>2. \A p \in AllFiles : folder[p] \in Owners \cup {NoMod, "game", "left"}
      BY <1>1 DEF Owners
    <2>. QED BY <1>2, <2>1, <2>2 DEF FromPart
  <1>4. NoMod \notin FolderMods /\ NoMod \notin CoreSet /\ FolderMods \cap CoreSet = {}
    BY FolderAssumption DEF Owners
  <1>5. PutPart
    BY <1>1, <1>2, <1>4 DEF PutPart
  <1>6. RowPart /\ CorePart
    BY <1>1, <1>2, <1>4 DEF RowPart, CorePart, RowsOf
  <1>7. BootPart
    BY DEF FolderInit, BootPart, Booted
  <1>. QED BY <1>3, <1>5, <1>6, <1>7 DEF FolderInv

LEMMA FolderBoots ==
  ASSUME BootPart, [FolderNext]_folderVars
  PROVE  BootPart' /\ (AdoptNext => Head(boot.todo) \in CoreSet)
  <1>0. BootPart
    OBVIOUS
  <1>1. boot.todo # <<>> => Head(boot.todo) \in CoreSet /\ Tail(boot.todo) \in Seq(CoreSet)
    BY <1>0 DEF BootPart
  <1>2. CASE AdoptNext
    <2>1. boot.todo # <<>> /\ (boot' = Booted \/ boot' = [boot EXCEPT !.todo = Tail(@)])
      BY <1>2 DEF AdoptNext
    <2>2. Booted \in [todo : Seq(CoreSet), tracked : SUBSET AllFiles, versions : SUBSET OnGithub]
      BY DEF Booted
    <2>. QED BY <1>0, <1>1, <2>1, <2>2 DEF BootPart
  <1>3. CASE StackStarts
    <2>1. \/ boot' = Booted
          \/ \E versions \in SUBSET OnGithub :
               boot' = [todo |-> CoreMods, tracked |-> {p \in AllFiles : fileOf[p] # NoMod},
                        versions |-> versions]
      BY <1>3 DEF StackStarts
    <2>2. boot' \in [todo : Seq(CoreSet), tracked : SUBSET AllFiles, versions : SUBSET OnGithub]
      <3>1. CoreMods \in Seq(CoreSet) /\ <<>> \in Seq(CoreSet)
        BY FolderAssumption
      <3>2. CASE boot' = Booted
        BY <3>1, <3>2 DEF Booted
      <3>3. ASSUME NEW versions \in SUBSET OnGithub,
                   boot' = [todo |-> CoreMods, tracked |-> {p \in AllFiles : fileOf[p] # NoMod},
                            versions |-> versions]
            PROVE  boot' \in [todo : Seq(CoreSet), tracked : SUBSET AllFiles, versions : SUBSET OnGithub]
        <4>1. {p \in AllFiles : fileOf[p] # NoMod} \in SUBSET AllFiles
          OBVIOUS
        <4>. QED BY <3>1, <3>3, <4>1
      <3>. QED BY <2>1, <3>2, <3>3
    <2>3. BootPart'
      BY <2>2 DEF BootPart, AllFiles, FilesIn
    <2>. QED BY <1>1, <2>3 DEF AdoptNext
  <1>4. CASE UNCHANGED boot
    BY <1>0, <1>4 DEF BootPart, AdoptNext
  <1>5. \/ UNCHANGED boot \/ StackStarts \/ AdoptNext
    BY DEF FolderNext, folderVars, InstallMod, UpdateItem, TakeAway, Reindex, GameWrites
  <1>. QED BY <1>2, <1>3, <1>4, <1>5

\* A step of the game or none at all.
GameSteps ==
  /\ UNCHANGED <<fileOf, from>>
  /\ \A p \in AllFiles : folder'[p] = folder[p] \/ (folder'[p] = "game" /\ folder[p] = NoMod)

LEMMA GameSorted ==
  ASSUME FromPart, UNCHANGED folderVars \/ \E p \in GameFiles : GameWrites(p)
  PROVE  GameSteps
  BY DEF FromPart, GameWrites, GameSteps, folderVars

LEMMA NextCore ==
  ASSUME FolderInv, CoreApart, [FolderNext]_folderVars
  PROVE  CorePart'
  <1>1. ASSUME NEW m \in Owners, NEW a \in ArchivesOf[m], InstallMod(m, a) \/ UpdateItem(m, a)
        PROVE  CorePart'
    BY <1>1, InstallAdds, UpdateReplaces, ReplacedCore, ArchiveIsOwn
  <1>2. ASSUME NEW m \in Owners, TakeAway(m) PROVE CorePart'
    BY <1>2, RemovalReplaces, ReplacedCore
  <1>. DEFINE Goal(p) ==
         /\ folder'[p] \in CoreSet => p \in BroughtBy(folder'[p])
         /\ fileOf'[p] \in CoreSet => p \in BroughtBy(fileOf'[p]) \/ Adoptable(fileOf'[p], p)
         /\ fileOf'[p] \in FolderMods => \A c \in CoreSet : p \notin BroughtBy(c)
  <1>3. (\A p \in AllFiles : Goal(p)) => CorePart'
    BY DEF CorePart, BroughtBy, Adoptable
  <1>4. NoMod \notin Owners /\ "game" \notin Owners /\ FolderMods \cap CoreSet = {}
    BY FolderAssumption
  <1>5. ASSUME NEW m \in FolderMods, Reindex(m), NEW p \in AllFiles PROVE Goal(p)
    <2>1. folder' = folder /\ (fileOf'[p] = fileOf[p] \/ (fileOf'[p] = m /\ p \in FilesIn[from[m]]))
      BY <1>5, ReindexRecords
    <2>2. from[m] \in ArchivesOf[m] /\ m \in Owners
      BY <1>5 DEF FolderInv, FromPart, Reindex, Owners
    <2>3. fileOf'[p] = m /\ p \in FilesIn[from[m]] => \A c \in CoreSet : p \notin BroughtBy(c)
      BY <2>2, ArchiveIsOwn
    <2>. QED BY <1>4, <2>1, <2>3 DEF FolderInv, CorePart
  <1>6. ASSUME StackStarts, NEW p \in AllFiles PROVE Goal(p)
    BY <1>6, StackWrites DEF FolderInv, CorePart, BroughtBy
  <1>7. ASSUME AdoptNext, NEW p \in AllFiles PROVE Goal(p)
    BY <1>4, <1>7, AdoptionRecords, FolderBoots DEF FolderInv, CorePart
  <1>8. ASSUME GameSteps, NEW p \in AllFiles PROVE Goal(p)
    BY <1>4, <1>8 DEF FolderInv, CorePart, GameSteps, Owners
  <1>. HIDE DEF Goal
  <1>. QED BY <1>1, <1>2, <1>3, <1>5, <1>6, <1>7, <1>8, GameSorted DEF FolderNext, FolderInv

LEMMA NextFrom ==
  ASSUME BootPart, FromPart, [FolderNext]_folderVars
  PROVE  FromPart'
  <1>0. FromPart /\ AllFiles' = AllFiles /\ CoreSet \subseteq Owners /\ FolderMods \subseteq Owners
    BY DEF AllFiles, FilesIn, Owners
  <1>. DEFINE Goal == /\ folder' \in [AllFiles -> Owners \cup {NoMod, "game", "left"}]
                      /\ fileOf' \in [AllFiles -> Owners \cup {NoMod}]
                      /\ DOMAIN from' = Owners
                      /\ \A m \in FolderMods : from'[m] = NoMod \/ from'[m] \in ArchivesOf[m]
  <1>1. ASSUME NEW f, NEW S, NEW m \in Owners \cup {NoMod, "game", "left"},
               f \in [AllFiles -> Owners \cup {NoMod, "game", "left"}]
        PROVE  PutFiles(f, m, S) \in [AllFiles -> Owners \cup {NoMod, "game", "left"}]
    BY <1>1 DEF PutFiles
  <1>2. ASSUME NEW f, NEW S, NEW m \in Owners \cup {NoMod}, f \in [AllFiles -> Owners \cup {NoMod}]
        PROVE  PutFiles(f, m, S) \in [AllFiles -> Owners \cup {NoMod}]
    BY <1>2 DEF PutFiles
  <1>3. ASSUME NEW m \in Owners, NEW S
        PROVE  WithoutRows(m, S) \in [AllFiles -> Owners \cup {NoMod, "game", "left"}]
    BY <1>0, <1>1 DEF WithoutRows, FromPart
  <1>4. ASSUME NEW m \in Owners, NEW a \in ArchivesOf[m], InstallMod(m, a) \/ UpdateItem(m, a)
        PROVE  Goal
    <2>1. from' = [from EXCEPT ![m] = a]
      BY <1>4 DEF InstallMod, UpdateItem
    <2>2. \/ /\ folder' = PutFiles(folder, m, FilesIn[a]) /\ fileOf' = PutFiles(fileOf, m, FilesIn[a])
          \/ LET stale == RowsOf(m) \ FilesIn[a] IN
             /\ folder' = PutFiles(WithoutRows(m, stale), m, FilesIn[a])
             /\ fileOf' = PutFiles(PutFiles(fileOf, NoMod, stale), m, FilesIn[a])
      BY <1>4 DEF InstallMod, UpdateItem
    <2>3. folder' \in [AllFiles -> Owners \cup {NoMod, "game", "left"}]
      BY <1>0, <1>1, <1>3, <2>2 DEF FromPart
    <2>4. fileOf' \in [AllFiles -> Owners \cup {NoMod}]
      BY <1>0, <1>2, <2>2 DEF FromPart
    <2>. QED BY <1>0, <2>1, <2>3, <2>4 DEF FromPart
  <1>5. ASSUME NEW m \in Owners, TakeAway(m) PROVE Goal
    <2>1. folder' = WithoutRows(m, RowsOf(m)) /\ fileOf' = PutFiles(fileOf, NoMod, RowsOf(m))
          /\ from' = [from EXCEPT ![m] = NoMod]
      BY <1>5 DEF TakeAway
    <2>. QED BY <1>0, <1>2, <1>3, <2>1 DEF FromPart
  <1>6. ASSUME NEW m \in FolderMods, Reindex(m) PROVE Goal
    <2>1. \E S : fileOf' = PutFiles(fileOf, m, S)
      BY <1>6 DEF Reindex
    <2>. QED BY <1>0, <1>2, <1>6, <2>1 DEF FromPart, Reindex
  <1>7. ASSUME StackStarts PROVE Goal
    <2>1. folder' = folder \/ folder' = [p \in AllFiles |-> folder'[p]]
      BY <1>7 DEF StackStarts
    <2>2. \A p \in AllFiles : folder'[p] \in Owners \cup {NoMod, "game", "left"}
      BY <1>0, <1>7, StackWrites DEF FromPart
    <2>3. folder' \in [AllFiles -> Owners \cup {NoMod, "game", "left"}]
      BY <1>0, <2>1, <2>2 DEF FromPart
    <2>. QED BY <1>0, <1>7, <2>3 DEF FromPart, StackStarts
  <1>8. ASSUME AdoptNext PROVE Goal
    <2>. DEFINE c == Head(boot.todo)
    <2>0. c \in CoreSet /\ c \in Owners /\ c \notin FolderMods
      BY <1>0, <1>8, FolderBoots, FolderAssumption
    <2>1. \/ UNCHANGED <<from, fileOf>>
          \/ from' = [from EXCEPT ![c] = {}] /\ fileOf' = PutFiles(fileOf, c, CollectFiles(c))
      BY <1>8 DEF AdoptNext
    <2>2. fileOf' \in [AllFiles -> Owners \cup {NoMod}]
      BY <1>0, <1>2, <2>0, <2>1 DEF FromPart
    <2>3. folder' = folder
      BY <1>8 DEF AdoptNext
    <2>. HIDE DEF c
    <2>. QED BY <1>0, <2>0, <2>1, <2>2, <2>3 DEF FromPart
  <1>9. ASSUME NEW p \in GameFiles, GameWrites(p) PROVE Goal
    BY <1>0, <1>9 DEF GameWrites, FromPart
  <1>10. ASSUME UNCHANGED folderVars PROVE Goal
    BY <1>0, <1>10 DEF folderVars, FromPart
  <1>. HIDE DEF Goal
  <1>11. Goal
    BY <1>4, <1>5, <1>6, <1>7, <1>8, <1>9, <1>10 DEF FolderNext
  <1>. QED BY <1>0, <1>11 DEF FromPart, Goal

\* The files a mod put into the folder, and their rows, after a step: PutPart and
\* RowPart speak of ordinary mods only.
LEMMA NextPut ==
  ASSUME FolderInv, [FolderNext]_folderVars
  PROVE  PutPart' /\ RowPart'
  <1>. DEFINE Put(p) == folder'[p] \in FolderMods =>
                          from'[folder'[p]] \in ArchivesOf[folder'[p]] /\ p \in FilesIn[from'[folder'[p]]]
              Rows(m) == {p \in AllFiles : fileOf'[p] = m}
              Row(p) == folder'[p] \in FolderMods /\ Known(p) /\ Rows(folder'[p]) # {} =>
                          fileOf'[p] = folder'[p]
  <1>0. /\ NoMod \notin Owners /\ "game" \notin Owners /\ "left" \notin Owners
        /\ FolderMods \cap CoreSet = {} /\ DOMAIN from = Owners /\ FolderMods \subseteq Owners
        /\ \A m \in Owners : NoMod \notin ArchivesOf[m]
        /\ PutPart /\ RowPart
    BY FolderAssumption DEF FolderInv, FromPart, Owners
  <1>1. ASSUME \A p \in AllFiles : Put(p) /\ Row(p) PROVE PutPart' /\ RowPart'
    <2>1. AllFiles' = AllFiles /\ (\A m : RowsOf(m)' = Rows(m)) /\ \A p : Known(p)' = Known(p)
      BY DEF AllFiles, FilesIn, RowsOf, Known, Under
    <2>. HIDE DEF Rows
    <2>. QED BY <1>1, <2>1 DEF PutPart, RowPart, FilesIn
  <1>2. ASSUME NEW m \in Owners, NEW a \in ArchivesOf[m], InstallMod(m, a) \/ UpdateItem(m, a),
               NEW p \in AllFiles
        PROVE  Put(p) /\ Row(p)
    <2>1. from' = [from EXCEPT ![m] = a] /\ \A q \in FilesIn[a] : fileOf[q] \in {NoMod, m}
      BY <1>2 DEF InstallMod, UpdateItem, FilesFit
    <2>2. \/ Replaced(m, FilesIn[a])
          \/ Added(m, FilesIn[a]) /\ from[m] = NoMod
      BY <1>2, InstallAdds, UpdateReplaces DEF InstallMod
    <2>3. p \in FilesIn[a] => folder'[p] = m /\ fileOf'[p] = m
      BY <2>2 DEF Replaced, Added
    <2>4. ASSUME p \notin FilesIn[a], folder'[p] \in FolderMods
          PROVE  /\ folder'[p] = folder[p] /\ folder[p] # m
                 /\ fileOf[p] = folder[p] => fileOf'[p] = fileOf[p]
      <3>1. CASE Replaced(m, FilesIn[a])
        BY <1>0, <2>4, <3>1 DEF Replaced
      <3>2. CASE Added(m, FilesIn[a]) /\ from[m] = NoMod
        BY <1>0, <2>4, <3>2 DEF Added, PutPart
      <3>. QED BY <2>2, <3>1, <3>2
    <2>5. ASSUME NEW n, n # m, Rows(n) # {}, n # NoMod PROVE RowsOf(n) # {}
      BY <2>2, <2>5 DEF RowsOf, Replaced, Added
    <2>6. CASE p \in FilesIn[a]
      BY <1>0, <2>1, <2>3, <2>6
    <2>7. CASE p \notin FilesIn[a]
      <3>1. Put(p)
        BY <1>0, <2>1, <2>4, <2>7 DEF PutPart
      <3>. HIDE DEF Rows
      <3>2. Row(p)
        BY <1>0, <2>4, <2>5, <2>7 DEF RowPart
      <3>. QED BY <3>1, <3>2
    <2>. QED BY <2>6, <2>7
  <1>3. ASSUME NEW m \in Owners, TakeAway(m), NEW p \in AllFiles PROVE Put(p) /\ Row(p)
    <2>1. from' = [from EXCEPT ![m] = NoMod] /\ Replaced(m, {})
      BY <1>3, RemovalReplaces DEF TakeAway
    <2>2. ASSUME folder'[p] \in FolderMods
          PROVE  folder'[p] = folder[p] /\ folder[p] # m /\ (fileOf[p] = folder[p] => fileOf'[p] = fileOf[p])
      BY <1>0, <2>1, <2>2 DEF Replaced
    <2>3. ASSUME NEW n, n # m, Rows(n) # {}, n # NoMod PROVE RowsOf(n) # {}
      BY <2>1, <2>3 DEF RowsOf, Replaced
    <2>4. Put(p)
      BY <1>0, <2>1, <2>2 DEF PutPart
    <2>. HIDE DEF Rows
    <2>5. Row(p)
      BY <1>0, <2>2, <2>3 DEF RowPart
    <2>. QED BY <2>4, <2>5
  <1>4. ASSUME NEW m \in FolderMods, Reindex(m), NEW p \in AllFiles PROVE Put(p) /\ Row(p)
    <2>1. UNCHANGED <<folder, from>> /\ RowsOf(m) = {}
      BY <1>4 DEF Reindex
    <2>2. Put(p)
      BY <1>0, <2>1 DEF PutPart
    <2>3. ASSUME folder[p] \in FolderMods, Known(p), Rows(folder[p]) # {}
          PROVE  fileOf'[p] = folder[p]
      <3>1. CASE folder[p] = m
        <4>1. p \in FilesIn[from[m]] /\ folder[p] # NoMod
          BY <1>0, <3>1 DEF PutPart
        <4>. QED BY <1>4, <2>3, <3>1, <4>1, ReindexRecords
      <3>2. CASE folder[p] # m
        <4>1. PICK q \in AllFiles : fileOf'[q] = folder[p]
          BY <2>3
        <4>2. fileOf[q] = folder[p]
          BY <1>4, <3>2, <4>1, ReindexRecords
        <4>3. fileOf[p] = folder[p]
          BY <1>0, <2>3, <4>2 DEF RowPart, RowsOf
        <4>. QED BY <1>0, <1>4, <2>3, <4>3, ReindexRecords
      <3>. QED BY <3>1, <3>2
    <2>. QED BY <2>1, <2>2, <2>3
  <1>5. ASSUME StackStarts, NEW p \in AllFiles PROVE Put(p) /\ Row(p)
    BY <1>0, <1>5, StackWrites DEF PutPart, RowPart, RowsOf
  <1>6. ASSUME AdoptNext, NEW p \in AllFiles PROVE Put(p) /\ Row(p)
    <2>1. UNCHANGED folder /\ \A m \in FolderMods : from'[m] = from[m]
      BY <1>0, <1>6, FolderBoots, AdoptionRecords DEF FolderInv
    <2>2. \A q \in AllFiles : \/ fileOf'[q] = fileOf[q]
                              \/ fileOf[q] = NoMod /\ fileOf'[q] \in CoreSet
      BY <1>6, FolderBoots, AdoptionRecords DEF FolderInv
    <2>3. Put(p)
      BY <1>0, <2>1 DEF PutPart
    <2>4. Row(p)
      BY <1>0, <2>1, <2>2 DEF RowPart, RowsOf
    <2>. QED BY <2>3, <2>4
  <1>7. ASSUME GameSteps, NEW p \in AllFiles PROVE Put(p) /\ Row(p)
    BY <1>0, <1>7 DEF PutPart, RowPart, RowsOf, GameSteps
  <1>. HIDE DEF Put, Row, Rows
  <1>. QED BY <1>1, <1>2, <1>3, <1>4, <1>5, <1>6, <1>7, GameSorted DEF FolderNext, FolderInv

\* What goes has a row, and a file of a core mod with a row has that mod's.
LEMMA CoreFilesGo ==
  ASSUME FolderInv, CoreApart, [FolderNext]_folderVars, NEW p \in AllFiles,
         folder[p] \in CoreSet, folder'[p] = NoMod
  PROVE  fileOf[p] = folder[p]
  <1>0. NoMod \notin Owners /\ NoMod # "left" /\ NoMod # "game" /\ folder[p] \in Owners
    BY FolderAssumption DEF Owners
  <1>1. SUFFICES fileOf[p] # NoMod
    BY CoreRowsFit
  <1>2. ASSUME NEW m \in Owners, NEW files, Replaced(m, files) \/ Added(m, files)
        PROVE  fileOf[p] # NoMod
    BY <1>0, <1>2 DEF Replaced, Added
  <1>3. ASSUME NEW m \in Owners, NEW a \in ArchivesOf[m], InstallMod(m, a) \/ UpdateItem(m, a)
        PROVE  fileOf[p] # NoMod
    BY <1>2, <1>3, InstallAdds, UpdateReplaces
  <1>4. ASSUME NEW m \in Owners, TakeAway(m) PROVE fileOf[p] # NoMod
    BY <1>2, <1>4, RemovalReplaces
  <1>5. ASSUME NEW m \in FolderMods, Reindex(m) PROVE FALSE
    BY <1>0, <1>5 DEF Reindex
  <1>6. ASSUME StackStarts PROVE FALSE
    BY <1>0, <1>6, StackWrites DEF Owners
  <1>7. ASSUME AdoptNext PROVE FALSE
    BY <1>0, <1>7 DEF AdoptNext
  <1>8. ASSUME GameSteps PROVE FALSE
    BY <1>0, <1>8 DEF GameSteps
  <1>. QED BY <1>3, <1>4, <1>5, <1>6, <1>7, <1>8, GameSorted DEF FolderNext, FolderInv

\* FilesHaveOwners, for any archives, mods and lists of core mods, if ordinary
\* archives hold no core files and the list keeps the core mods apart: what one of
\* them brought goes only with it, and a mod with rows has one for each of its files
\* in the known directories.
THEOREM EachHasItsOwner == CoreApart => (FolderSpec => FilesHaveOwners)
  <1>. SUFFICES ASSUME CoreApart PROVE FolderSpec => FilesHaveOwners
    OBVIOUS
  <1>. DEFINE Kept ==
         \A p \in AllFiles :
           /\ folder[p] \in CoreSet /\ folder'[p] = NoMod => fileOf[p] = folder[p]
           /\ folder'[p] \in FolderMods /\ Known(p) /\ (\E q \in AllFiles : fileOf'[q] = folder'[p])
                => fileOf'[p] = folder'[p]
  <1>1. FolderInv /\ [FolderNext]_folderVars => FolderInv'
    BY FolderBoots, NextFrom, NextPut, NextCore DEF FolderInv
  <1>2. FolderInv /\ [FolderNext]_folderVars => Kept
    <2>. SUFFICES ASSUME FolderInv, [FolderNext]_folderVars PROVE Kept
      OBVIOUS
    <2>1. \A p \in AllFiles : folder[p] \in CoreSet /\ folder'[p] = NoMod => fileOf[p] = folder[p]
      BY CoreFilesGo
    <2>2. RowPart'
      BY NextPut
    <2>3. AllFiles' = AllFiles /\ \A p : Known(p)' = Known(p)
      BY DEF AllFiles, FilesIn, Known, Under
    <2>4. \A p \in AllFiles :
            folder'[p] \in FolderMods /\ Known(p) /\ (\E q \in AllFiles : fileOf'[q] = folder'[p])
              => fileOf'[p] = folder'[p]
      BY <2>2, <2>3 DEF RowPart, RowsOf
    <2>. QED BY <2>1, <2>4
  <1>. HIDE DEF Kept
  <1>3. FolderInv /\ [FolderNext]_folderVars => [Kept]_folderVars
    BY <1>2
  <1>. QED BY <1>1, <1>3, FolderStarts, PTL DEF FolderSpec, FilesHaveOwners, Kept

\* A file with a row is there, and its mod is installed.
HeldPart == \A p \in AllFiles : fileOf[p] # NoMod => from[fileOf[p]] # NoMod /\ folder[p] # NoMod

\* What is still to be adopted is the end of the list.
TodoPart == \E n \in 0..Len(CoreMods) : boot.todo = SubSeq(CoreMods, n + 1, Len(CoreMods))

FolderTyping == BootPart /\ FromPart /\ HeldPart /\ TodoPart

LEMMA EndIsSuffix ==
  ASSUME NEW S, NEW t \in Seq(S), NEW n \in 0..Len(t)
  PROVE  IsSuffix(SubSeq(t, n + 1, Len(t)), t)
  <1>. DEFINE s == SubSeq(t, n + 1, Len(t))
              k == Len(t) - n
  <1>1. s \in Seq(S) /\ Len(s) = k /\ k \in Nat /\ k <= Len(t) /\ \A i \in 1..k : s[i] = t[n + i]
    OBVIOUS
  <1>. HIDE DEF s, k
  <1>2. Reverse(s) \in Seq(S) /\ Len(Reverse(s)) = k /\ \A i \in 1..k : Reverse(s)[i] = s[(k - i) + 1]
    BY <1>1 DEF Reverse
  <1>3. Reverse(t) \in Seq(S) /\ Len(Reverse(t)) = Len(t) /\ \A i \in 1..Len(t) : Reverse(t)[i] = t[(Len(t) - i) + 1]
    BY DEF Reverse
  <1>4. \A i \in 1..k : Reverse(s)[i] = Reverse(t)[i]
    <2>. SUFFICES ASSUME NEW i \in 1..k PROVE Reverse(s)[i] = Reverse(t)[i]
      OBVIOUS
    <2>1. (k - i) + 1 \in 1..k /\ n + ((k - i) + 1) = (Len(t) - i) + 1 /\ i \in 1..Len(t)
      BY <1>1 DEF k
    <2>. QED BY <1>1, <1>2, <1>3, <2>1
  <1>5. SubSeq(Reverse(s), 1, k) = SubSeq(Reverse(t), 1, k)
    BY <1>1, <1>2, <1>3, <1>4
  <1>. QED BY <1>1, <1>2, <1>3, <1>5 DEF IsSuffix, IsPrefix, s

LEMMA NextTodo ==
  ASSUME BootPart, TodoPart, [FolderNext]_folderVars
  PROVE  TodoPart'
  <1>. DEFINE L == Len(CoreMods)
              Rest(n) == SubSeq(CoreMods, n + 1, L)
  <1>0. CoreMods \in Seq(CoreSet) /\ L \in Nat
    BY FolderAssumption
  <1>1. Rest(0) = CoreMods /\ Rest(L) = <<>>
    BY <1>0
  <1>2. \A n \in 0..L : Rest(n) # <<>> => n + 1 \in 0..L /\ Tail(Rest(n)) = Rest(n + 1)
    BY <1>0
  <1>3. TodoPart <=> \E k \in 0..L : boot.todo = Rest(k)
    BY DEF TodoPart
  <1>4. TodoPart' <=> \E k \in 0..L : boot'.todo = Rest(k)
    BY DEF TodoPart
  <1>. HIDE DEF L, Rest
  <1>5. CASE AdoptNext
    <2>1. boot.todo # <<>> /\ (boot'.todo = <<>> \/ boot'.todo = Tail(boot.todo))
      BY <1>5 DEF AdoptNext, Booted, BootPart
    <2>2. PICK n \in 0..L : boot.todo = Rest(n)
      BY <1>3
    <2>3. boot'.todo = Rest(L) \/ (n + 1 \in 0..L /\ boot'.todo = Rest(n + 1))
      BY <1>1, <1>2, <2>1, <2>2
    <2>. QED BY <1>0, <1>4, <2>3
  <1>6. CASE StackStarts
    <2>1. boot'.todo = <<>> \/ boot'.todo = CoreMods
      BY <1>6 DEF StackStarts, Booted
    <2>. QED BY <1>0, <1>1, <1>4, <2>1
  <1>7. CASE UNCHANGED boot
    BY <1>3, <1>4, <1>7
  <1>. QED BY <1>5, <1>6, <1>7 DEF FolderNext, folderVars, InstallMod, UpdateItem, TakeAway, Reindex, GameWrites

LEMMA NextHeld ==
  ASSUME BootPart, FromPart, HeldPart, [FolderNext]_folderVars
  PROVE  HeldPart'
  <1>0. /\ FromPart /\ HeldPart /\ CoreSet \subseteq Owners /\ FolderMods \subseteq Owners
        /\ NoMod \notin Owners /\ "game" \notin Owners /\ "left" \notin Owners /\ NoMod \notin {"game", "left", {}}
        /\ \A m \in Owners : NoMod \notin ArchivesOf[m]
    BY FolderAssumption DEF Owners
  <1>. SUFFICES ASSUME NEW p \in AllFiles, fileOf'[p] # NoMod
                PROVE  from'[fileOf'[p]] # NoMod /\ folder'[p] # NoMod
    BY DEF HeldPart, AllFiles, FilesIn
  <1>1. DOMAIN from = Owners /\ fileOf[p] \in Owners \cup {NoMod}
    BY DEF FromPart
  <1>2. fileOf[p] # NoMod => from[fileOf[p]] # NoMod /\ folder[p] # NoMod
    BY DEF HeldPart
  <1>3. ASSUME NEW m \in Owners, NEW a \in ArchivesOf[m], InstallMod(m, a) \/ UpdateItem(m, a)
        PROVE  from'[fileOf'[p]] # NoMod /\ folder'[p] # NoMod
    <2>1. from' = [from EXCEPT ![m] = a] /\ a # NoMod
      BY <1>0, <1>3 DEF InstallMod, UpdateItem
    <2>2. Added(m, FilesIn[a]) \/ Replaced(m, FilesIn[a])
      BY <1>3, InstallAdds, UpdateReplaces
    <2>. QED BY <1>0, <1>1, <1>2, <2>1, <2>2 DEF Added, Replaced
  <1>4. ASSUME NEW m \in Owners, TakeAway(m) PROVE from'[fileOf'[p]] # NoMod /\ folder'[p] # NoMod
    <2>1. from' = [from EXCEPT ![m] = NoMod] /\ Replaced(m, {})
      BY <1>4, RemovalReplaces DEF TakeAway
    <2>. QED BY <1>0, <1>1, <1>2, <2>1 DEF Replaced
  <1>5. ASSUME NEW m \in FolderMods, Reindex(m) PROVE from'[fileOf'[p]] # NoMod /\ folder'[p] # NoMod
    <2>1. /\ UNCHANGED <<folder, from>> /\ from[m] # NoMod
          /\ fileOf'[p] = IF p \in ReindexEntries(from[m]) \cap OnFolder THEN m ELSE fileOf[p]
      BY <1>5, ReindexRecords DEF Reindex
    <2>. QED BY <1>2, <2>1 DEF OnFolder
  <1>6. CASE StackStarts
    BY <1>0, <1>2, <1>6, StackWrites
  <1>7. CASE AdoptNext
    <2>. DEFINE c == Head(boot.todo)
    <2>1. c \in Owners
      BY <1>0, <1>7, FolderBoots
    <2>2. UNCHANGED folder
      BY <1>7 DEF AdoptNext
    <2>3. CASE UNCHANGED <<from, fileOf>>
      BY <1>2, <2>2, <2>3
    <2>4. CASE from' = [from EXCEPT ![c] = {}] /\ fileOf' = PutFiles(fileOf, c, CollectFiles(c))
      <3>1. fileOf'[p] = IF p \in CollectFiles(c) THEN c ELSE fileOf[p]
        BY <2>4, PutFilesAt
      <3>2. p \in CollectFiles(c) => folder[p] # NoMod
        BY DEF CollectFiles, OnFolder
      <3>. HIDE DEF c
      <3>. QED BY <1>0, <1>1, <1>2, <2>1, <2>2, <2>4, <3>1, <3>2
    <2>. QED BY <1>7, <2>3, <2>4 DEF AdoptNext
  <1>8. CASE UNCHANGED folderVars \/ \E q \in GameFiles : GameWrites(q)
    <2>1. GameSteps
      BY <1>0, <1>8, GameSorted
    <2>. QED BY <1>0, <1>2, <2>1 DEF GameSteps
  <1>. QED BY <1>3, <1>4, <1>5, <1>6, <1>7, <1>8 DEF FolderNext

LEMMA TypingStarts == FolderInit => FolderTyping
  <1>. SUFFICES ASSUME FolderInit PROVE FolderTyping
    OBVIOUS
  <1>1. BootPart /\ FromPart
    BY FolderStarts DEF FolderInv
  <1>2. HeldPart
    BY DEF FolderInit, HeldPart
  <1>3. CoreMods \in Seq(CoreSet) /\ boot.todo = <<>>
    BY FolderAssumption DEF FolderInit, Booted
  <1>4. Len(CoreMods) \in Nat /\ SubSeq(CoreMods, Len(CoreMods) + 1, Len(CoreMods)) = <<>>
    BY <1>3
  <1>. QED BY <1>1, <1>2, <1>3, <1>4 DEF TodoPart, FolderTyping

LEMMA TypingStays == FolderTyping /\ [FolderNext]_folderVars => FolderTyping'
  BY FolderBoots, NextFrom, NextHeld, NextTodo DEF FolderTyping

LEMMA TypingShows == FolderTyping => FolderTypeOK
  <1>. SUFFICES ASSUME FolderTyping PROVE FolderTypeOK
    OBVIOUS
  <1>1. IsSuffix(boot.todo, CoreMods)
    BY EndIsSuffix, FolderAssumption DEF FolderTyping, TodoPart
  <1>. QED BY <1>1 DEF FolderTyping, BootPart, FromPart, HeldPart, FolderTypeOK

\* Whatever is installed, updated, reindexed and adopted: a row is of a file that is
\* there and of a mod that is installed, and adoption goes through the core mods in order.
THEOREM FolderTyped == FolderSpec => []FolderTypeOK
  BY TypingStarts, TypingStays, TypingShows, PTL DEF FolderSpec

------------------------------------------------------------------------------
(* Dependencies: the walk, the way back, and what is there *)

Node == [parent : ForgeMods, mod : ForgeMods, open : BOOLEAN]
WalkState == [todo : Seq(Node), out : Seq(ForgeMods), lacks : BOOLEAN]
Needs(m, r) == ToSet(forge.needs[m][r])

\* The rows, and what follows from them for ids.
ModRowsPart ==
  /\ forge \in Forges /\ nextRow \in Nat \ {0}
  /\ modRow \in [ForgeMods -> [id : 1..(nextRow - 1), rel : Releases] \cup {Absent}]
  /\ \A m, n \in Here : modRow[m].id = modRow[n].id => m = n
  /\ everRemoved \cup unresolved \subseteq ForgeMods

LEMMA ForgeFields ==
  ASSUME forge \in Forges
  PROVE  /\ Latest \in Releases
         /\ \A m \in ForgeMods, r \in Releases :
              forge.needs[m][r] \in Seq(ForgeMods) /\ Needs(m, r) \subseteq ForgeMods
  <1>1. Latest \in Releases
    BY DepsAssumption DEF Latest
  <1>2. ASSUME NEW m \in ForgeMods, NEW r \in Releases
        PROVE  forge.needs[m][r] \in Seq(ForgeMods) /\ Needs(m, r) \subseteq ForgeMods
    <2>1. forge.needs \in [ForgeMods -> [Releases -> Seq(ForgeMods)]]
      BY ForgeAssumption
    <2>2. forge.needs[m][r] \in Seq(ForgeMods)
      BY <2>1
    <2>. QED BY <2>2 DEF Needs, ToSet
  <1>. QED BY <1>1, <1>2

------------------------------------------------------------------------------
(* What a mod may need *)

LEMMA BelowSelf ==
  ASSUME NEW m \in ForgeMods
  PROVE  m \in Below({m})
  BY DEF Below

LEMMA BelowStep ==
  ASSUME forge \in Forges, NEW a \in ForgeMods, NEW m \in Below({a}), NEW r \in Releases, NEW n \in Needs(m, r)
  PROVE  n \in Below({a})
  <1>1. m \in ForgeMods /\ n \in ForgeMods
    BY ForgeFields DEF Below
  <1>2. ASSUME NEW T \in SUBSET ForgeMods, {a} \subseteq T, Closed(T) PROVE n \in T
    <2>1. m \in T
      BY <1>2 DEF Below
    <2>. QED BY <1>2, <2>1 DEF Closed, Needs
  <1>. QED BY <1>1, <1>2 DEF Below

LEMMA BelowAll ==
  ASSUME NEW a \in ForgeMods, NEW b \in Below({a}), NEW c \in Below({b})
  PROVE  c \in Below({a})
  <1>1. ASSUME NEW T \in SUBSET ForgeMods, {a} \subseteq T, Closed(T) PROVE c \in T
    <2>1. b \in T
      BY <1>1 DEF Below
    <2>. QED BY <1>1, <2>1 DEF Below
  <1>. QED BY <1>1 DEF Below

------------------------------------------------------------------------------
(* The walk *)

\* The release of m has c met by S: a conflict, nothing to install, or there.
Covered(m, c, S) == <<m, c>> \in forge.conflicts \/ c \in forge.bare \/ c \in S
Earlier(s, i) == {s[j] : j \in {k \in DOMAIN s : k < i}}

\* What a mod of the list needs is in S or comes before it.
InOrder(s, S) ==
  \A i \in DOMAIN s : \A c \in Needs(s[i], Latest) : Covered(s[i], c, S \cup Earlier(s, i))

Expects(todo, j, m, c) == todo[j].parent = m /\ todo[j].mod = c

\* The walk over the tree of release r of m.
WalkInv(s, m, r) ==
  /\ s \in WalkState
  /\ \A c \in Needs(m, r) :
       Covered(m, c, Here \cup ToSet(s.out)) \/ \E j \in DOMAIN s.todo : Expects(s.todo, j, m, c)
  /\ \A i \in DOMAIN s.todo : s.todo[i].open =>
       \A c \in Needs(s.todo[i].mod, Latest) :
         \/ Covered(s.todo[i].mod, c, Here \cup ToSet(s.out))
         \/ \E j \in DOMAIN s.todo : j < i /\ Expects(s.todo, j, s.todo[i].mod, c)
  /\ InOrder(s.out, Here)
  /\ \A i \in DOMAIN s.todo : s.todo[i].mod \in Below({m})
  /\ ToSet(s.out) \subseteq Below({m})

LEMMA NodesFields ==
  ASSUME forge \in Forges, NEW m \in ForgeMods, NEW r \in Releases
  PROVE  /\ Nodes(m, r) \in Seq(Node)
         /\ \A i \in DOMAIN Nodes(m, r) :
              /\ Nodes(m, r)[i].parent = m /\ ~Nodes(m, r)[i].open
              /\ Nodes(m, r)[i].mod \in Needs(m, r)
         /\ \A c \in Needs(m, r) : \E j \in DOMAIN Nodes(m, r) : Expects(Nodes(m, r), j, m, c)
  <1>. DEFINE s == forge.needs[m][r]
              x(i) == [parent |-> m, mod |-> s[i], open |-> FALSE]
  <1>1. s \in Seq(ForgeMods) /\ Needs(m, r) = {s[i] : i \in DOMAIN s}
    BY ForgeFields DEF Needs, ToSet
  <1>2. Nodes(m, r) = [i \in DOMAIN s |-> x(i)]
    BY DEF Nodes
  <1>3. \A i \in DOMAIN s : s[i] \in ForgeMods /\ x(i) \in Node
    BY <1>1 DEF Node
  <1>4. DOMAIN s = 1..Len(s) /\ Len(s) \in Nat
    BY <1>1
  <1>5. Nodes(m, r) \in Seq(Node)
    <2>. HIDE DEF s, x
    <2>. QED BY <1>2, <1>3, <1>4
  <1>6. \A i \in DOMAIN s : x(i).parent = m /\ ~x(i).open /\ x(i).mod = s[i]
    OBVIOUS
  <1>7. DOMAIN Nodes(m, r) = DOMAIN s /\ \A i \in DOMAIN s : Nodes(m, r)[i] = x(i)
    BY <1>2
  <1>. HIDE DEF s, x
  <1>. QED BY <1>1, <1>5, <1>6, <1>7 DEF Expects

LEMMA WalkStarts ==
  ASSUME forge \in Forges, NEW m \in ForgeMods, NEW r \in Releases
  PROVE  WalkInv([todo |-> Nodes(m, r), out |-> <<>>, lacks |-> FALSE], m, r)
  <1>. DEFINE s == [todo |-> Nodes(m, r), out |-> <<>>, lacks |-> FALSE]
  <1>1. s \in WalkState
    BY NodesFields DEF WalkState
  <1>2. s.todo = Nodes(m, r) /\ s.out = <<>>
    OBVIOUS
  <1>3. InOrder(<<>>, Here) /\ ToSet(<<>>) = {}
    BY DEF InOrder, ToSet
  <1>4. ASSUME NEW i \in DOMAIN Nodes(m, r) PROVE Nodes(m, r)[i].mod \in Below({m})
    <2>1. Nodes(m, r)[i].mod \in Needs(m, r) /\ m \in Below({m})
      BY NodesFields, BelowSelf
    <2>. QED BY <2>1, BelowStep
  <1>. HIDE DEF s
  <1>5. \A c \in Needs(m, r) : \E j \in DOMAIN s.todo : Expects(s.todo, j, m, c)
    BY <1>2, NodesFields
  <1>6. \A i \in DOMAIN s.todo : ~s.todo[i].open
    BY <1>2, NodesFields
  <1>7. WalkInv(s, m, r)
    BY <1>1, <1>2, <1>3, <1>4, <1>5, <1>6 DEF WalkInv
  <1>. QED BY <1>7 DEF s

LEMMA TailFields ==
  ASSUME NEW S, NEW t \in Seq(S), t # <<>>
  PROVE  /\ Head(t) = t[1] /\ 1 \in DOMAIN t /\ t[1] \in S
         /\ Tail(t) \in Seq(S)
         /\ \A i \in DOMAIN Tail(t) : i + 1 \in DOMAIN t /\ Tail(t)[i] = t[i + 1] /\ i \in Nat /\ i # 0
         /\ \A i \in DOMAIN t : i # 1 => i - 1 \in DOMAIN Tail(t) /\ Tail(t)[i - 1] = t[i]
  OBVIOUS

\* What is at the head is done with, so it can leave.
LEMMA HeadLeaves ==
  ASSUME forge \in Forges, NEW m \in ForgeMods, NEW r \in Releases, NEW s, WalkInv(s, m, r), s.todo # <<>>,
         NEW t, t \in WalkState, t.todo = Tail(s.todo), ToSet(s.out) \subseteq ToSet(t.out),
         Covered(s.todo[1].parent, s.todo[1].mod, Here \cup ToSet(t.out)),
         InOrder(t.out, Here), ToSet(t.out) \subseteq Below({m})
  PROVE  WalkInv(t, m, r)
  <1>. DEFINE a == s.todo
              b == t.todo
  <1>1. a \in Seq(Node) /\ a # <<>> /\ b = Tail(a)
    BY DEF WalkInv, WalkState
  <1>. HIDE DEF a, b
  <1>2. /\ 1 \in DOMAIN a /\ a[1] \in Node
        /\ \A i \in DOMAIN b : i + 1 \in DOMAIN a /\ b[i] = a[i + 1] /\ i \in Nat /\ i # 0
        /\ \A i \in DOMAIN a : i # 1 => i - 1 \in DOMAIN b /\ b[i - 1] = a[i]
    BY <1>1, TailFields
  <1>3. DOMAIN a \subseteq Nat
    BY <1>1
  <1>. DEFINE Met(x, c) == Covered(x, c, Here \cup ToSet(t.out))
  <1>4. \A x, c : Covered(x, c, Here \cup ToSet(s.out)) => Met(x, c)
    BY DEF Covered
  <1>5. \A j \in DOMAIN a : \A x, c : Expects(a, j, x, c) => Met(x, c) \/ (j # 1 /\ Expects(b, j - 1, x, c))
    BY <1>2 DEF Expects, a
  <1>. HIDE DEF Met
  <1>6. ASSUME NEW c \in Needs(m, r) PROVE Met(m, c) \/ \E j \in DOMAIN b : Expects(b, j, m, c)
    <2>1. CASE Covered(m, c, Here \cup ToSet(s.out))
      BY <2>1, <1>4
    <2>2. ASSUME NEW j \in DOMAIN a, Expects(a, j, m, c) PROVE Met(m, c) \/ \E k \in DOMAIN b : Expects(b, k, m, c)
      BY <2>2, <1>2, <1>5
    <2>. QED BY <2>1, <2>2 DEF WalkInv, a
  <1>7. ASSUME NEW i \in DOMAIN b, b[i].open, NEW c \in Needs(b[i].mod, Latest)
        PROVE  Met(b[i].mod, c) \/ \E j \in DOMAIN b : j < i /\ Expects(b, j, b[i].mod, c)
    <2>1. i + 1 \in DOMAIN a /\ b[i] = a[i + 1] /\ i \in Nat
      BY <1>2
    <2>. DEFINE x == b[i].mod
    <2>2. Covered(x, c, Here \cup ToSet(s.out)) \/ \E j \in DOMAIN a : j < i + 1 /\ Expects(a, j, x, c)
      BY <1>7, <2>1 DEF WalkInv, a
    <2>. HIDE DEF x
    <2>3. ASSUME NEW j \in DOMAIN a, j < i + 1, Expects(a, j, x, c)
          PROVE  Met(x, c) \/ \E k \in DOMAIN b : k < i /\ Expects(b, k, x, c)
      <3>1. CASE Met(x, c)
        BY <3>1
      <3>2. CASE j # 1 /\ Expects(b, j - 1, x, c)
        <4>1. j - 1 \in DOMAIN b /\ j - 1 < i
          BY <1>2, <1>3, <2>1, <2>3, <3>2
        <4>. QED BY <3>2, <4>1
      <3>. QED BY <1>5, <2>3, <3>1, <3>2
    <2>4. Met(x, c) \/ \E j \in DOMAIN b : j < i /\ Expects(b, j, x, c)
      BY <1>4, <2>2, <2>3
    <2>. QED BY <2>4 DEF x
  <1>8. \A i \in DOMAIN b : b[i].mod \in Below({m})
    BY <1>2 DEF WalkInv, a
  <1>. QED BY <1>6, <1>7, <1>8 DEF WalkInv, Met, b

\* A node that is opened stands after its children.
LEMMA OpenedFields ==
  ASSUME NEW S, NEW a \in Seq(S), a # <<>>, NEW N \in Seq(S), NEW x \in S
  PROVE  LET b == N \o <<x>> \o Tail(a)
             l == Len(N)
         IN /\ l \in Nat /\ b \in Seq(S) /\ DOMAIN b = 1..(l + Len(a)) /\ Len(a) \in Nat /\ DOMAIN a = 1..Len(a)
            /\ DOMAIN N = 1..l
            /\ \A i \in 1..l : b[i] = N[i]
            /\ b[l + 1] = x
            /\ \A i \in 2..Len(a) : b[i + l] = a[i]
  OBVIOUS

LEMMA HeadOpens ==
  ASSUME forge \in Forges, NEW m \in ForgeMods, NEW r \in Releases, NEW s, WalkInv(s, m, r), s.todo # <<>>,
         ~s.todo[1].open,
         NEW t, t \in WalkState, t.out = s.out,
         t.todo = Nodes(s.todo[1].mod, Latest) \o <<[s.todo[1] EXCEPT !.open = TRUE]>> \o Tail(s.todo)
  PROVE  WalkInv(t, m, r)
  <1>. DEFINE a == s.todo
              b == t.todo
              n == a[1]
              N == Nodes(n.mod, Latest)
              x == [n EXCEPT !.open = TRUE]
              l == Len(N)
  <1>1. a \in Seq(Node) /\ a # <<>> /\ 1 \in DOMAIN a /\ n \in Node /\ ~n.open
    BY DEF WalkInv, WalkState
  <1>2. n.mod \in ForgeMods /\ x \in Node /\ x.open /\ x.parent = n.parent /\ x.mod = n.mod
    BY <1>1 DEF Node
  <1>3. /\ N \in Seq(Node)
        /\ \A i \in DOMAIN N : N[i].parent = n.mod /\ ~N[i].open /\ N[i].mod \in Needs(n.mod, Latest)
        /\ \A c \in Needs(n.mod, Latest) : \E j \in DOMAIN N : Expects(N, j, n.mod, c)
    BY <1>2, ForgeFields, NodesFields
  <1>4. b = N \o <<x>> \o Tail(a)
    OBVIOUS
  <1>. HIDE DEF a, b, n, N, x
  <1>5. /\ l \in Nat /\ b \in Seq(Node) /\ DOMAIN b = 1..(l + Len(a)) /\ Len(a) \in Nat /\ DOMAIN a = 1..Len(a)
        /\ DOMAIN N = 1..l
        /\ \A i \in 1..l : b[i] = N[i]
        /\ b[l + 1] = x
        /\ \A i \in 2..Len(a) : b[i + l] = a[i]
    BY <1>1, <1>2, <1>3, <1>4, OpenedFields
  <1>. HIDE DEF l
  <1>. DEFINE Met(y, c) == Covered(y, c, Here \cup ToSet(s.out))
              To(j) == IF j = 1 THEN l + 1 ELSE j + l
  <1>6. \A j \in DOMAIN a : \A y, c : Expects(a, j, y, c) => To(j) \in DOMAIN b /\ Expects(b, To(j), y, c)
    <2>. SUFFICES ASSUME NEW j \in DOMAIN a, NEW y, NEW c, Expects(a, j, y, c)
                  PROVE  To(j) \in DOMAIN b /\ Expects(b, To(j), y, c)
      OBVIOUS
    <2>1. CASE j = 1
      BY <1>1, <1>2, <1>5, <2>1 DEF Expects, n
    <2>2. CASE j # 1
      <3>1. j \in 2..Len(a) /\ j + l \in 1..(l + Len(a))
        BY <1>5, <2>2
      <3>. QED BY <1>5, <2>2, <3>1 DEF Expects
    <2>. QED BY <2>1, <2>2
  <1>. HIDE DEF Met, To
  <1>7. ASSUME NEW c \in Needs(m, r) PROVE Met(m, c) \/ \E j \in DOMAIN b : Expects(b, j, m, c)
    <2>1. Met(m, c) \/ \E j \in DOMAIN a : Expects(a, j, m, c)
      BY DEF WalkInv, Met, a
    <2>. QED BY <1>6, <2>1
  <1>8. ASSUME NEW i \in DOMAIN b, b[i].open, NEW c \in Needs(b[i].mod, Latest)
        PROVE  Met(b[i].mod, c) \/ \E j \in DOMAIN b : j < i /\ Expects(b, j, b[i].mod, c)
    <2>1. i \in 1..(l + Len(a)) /\ i > l
      BY <1>3, <1>5, <1>8
    <2>2. CASE i = l + 1
      <3>1. b[i].mod = n.mod
        BY <1>2, <1>5, <2>2
      <3>2. PICK j \in DOMAIN N : Expects(N, j, n.mod, c)
        BY <1>3, <1>8, <3>1
      <3>3. j \in DOMAIN b /\ j < i /\ Expects(b, j, n.mod, c)
        BY <1>5, <2>2, <3>2 DEF Expects
      <3>. QED BY <3>1, <3>3
    <2>3. CASE i # l + 1
      <3>. DEFINE k == i - l
      <3>1. k \in 2..Len(a) /\ k \in DOMAIN a /\ i = k + l
        BY <1>5, <2>1, <2>3
      <3>2. b[i] = a[k]
        BY <1>5, <3>1
      <3>. HIDE DEF k
      <3>. DEFINE y == b[i].mod
      <3>3. Met(y, c) \/ \E j \in DOMAIN a : j < k /\ Expects(a, j, y, c)
        BY <1>8, <3>1, <3>2 DEF WalkInv, Met, a
      <3>. HIDE DEF y
      <3>4. ASSUME NEW j \in DOMAIN a, j < k, Expects(a, j, y, c) PROVE To(j) < i
        BY <1>5, <3>1, <3>4 DEF To
      <3>5. Met(y, c) \/ \E j \in DOMAIN b : j < i /\ Expects(b, j, y, c)
        BY <1>6, <3>3, <3>4
      <3>. QED BY <3>5 DEF y
    <2>. QED BY <2>2, <2>3
  <1>9. ASSUME NEW i \in DOMAIN b PROVE b[i].mod \in Below({m})
    <2>1. n.mod \in Below({m})
      BY <1>1 DEF WalkInv, a, n
    <2>2. CASE i \in 1..l
      <3>1. b[i].mod \in Needs(n.mod, Latest)
        BY <1>3, <1>5, <2>2
      <3>. QED BY <2>1, <3>1, BelowStep, ForgeFields
    <2>3. CASE i = l + 1
      BY <1>2, <1>5, <2>1, <2>3
    <2>4. CASE i \notin 1..(l + 1)
      <3>1. i - l \in 2..Len(a) /\ i - l \in DOMAIN a /\ i = (i - l) + l
        BY <1>5, <2>4
      <3>2. b[i] = a[i - l]
        BY <1>5, <3>1
      <3>. QED BY <3>1, <3>2 DEF WalkInv, a
    <2>. QED BY <1>5, <2>2, <2>3, <2>4
  <1>10. InOrder(t.out, Here) /\ ToSet(t.out) \subseteq Below({m})
    BY DEF WalkInv
  <1>. QED BY <1>7, <1>8, <1>9, <1>10 DEF WalkInv, Met, b

LEMMA WalkKeeps ==
  ASSUME forge \in Forges, NEW m \in ForgeMods, NEW r \in Releases, NEW s, WalkInv(s, m, r)
  PROVE  WalkInv(WalkStep(s), m, r)
  <1>1. CASE s.todo = <<>>
    BY <1>1 DEF WalkStep
  <1>2. CASE s.todo # <<>>
    <2>. DEFINE n == s.todo[1]
                t == WalkStep(s)
    <2>1. s \in WalkState /\ s.todo \in Seq(Node) /\ s.out \in Seq(ForgeMods) /\ s.lacks \in BOOLEAN
      BY DEF WalkInv, WalkState
    <2>2. n \in Node /\ Head(s.todo) = n /\ Tail(s.todo) \in Seq(Node) /\ 1 \in DOMAIN s.todo
      BY <1>2, <2>1, TailFields
    <2>3. n.mod \in ForgeMods /\ n.mod \in Below({m})
      BY <2>2 DEF WalkInv, Node
    <2>. HIDE DEF n
    <2>4. InOrder(s.out, Here) /\ ToSet(s.out) \subseteq Below({m})
      BY DEF WalkInv
    <2>5. CASE n.open /\ n.mod \in forge.bare
      <3>1. t = [s EXCEPT !.todo = Tail(@), !.lacks = TRUE]
        BY <1>2, <2>2, <2>5 DEF WalkStep
      <3>2. t \in WalkState /\ t.todo = Tail(s.todo) /\ t.out = s.out
        BY <2>1, <2>2, <3>1 DEF WalkState
      <3>3. Covered(n.parent, n.mod, Here \cup ToSet(t.out))
        BY <2>5 DEF Covered
      <3>. HIDE DEF t
      <3>4. WalkInv(t, m, r)
        BY <1>2, <2>4, <3>2, <3>3, HeadLeaves DEF n
      <3>. QED BY <3>4 DEF t
    <2>6. CASE ~n.open /\ PassedOver(n, s.out)
      <3>1. t = [s EXCEPT !.todo = Tail(@)]
        BY <1>2, <2>2, <2>6 DEF WalkStep
      <3>2. t \in WalkState /\ t.todo = Tail(s.todo) /\ t.out = s.out
        BY <2>1, <2>2, <3>1 DEF WalkState
      <3>3. Covered(n.parent, n.mod, Here \cup ToSet(t.out))
        BY <2>6, <3>2 DEF Covered, PassedOver
      <3>. HIDE DEF t
      <3>4. WalkInv(t, m, r)
        BY <1>2, <2>4, <3>2, <3>3, HeadLeaves DEF n
      <3>. QED BY <3>4 DEF t
    <2>7. CASE ~n.open /\ ~PassedOver(n, s.out)
      <3>1. t = [s EXCEPT !.todo = Nodes(n.mod, Latest) \o <<[n EXCEPT !.open = TRUE]>> \o Tail(@)]
        BY <1>2, <2>2, <2>7 DEF WalkStep
      <3>2. Nodes(n.mod, Latest) \in Seq(Node) /\ [n EXCEPT !.open = TRUE] \in Node
        BY <2>2, <2>3, ForgeFields, NodesFields DEF Node
      <3>3. Nodes(n.mod, Latest) \o <<[n EXCEPT !.open = TRUE]>> \o Tail(s.todo) \in Seq(Node)
        BY <1>2, <2>1, <3>2, OpenedFields
      <3>4. t \in WalkState /\ t.out = s.out
            /\ t.todo = Nodes(n.mod, Latest) \o <<[n EXCEPT !.open = TRUE]>> \o Tail(s.todo)
        BY <2>1, <3>1, <3>3 DEF WalkState
      <3>. HIDE DEF t
      <3>5. WalkInv(t, m, r)
        BY <1>2, <2>7, <3>4, HeadOpens DEF n
      <3>. QED BY <3>5 DEF t
    <2>8. CASE n.open /\ n.mod \notin forge.bare
      <3>. DEFINE o == Append(s.out, n.mod)
      <3>1. t = [s EXCEPT !.todo = Tail(@), !.out = o]
        BY <1>2, <2>2, <2>8 DEF WalkStep
      <3>2. /\ o \in Seq(ForgeMods) /\ DOMAIN o = 1..(Len(s.out) + 1) /\ Len(s.out) \in Nat
            /\ DOMAIN s.out = 1..Len(s.out)
            /\ \A i \in DOMAIN s.out : o[i] = s.out[i]
            /\ o[Len(s.out) + 1] = n.mod
        BY <2>1, <2>3
      <3>3. t \in WalkState /\ t.todo = Tail(s.todo) /\ t.out = o
        BY <2>1, <2>2, <3>1, <3>2 DEF WalkState
      <3>. HIDE DEF o, t
      <3>4. ToSet(o) = ToSet(s.out) \cup {n.mod}
        BY <3>2 DEF ToSet
      <3>5. Covered(n.parent, n.mod, Here \cup ToSet(o))
        BY <3>4 DEF Covered
      <3>6. \A i \in DOMAIN s.out : Earlier(o, i) = Earlier(s.out, i)
        BY <3>2 DEF Earlier
      <3>7. Earlier(o, Len(s.out) + 1) = ToSet(s.out)
        <4>1. {k \in DOMAIN o : k < Len(s.out) + 1} = DOMAIN s.out
          BY <3>2
        <4>. QED BY <3>2, <4>1 DEF Earlier, ToSet
      <3>8. \A c \in Needs(n.mod, Latest) : Covered(n.mod, c, Here \cup ToSet(s.out))
        <4>1. \A j \in DOMAIN s.todo : ~(j < 1)
          BY <2>1
        <4>. QED BY <2>2, <2>8, <4>1 DEF WalkInv, n
      <3>9. InOrder(o, Here)
        <4>. SUFFICES ASSUME NEW i \in DOMAIN o, NEW c \in Needs(o[i], Latest)
                      PROVE  Covered(o[i], c, Here \cup Earlier(o, i))
          BY DEF InOrder
        <4>1. CASE i = Len(s.out) + 1
          BY <3>2, <3>7, <3>8, <4>1
        <4>2. CASE i # Len(s.out) + 1
          <5>1. i \in DOMAIN s.out
            BY <3>2, <4>2
          <5>. QED BY <2>4, <3>2, <3>6, <5>1 DEF InOrder
        <4>. QED BY <4>1, <4>2
      <3>10. WalkInv(t, m, r)
        BY <1>2, <2>3, <2>4, <3>3, <3>4, <3>5, <3>9, HeadLeaves DEF n
      <3>. QED BY <3>10 DEF t
    <2>. QED BY <2>5, <2>6, <2>7, <2>8 DEF t
  <1>. QED BY <1>1, <1>2

Walks(m, r, n, W) ==
  W = [k \in 0..n |-> IF k = 0 THEN [todo |-> Nodes(m, r), out |-> <<>>, lacks |-> FALSE] ELSE WalkStep(W[k - 1])]

\* A walk that has come to its end lists what m needs, in order.
LEMMA WalkFields ==
  ASSUME forge \in Forges, NEW m \in ForgeMods, NEW r \in Releases
  PROVE  WalkInv(Walk(m, r), m, r)
  <1>. DEFINE a == [todo |-> Nodes(m, r), out |-> <<>>, lacks |-> FALSE]
              S == {s \in WalkState : WalkInv(s, m, r)}
              F == [s \in S |-> WalkStep(s)]
  <1>1. a \in S
    BY WalkStarts DEF WalkInv
  <1>2. \A s \in S : WalkStep(s) \in S
    <2>1. ASSUME NEW s \in S PROVE WalkStep(s) \in S
      <3>1. WalkInv(WalkStep(s), m, r)
        BY <2>1, WalkKeeps
      <3>2. WalkStep(s) \in WalkState
        BY <3>1 DEF WalkInv
      <3>. QED BY <3>1, <3>2
    <2>. QED BY <2>1
  <1>3. DOMAIN F = S /\ (\A s \in DOMAIN F : F[s] \in DOMAIN F) /\ MaxWalk \in Nat
    BY <1>2, DepsAssumption
  <1>. HIDE DEF a, S, F
  <1>4. PICK V : Repeated(F, a, MaxWalk, V)
    BY <1>1, <1>3, Repeats
  <1>5. \A k \in 0..MaxWalk : V[k] = IF k = 0 THEN a ELSE WalkStep(V[k - 1])
    <2>1. ASSUME NEW k \in 0..MaxWalk, k # 0 PROVE V[k] = WalkStep(V[k - 1])
      <3>1. k \in 1..MaxWalk /\ k - 1 \in 0..MaxWalk
        BY <1>3, <2>1
      <3>2. V[k - 1] \in S /\ V[k] = F[V[k - 1]]
        BY <1>3, <1>4, <3>1 DEF Repeated
      <3>. QED BY <3>2 DEF F
    <2>. QED BY <1>4, <2>1 DEF Repeated
  <1>6. V = [k \in 0..MaxWalk |-> IF k = 0 THEN a ELSE WalkStep(V[k - 1])]
    BY <1>4, <1>5 DEF Repeated
  <1>7. Walks(m, r, MaxWalk, V)
    BY <1>6 DEF Walks, a
  <1>. DEFINE W == CHOOSE f : Walks(m, r, MaxWalk, f)
  <1>8. Walk(m, r) = W[MaxWalk]
    BY DEF Walk, Walks
  <1>9. Walks(m, r, MaxWalk, W)
    BY <1>7
  <1>. HIDE DEF W
  <1>10. W = [k \in 0..MaxWalk |-> IF k = 0 THEN a ELSE WalkStep(W[k - 1])]
    BY <1>9 DEF Walks, a
  <1>11. \A k \in 0..MaxWalk : W[k] = IF k = 0 THEN a ELSE WalkStep(W[k - 1])
    BY <1>10, Zenon
  <1>. DEFINE G == {k \in 0..MaxWalk : W[k] \in S}
  <1>12. 0 \in G
    BY <1>1, <1>3, <1>11
  <1>13. ASSUME NEW k \in 1..MaxWalk, k - 1 \in G PROVE k \in G
    <2>1. k \in 0..MaxWalk /\ k # 0 /\ W[k - 1] \in S
      BY <1>3, <1>13
    <2>. QED BY <1>2, <1>11, <2>1
  <1>14. MaxWalk \in G
    <2>. HIDE DEF G
    <2>. QED BY <1>3, <1>12, <1>13, CarriesOn
  <1>. QED BY <1>8, <1>14 DEF S

------------------------------------------------------------------------------
(* The way back along the edges *)

\* T holds, with a row, all that depend on it.
BackClosed(T) == \A e \in edges : e[2] \in T => e[1] \in T

Found(T) == [todo : Seq(T), found : Seq(T) \ {<<>>}]

LEMMA BackKeeps ==
  ASSUME NEW T \in SUBSET Nat, BackClosed(T), NEW s \in Found(T)
  PROVE  BackStep(s) \in Found(T)
  <1>. DEFINE fresh == {e[1] : e \in {d \in edges : d[2] = Head(s.todo)}} \ ToSet(s.found)
              next == CHOOSE i \in fresh : \A j \in fresh : i <= j
  <1>1. s.todo \in Seq(T) /\ s.found \in Seq(T) /\ s.found # <<>>
    BY DEF Found
  <1>2. CASE s.todo = <<>>
    BY <1>2 DEF BackStep
  <1>3. CASE s.todo # <<>> /\ fresh = {}
    <2>1. BackStep(s) = [s EXCEPT !.todo = Tail(@)]
      BY <1>3 DEF BackStep
    <2>2. Tail(s.todo) \in Seq(T)
      BY <1>1, <1>3
    <2>. QED BY <1>1, <2>1, <2>2 DEF Found
  <1>4. CASE s.todo # <<>> /\ fresh # {}
    <2>1. BackStep(s) = [todo |-> Append(s.todo, next), found |-> Append(s.found, next)]
      BY <1>4 DEF BackStep
    <2>2. Head(s.todo) \in T
      BY <1>1, <1>4
    <2>3. fresh \subseteq T
      BY <2>2 DEF BackClosed
    <2>. HIDE DEF fresh
    <2>4. fresh \subseteq Nat
      BY <2>3
    <2>5. next \in fresh
      <3>1. \E i \in fresh : \A j \in fresh : i <= j
        BY <1>4, <2>4, LeastNat
      <3>. QED BY <3>1
    <2>6. next \in T
      BY <2>3, <2>5
    <2>. HIDE DEF next
    <2>7. Append(s.todo, next) \in Seq(T) /\ Append(s.found, next) \in Seq(T) /\ Append(s.found, next) # <<>>
      BY <1>1, <2>6
    <2>. QED BY <2>1, <2>7 DEF Found
  <1>. QED BY <1>2, <1>3, <1>4

GoesBack(id, n, B) ==
  B = [k \in 0..n |-> IF k = 0 THEN [todo |-> <<id>>, found |-> <<id>>] ELSE BackStep(B[k - 1])]

\* All that a removal finds hangs, by way of edges, on what it began with.
LEMMA DependentsFields ==
  ASSUME nextRow \in Nat, NEW T \in SUBSET Nat, BackClosed(T), NEW id \in T
  PROVE  Dependents(id) \in Seq(T) /\ Dependents(id) # <<>>
  <1>. DEFINE a == [todo |-> <<id>>, found |-> <<id>>]
              n == 2 * nextRow
              S == Found(T)
              F == [s \in S |-> BackStep(s)]
  <1>1. a \in S
    BY DEF Found
  <1>2. \A s \in S : BackStep(s) \in S
    BY BackKeeps
  <1>3. DOMAIN F = S /\ (\A s \in DOMAIN F : F[s] \in DOMAIN F) /\ n \in Nat
    BY <1>2
  <1>. HIDE DEF a, S, F, n
  <1>4. PICK V : Repeated(F, a, n, V)
    BY <1>1, <1>3, Repeats
  <1>5. \A k \in 0..n : V[k] = IF k = 0 THEN a ELSE BackStep(V[k - 1])
    <2>1. ASSUME NEW k \in 0..n, k # 0 PROVE V[k] = BackStep(V[k - 1])
      <3>1. k \in 1..n /\ k - 1 \in 0..n
        BY <1>3, <2>1
      <3>2. V[k - 1] \in S /\ V[k] = F[V[k - 1]]
        BY <1>3, <1>4, <3>1 DEF Repeated
      <3>. QED BY <3>2 DEF F
    <2>. QED BY <1>4, <2>1 DEF Repeated
  <1>6. V = [k \in 0..n |-> IF k = 0 THEN a ELSE BackStep(V[k - 1])]
    BY <1>4, <1>5 DEF Repeated
  <1>7. GoesBack(id, n, V)
    BY <1>6 DEF GoesBack, a
  <1>. DEFINE B == CHOOSE f : GoesBack(id, n, f)
  <1>8. Dependents(id) = B[n].found
    BY DEF Dependents, GoesBack, n
  <1>9. GoesBack(id, n, B)
    BY <1>7
  <1>. HIDE DEF B
  <1>10. B = [k \in 0..n |-> IF k = 0 THEN a ELSE BackStep(B[k - 1])]
    BY <1>9 DEF GoesBack, a
  <1>11. \A k \in 0..n : B[k] = IF k = 0 THEN a ELSE BackStep(B[k - 1])
    BY <1>10, Zenon
  <1>. DEFINE G == {k \in 0..n : B[k] \in S}
  <1>12. 0 \in G
    BY <1>1, <1>3, <1>11
  <1>13. ASSUME NEW k \in 1..n, k - 1 \in G PROVE k \in G
    <2>1. k \in 0..n /\ k # 0 /\ B[k - 1] \in S
      BY <1>3, <1>13
    <2>. QED BY <1>2, <1>11, <2>1
  <1>14. n \in G
    <2>. HIDE DEF G
    <2>. QED BY <1>3, <1>12, <1>13, CarriesOn
  <1>. QED BY <1>8, <1>14 DEF S, Found

LEMMA OrderFields ==
  ASSUME nextRow \in Nat, NEW T \in SUBSET Nat, BackClosed(T), NEW m, modRow[m].id \in T
  PROVE  RemovalOrder(m) \in Seq(T) /\ RemovalOrder(m) # <<>>
  <1>. DEFINE d == Dependents(modRow[m].id)
  <1>1. d \in Seq(T) /\ d # <<>>
    BY DependentsFields
  <1>2. RemovalOrder(m) = [i \in 1..Len(d) |-> d[(Len(d) - i) + 1]]
    BY DEF RemovalOrder, Reverse
  <1>. HIDE DEF d
  <1>3. Len(d) \in Nat /\ Len(d) # 0 /\ \A i \in 1..Len(d) : (Len(d) - i) + 1 \in DOMAIN d
    BY <1>1
  <1>4. \A i \in 1..Len(d) : d[(Len(d) - i) + 1] \in T
    BY <1>1, <1>3
  <1>. QED BY <1>2, <1>3, <1>4

------------------------------------------------------------------------------
(* The invariant *)

\* What is installed or was.
Past == Here \cup everRemoved

\* <<m, i>>: i was given out, and if a row has it then that of m.
Ids == {x \in ForgeMods \X (1..(nextRow - 1)) : \A n \in Here : modRow[n].id = x[2] => n = x[1]}

Errand ==
  [at : {"plan", "deps", "fetched", "edges"}, act : {"install", "update"}, mod : ForgeMods, rel : Releases,
   queued : BOOLEAN, straight : BOOLEAN, row : Nat \cup {Absent}, todo : Seq(ForgeMods),
   got : SUBSET (ForgeMods \X Nat)]

Removal == [at : {"remove"}, mod : ForgeMods, todo : Seq(Nat) \ {<<>>}]

\* What errand e has still to install is in order, and all that its mod needs.
Provides(e, past) ==
  e.at \in {"deps", "fetched"} /\ ~e.straight =>
    /\ InOrder(e.todo, past)
    /\ \A c \in Needs(e.mod, e.rel) : Covered(e.mod, c, past \cup ToSet(e.todo))

SoundEdge(e, past, ids) ==
  \/ e \in Removal
  \/ /\ e \in Errand
     /\ e.act = "install" => ~e.straight
     /\ e.straight => e.at = "deps" /\ e.todo = <<>>
     /\ e.at = "fetched" => e.todo # <<>>
     /\ Provides(e, past)
     /\ ToSet(e.todo) \subseteq Below({e.mod})
     /\ \A g \in e.got : g \in ids /\ g[1] \in Below({e.mod})
     /\ e.at = "edges" => <<e.mod, e.row>> \in ids

ErrandPart ==
  /\ DOMAIN errand = Hands
  /\ \A p \in Hands : errand[p] = Absent \/ SoundEdge(errand[p], Past, Ids)

\* An edge leads to what its mod needs, in some release and through any number.
Leads(E, row) ==
  \A e \in E : \A m, n \in ForgeMods :
    row[m] # Absent /\ row[n] # Absent /\ row[m].id = e[1] /\ row[n].id = e[2] => n \in Below({m})

EdgePart == edges \subseteq Alive \X Alive /\ Leads(edges, modRow)

DepsInv ==
  ModRowsPart /\ requests \in 0..MaxAsked /\ ErrandPart /\ EdgePart /\ NeedsArePresent /\ OnlyDependentsGo

LEMMA CoveredGrows ==
  ASSUME NEW S, NEW T, S \subseteq T, NEW m, NEW c, Covered(m, c, S)
  PROVE  Covered(m, c, T)
  BY DEF Covered

LEMMA SoundGrows ==
  ASSUME NEW e, NEW past, NEW ids, SoundEdge(e, past, ids), NEW past2, NEW ids2, past \subseteq past2, ids \subseteq ids2
  PROVE  SoundEdge(e, past2, ids2)
  <1>1. Provides(e, past) => Provides(e, past2)
    <2>. SUFFICES ASSUME e.at \in {"deps", "fetched"}, ~e.straight, InOrder(e.todo, past),
                         \A c \in Needs(e.mod, e.rel) : Covered(e.mod, c, past \cup ToSet(e.todo))
                  PROVE  InOrder(e.todo, past2)
                         /\ \A c \in Needs(e.mod, e.rel) : Covered(e.mod, c, past2 \cup ToSet(e.todo))
      BY DEF Provides
    <2>1. InOrder(e.todo, past2)
      BY DEF InOrder, Covered
    <2>2. \A c \in Needs(e.mod, e.rel) : Covered(e.mod, c, past2 \cup ToSet(e.todo))
      BY DEF Covered
    <2>. QED BY <2>1, <2>2
  <1>. QED BY <1>1 DEF SoundEdge

\* The Forge stays as it is, so the primed notions are the same.
LEMMA SamePrimed ==
  ASSUME forge' = forge
  PROVE  /\ \A m, r : Needs(m, r)' = Needs(m, r)
         /\ \A m : Below({m})' = Below({m})
         /\ \A m, c, S : Covered(m, c, S)' <=> Covered(m, c, S)
  BY DEF Needs, Below, Closed, Covered, ToSet

LEMMA ErrandsPrimed ==
  ASSUME forge' = forge, DOMAIN errand' = Hands,
         \A p \in Hands : errand'[p] = Absent \/ SoundEdge(errand'[p], Past', Ids')
  PROVE  ErrandPart'
  <1>1. \A s, S : InOrder(s, S)' <=> InOrder(s, S)
    BY DEF InOrder, Needs, Covered, Earlier, ToSet
  <1>2. \A e, past : Provides(e, past)' <=> Provides(e, past)
    BY DEF Provides, InOrder, Needs, Covered, Earlier, ToSet
  <1>3. \A e, past, ids : SoundEdge(e, past, ids)' <=> SoundEdge(e, past, ids)
    BY DEF SoundEdge, Provides, InOrder, Needs, Covered, Earlier, ToSet, Below, Closed, Errand, Removal
  <1>. QED BY <1>3 DEF ErrandPart, Hands

LEMMA EdgesPrimed ==
  ASSUME forge' = forge, edges' \subseteq Alive' \X Alive', Leads(edges', modRow')
  PROVE  EdgePart'
  BY SamePrimed DEF EdgePart, Leads

LEMMA NeedsPrimed ==
  ASSUME forge' = forge,
         \A m \in Here' \ unresolved' : \A c \in Needs(m, modRow'[m].rel) : Covered(m, c, Past')
  PROVE  NeedsArePresent'
  <1>1. Past' = Here' \cup everRemoved'
    BY DEF Past
  <1>. QED BY <1>1 DEF NeedsArePresent, Satisfied, NeedsNow, Needs, Covered

------------------------------------------------------------------------------
(* What may happen to the rows *)

RowsHold == ModRowsPart /\ EdgePart /\ NeedsArePresent

\* Nothing that was there is lost, and no id is given to another mod.
Grows == Past \subseteq Past' /\ Ids \subseteq Ids'

LEMMA HereFields ==
  ASSUME ModRowsPart
  PROVE  /\ Here \subseteq ForgeMods
         /\ \A m \in Here : modRow[m].id \in 1..(nextRow - 1) /\ modRow[m].rel \in Releases
                            /\ modRow[m] \in [id : 1..(nextRow - 1), rel : Releases]
         /\ Alive \subseteq 1..(nextRow - 1)
         /\ \A m \in Here : <<m, modRow[m].id>> \in Ids
  <1>1. \A m \in Here : m \in ForgeMods /\ modRow[m] \in [id : 1..(nextRow - 1), rel : Releases]
    BY DEF ModRowsPart, Here
  <1>2. \A m \in Here : modRow[m].id \in 1..(nextRow - 1) /\ modRow[m].rel \in Releases
    BY <1>1
  <1>3. \A m \in Here : <<m, modRow[m].id>> \in Ids
    BY <1>1, <1>2 DEF Ids, ModRowsPart
  <1>. QED BY <1>1, <1>2, <1>3 DEF Alive

LEMMA SatisfiedFields ==
  ASSUME NeedsArePresent, NEW m \in Here \ unresolved, NEW c \in Needs(m, modRow[m].rel)
  PROVE  Covered(m, c, Past)
  BY DEF NeedsArePresent, Satisfied, NeedsNow, Needs, Covered, Past

LEMMA RowInserted ==
  ASSUME RowsHold, NEW m \in ForgeMods, m \notin Here, NEW r \in Releases, InsertModRow(m, r),
         UNCHANGED <<forge, edges, everRemoved, unresolved>>,
         \A c \in Needs(m, r) : Covered(m, c, Past)
  PROVE  RowsHold' /\ Grows /\ m \in Here' /\ <<m, nextRow>> \in Ids'
  <1>. DEFINE new == [id |-> nextRow, rel |-> r]
  <1>1. ModRowsPart /\ EdgePart /\ NeedsArePresent
    BY DEF RowsHold
  <1>2. /\ modRow' \in [ForgeMods -> [id : 1..nextRow, rel : Releases] \cup {Absent}]
        /\ modRow'[m] = new /\ (\A n \in ForgeMods : n # m => modRow'[n] = modRow[n])
        /\ nextRow \in Nat \ {0} /\ nextRow' = nextRow + 1
    <2>1. modRow \in [ForgeMods -> [id : 1..(nextRow - 1), rel : Releases] \cup {Absent}] /\ nextRow \in Nat \ {0}
      BY <1>1 DEF ModRowsPart
    <2>2. [id : 1..(nextRow - 1), rel : Releases] \subseteq [id : 1..nextRow, rel : Releases]
      BY <2>1
    <2>3. new \in [id : 1..nextRow, rel : Releases]
      BY <2>1
    <2>4. modRow' = [modRow EXCEPT ![m] = new] /\ nextRow' = nextRow + 1
      BY DEF InsertModRow
    <2>. HIDE DEF new
    <2>. QED BY <2>1, <2>2, <2>3, <2>4
  <1>3. new # Absent /\ new.id = nextRow /\ new.rel = r
    <2>1. new \in [id : Nat, rel : Releases]
      BY <1>2
    <2>. QED BY <2>1, DepsAssumption
  <1>. HIDE DEF new
  <1>4. Here' = Here \cup {m}
    BY <1>2, <1>3 DEF Here
  <1>5. /\ Here \subseteq ForgeMods
        /\ \A n \in Here : modRow[n].id \in 1..(nextRow - 1) /\ modRow[n].id # nextRow /\ modRow'[n] = modRow[n]
    BY <1>1, <1>2, HereFields
  <1>6. ModRowsPart'
    <2>1. modRow' \in [ForgeMods -> [id : 1..(nextRow' - 1), rel : Releases] \cup {Absent}]
      <3>1. nextRow' - 1 = nextRow
        BY <1>2
      <3>. QED BY <1>2, <3>1
    <2>2. \A a, b \in Here' : modRow'[a].id = modRow'[b].id => a = b
      BY <1>1, <1>2, <1>3, <1>4, <1>5 DEF ModRowsPart
    <2>. QED BY <1>1, <1>2, <2>1, <2>2 DEF ModRowsPart
  <1>7. Past' = Past \cup {m}
    BY <1>4 DEF Past
  <1>8. Ids' = {x \in ForgeMods \X (1..nextRow) : \A n \in Here' : modRow'[n].id = x[2] => n = x[1]}
    <2>1. nextRow' - 1 = nextRow
      BY <1>2
    <2>. QED BY <2>1 DEF Ids
  <1>9. Ids \subseteq Ids'
    <2>. SUFFICES ASSUME NEW x \in Ids PROVE x \in Ids'
      OBVIOUS
    <2>1. x \in ForgeMods \X (1..(nextRow - 1)) /\ \A n \in Here : modRow[n].id = x[2] => n = x[1]
      BY DEF Ids
    <2>2. x \in ForgeMods \X (1..nextRow) /\ x[2] # nextRow
      BY <1>2, <2>1
    <2>. QED BY <1>2, <1>3, <1>4, <1>5, <1>8, <2>1, <2>2
  <1>10. <<m, nextRow>> \in Ids'
    <2>1. <<m, nextRow>> \in ForgeMods \X (1..nextRow)
      BY <1>2
    <2>. QED BY <1>4, <1>5, <1>8, <2>1
  <1>11. EdgePart'
    <2>1. Alive \subseteq Alive'
      BY <1>4, <1>5 DEF Alive
    <2>2. edges \subseteq Alive \X Alive /\ Leads(edges, modRow)
      BY <1>1 DEF EdgePart
    <2>3. \A e \in edges : e[1] # nextRow /\ e[2] # nextRow
      BY <1>1, <1>2, <2>2, HereFields
    <2>4. Leads(edges, modRow')
      BY <1>2, <1>3, <2>2, <2>3 DEF Leads
    <2>. QED BY <2>1, <2>2, <2>4, EdgesPrimed
  <1>12. NeedsArePresent'
    <2>. SUFFICES ASSUME NEW n \in Here' \ unresolved', NEW c \in Needs(n, modRow'[n].rel)
                  PROVE  Covered(n, c, Past')
      BY NeedsPrimed
    <2>1. Covered(n, c, Past)
      BY <1>1, <1>2, <1>3, <1>4, <1>5, SatisfiedFields
    <2>. QED BY <1>7, <2>1, CoveredGrows
  <1>. QED BY <1>4, <1>6, <1>7, <1>9, <1>10, <1>11, <1>12 DEF RowsHold, Grows

\* A release is set only where all that it needs is there, or the mod is marked.
LEMMA RowSwapped ==
  ASSUME RowsHold, NEW m \in Here, NEW r \in Releases, modRow' = [modRow EXCEPT ![m].rel = r],
         UNCHANGED <<forge, edges, nextRow, everRemoved>>, unresolved' \subseteq ForgeMods,
         unresolved \subseteq unresolved' \cup {m},
         m \in unresolved' \/ \A c \in Needs(m, r) : Covered(m, c, Past)
  PROVE  RowsHold' /\ Grows
  <1>1. ModRowsPart /\ EdgePart /\ NeedsArePresent
    BY DEF RowsHold
  <1>2. /\ m \in ForgeMods /\ modRow[m] # Absent
        /\ modRow[m] \in [id : 1..(nextRow - 1), rel : Releases]
    BY <1>1, HereFields DEF Here
  <1>. DEFINE new == [modRow[m] EXCEPT !.rel = r]
  <1>3. modRow \in [ForgeMods -> [id : 1..(nextRow - 1), rel : Releases] \cup {Absent}] /\ nextRow \in Nat \ {0}
    BY <1>1 DEF ModRowsPart
  <1>4. /\ new \in [id : 1..(nextRow - 1), rel : Releases] /\ new.id = modRow[m].id /\ new.rel = r
        /\ modRow' = [modRow EXCEPT ![m] = new]
    BY <1>2
  <1>5. new # Absent
    <2>1. new \in [id : Nat, rel : Releases]
      BY <1>3, <1>4
    <2>. QED BY <2>1, DepsAssumption
  <1>. HIDE DEF new
  <1>6. /\ modRow' \in [ForgeMods -> [id : 1..(nextRow - 1), rel : Releases] \cup {Absent}]
        /\ modRow'[m] = new /\ (\A n \in ForgeMods : n # m => modRow'[n] = modRow[n])
    BY <1>2, <1>3, <1>4
  <1>7. Here' = Here /\ \A n \in Here : n \in ForgeMods /\ modRow'[n].id = modRow[n].id
    BY <1>2, <1>4, <1>5, <1>6 DEF Here
  <1>8. Past' = Past /\ Alive' = Alive
    BY <1>7 DEF Past, Alive
  <1>9. Ids' = Ids
    BY <1>7 DEF Ids
  <1>10. ModRowsPart'
    BY <1>1, <1>6, <1>7 DEF ModRowsPart
  <1>11. EdgePart'
    <2>1. edges \subseteq Alive \X Alive /\ Leads(edges, modRow)
      BY <1>1 DEF EdgePart
    <2>2. \A n \in ForgeMods : modRow'[n] # Absent => modRow[n] # Absent /\ modRow'[n].id = modRow[n].id
      BY <1>2, <1>4, <1>6
    <2>3. Leads(edges, modRow')
      BY <2>1, <2>2 DEF Leads
    <2>. QED BY <1>8, <2>1, <2>3, EdgesPrimed
  <1>12. NeedsArePresent'
    <2>. SUFFICES ASSUME NEW n \in Here' \ unresolved', NEW c \in Needs(n, modRow'[n].rel)
                  PROVE  Covered(n, c, Past')
      BY NeedsPrimed
    <2>1. CASE n = m
      BY <1>4, <1>6, <1>8, <2>1
    <2>2. CASE n # m
      BY <1>1, <1>6, <1>7, <1>8, <2>2, SatisfiedFields
    <2>. QED BY <2>1, <2>2
  <1>. QED BY <1>8, <1>9, <1>10, <1>11, <1>12 DEF RowsHold, Grows

\* What is removed is remembered.
LEMMA RowsDropped ==
  ASSUME RowsHold, NEW ids, DropRows(ids), UNCHANGED <<forge, nextRow>>
  PROVE  RowsHold' /\ Grows
  <1>1. ModRowsPart /\ EdgePart /\ NeedsArePresent
    BY DEF RowsHold
  <1>. DEFINE gone == {m \in Here : modRow[m].id \in ids}
  <1>2. /\ modRow' = [m \in ForgeMods |-> IF m \in gone THEN Absent ELSE modRow[m]]
        /\ edges' = {e \in edges : e[1] \notin ids /\ e[2] \notin ids}
        /\ everRemoved' = everRemoved \cup gone
        /\ unresolved' = unresolved \ gone
    BY DEF DropRows
  <1>3. gone \subseteq Here /\ \A m \in Here : m \in gone <=> modRow[m].id \in ids
    OBVIOUS
  <1>. HIDE DEF gone
  <1>4. Here' = Here \ gone /\ Here \subseteq ForgeMods /\ \A m \in Here' : modRow'[m] = modRow[m]
    BY <1>2, <1>3 DEF Here
  <1>5. Past' = Past
    BY <1>2, <1>3, <1>4 DEF Past
  <1>6. Ids \subseteq Ids'
    BY <1>4 DEF Ids
  <1>7. ModRowsPart'
    <2>1. modRow' \in [ForgeMods -> [id : 1..(nextRow - 1), rel : Releases] \cup {Absent}]
      BY <1>1, <1>2 DEF ModRowsPart
    <2>2. everRemoved' \cup unresolved' \subseteq ForgeMods
      BY <1>1, <1>2, <1>3, <1>4 DEF ModRowsPart
    <2>3. \A m, n \in Here' : modRow'[m].id = modRow'[n].id => m = n
      BY <1>1, <1>4 DEF ModRowsPart
    <2>. QED BY <1>1, <2>1, <2>2, <2>3 DEF ModRowsPart
  <1>8. EdgePart'
    <2>1. edges \subseteq Alive \X Alive /\ Leads(edges, modRow)
      BY <1>1 DEF EdgePart
    <2>2. \A i \in Alive : i \notin ids => i \in Alive'
      BY <1>3, <1>4 DEF Alive
    <2>3. edges' \subseteq edges /\ edges' \subseteq Alive' \X Alive'
      BY <1>2, <2>1, <2>2
    <2>4. \A n \in ForgeMods : modRow'[n] # Absent => modRow'[n] = modRow[n]
      BY <1>2
    <2>5. Leads(edges', modRow')
      BY <2>1, <2>3, <2>4 DEF Leads
    <2>. QED BY <2>3, <2>5, EdgesPrimed
  <1>9. NeedsArePresent'
    <2>. SUFFICES ASSUME NEW n \in Here' \ unresolved', NEW c \in Needs(n, modRow'[n].rel)
                  PROVE  Covered(n, c, Past')
      BY NeedsPrimed
    <2>. QED BY <1>1, <1>2, <1>4, <1>5, SatisfiedFields
  <1>. QED BY <1>5, <1>6, <1>7, <1>8, <1>9 DEF RowsHold, Grows

LEMMA RowsUntouched ==
  ASSUME RowsHold, UNCHANGED <<forge, modRow, edges, nextRow, everRemoved, unresolved>>
  PROVE  RowsHold' /\ Grows /\ Past' = Past /\ Ids' = Ids /\ Here' = Here
  <1>1. Here' = Here /\ Alive' = Alive
    BY DEF Here, Alive
  <1>2. Past' = Past /\ Ids' = Ids
    BY <1>1 DEF Past, Ids
  <1>3. ModRowsPart'
    BY <1>1 DEF RowsHold, ModRowsPart
  <1>4. EdgePart'
    BY <1>1, EdgesPrimed DEF RowsHold, EdgePart
  <1>5. NeedsArePresent'
    BY <1>1, <1>2, NeedsPrimed, SatisfiedFields DEF RowsHold
  <1>. QED BY <1>1, <1>2, <1>3, <1>4, <1>5 DEF RowsHold, Grows

------------------------------------------------------------------------------
(* The steps *)

LEMMA ErrandChanges ==
  ASSUME ErrandPart, Grows, forge' = forge, NEW p \in Hands, NEW e, Does(p, e),
         e = Absent \/ SoundEdge(e, Past', Ids')
  PROVE  ErrandPart'
  <1>1. DOMAIN errand = Hands /\ \A q \in Hands : errand[q] = Absent \/ SoundEdge(errand[q], Past, Ids)
    BY DEF ErrandPart
  <1>2. DOMAIN errand' = Hands /\ errand'[p] = e /\ \A q \in Hands : q # p => errand'[q] = errand[q]
    BY <1>1 DEF Does
  <1>3. ASSUME NEW q \in Hands PROVE errand'[q] = Absent \/ SoundEdge(errand'[q], Past', Ids')
    <2>1. CASE q = p
      BY <1>2, <2>1
    <2>2. CASE q # p /\ errand[q] # Absent
      <3>1. SoundEdge(errand[q], Past, Ids)
        BY <1>1, <2>2
      <3>2. Past \subseteq Past' /\ Ids \subseteq Ids'
        BY DEF Grows
      <3>3. SoundEdge(errand[q], Past', Ids')
        BY <3>1, <3>2, SoundGrows
      <3>. QED BY <1>2, <2>2, <3>3
    <2>3. CASE q # p /\ errand[q] = Absent
      BY <1>2, <2>3
    <2>. QED BY <2>1, <2>2, <2>3
  <1>. QED BY <1>2, <1>3, ErrandsPrimed

LEMMA ErrandsStay ==
  ASSUME ErrandPart, Grows, UNCHANGED <<forge, errand>>
  PROVE  ErrandPart'
  <1>1. DOMAIN errand' = Hands /\ \A q \in Hands : errand[q] = Absent \/ SoundEdge(errand[q], Past, Ids)
    BY DEF ErrandPart
  <1>2. ASSUME NEW q \in Hands, SoundEdge(errand[q], Past, Ids) PROVE SoundEdge(errand[q], Past', Ids')
    <2>1. Past \subseteq Past' /\ Ids \subseteq Ids'
      BY DEF Grows
    <2>. QED BY <1>2, <2>1, SoundGrows
  <1>3. \A q \in Hands : errand'[q] = Absent \/ SoundEdge(errand'[q], Past', Ids')
    BY <1>1, <1>2
  <1>. QED BY <1>1, <1>3, ErrandsPrimed

LEMMA LostStays ==
  ASSUME OnlyDependentsGo, UNCHANGED <<forge, lost>>
  PROVE  OnlyDependentsGo'
  BY SamePrimed DEF OnlyDependentsGo

\* An errand that is not a removal.
LEMMA ErrandFields ==
  ASSUME ErrandPart, NEW p \in Hands, errand[p] # Absent, errand[p].at # "remove"
  PROVE  LET e == errand[p] IN
           /\ SoundEdge(e, Past, Ids) /\ e \in Errand
           /\ e.at \in {"plan", "deps", "fetched", "edges"} /\ e.act \in {"install", "update"}
           /\ e.mod \in ForgeMods /\ e.rel \in Releases /\ e.todo \in Seq(ForgeMods)
           /\ e.got \in SUBSET (ForgeMods \X Nat)
           /\ e.act = "install" => ~e.straight
           /\ e.straight => e.at = "deps" /\ e.todo = <<>>
           /\ e.at = "fetched" => e.todo # <<>>
           /\ Provides(e, Past)
           /\ ToSet(e.todo) \subseteq Below({e.mod})
           /\ \A g \in e.got : g \in Ids /\ g[1] \in Below({e.mod})
           /\ e.at = "edges" => <<e.mod, e.row>> \in Ids
  <1>1. SoundEdge(errand[p], Past, Ids)
    BY DEF ErrandPart
  <1>2. errand[p] \notin Removal
    BY DEF Removal
  <1>. QED BY <1>1, <1>2 DEF SoundEdge, Errand

\* The head of the list has what it needs; once it is there too, the rest is in order.
LEMMA OrderGoesOn ==
  ASSUME NEW s \in Seq(ForgeMods), s # <<>>, NEW P, InOrder(s, P)
  PROVE  /\ s[1] \in ForgeMods /\ Head(s) = s[1] /\ Tail(s) \in Seq(ForgeMods)
         /\ ToSet(Tail(s)) \subseteq ToSet(s) /\ s[1] \in ToSet(s)
         /\ \A c \in Needs(s[1], Latest) : Covered(s[1], c, P)
         /\ \A Q : P \subseteq Q /\ s[1] \in Q =>
              /\ InOrder(Tail(s), Q)
              /\ \A m, c : Covered(m, c, P \cup ToSet(s)) => Covered(m, c, Q \cup ToSet(Tail(s)))
  <1>. DEFINE t == Tail(s)
  <1>1. /\ Head(s) = s[1] /\ 1 \in DOMAIN s /\ s[1] \in ForgeMods
        /\ t \in Seq(ForgeMods)
        /\ \A i \in DOMAIN t : i + 1 \in DOMAIN s /\ t[i] = s[i + 1] /\ i \in Nat /\ i # 0
        /\ \A i \in DOMAIN s : i # 1 => i - 1 \in DOMAIN t /\ t[i - 1] = s[i]
    BY TailFields
  <1>2. DOMAIN s \subseteq Nat \ {0}
    OBVIOUS
  <1>. HIDE DEF t
  <1>3. ToSet(s) = ToSet(t) \cup {s[1]}
    <2>1. \A i \in DOMAIN s : s[i] = s[1] \/ s[i] \in ToSet(t)
      BY <1>1 DEF ToSet
    <2>2. \A i \in DOMAIN t : t[i] \in ToSet(s)
      BY <1>1 DEF ToSet
    <2>. QED BY <1>1, <2>1, <2>2 DEF ToSet
  <1>4. Earlier(s, 1) = {}
    BY <1>2 DEF Earlier
  <1>5. \A c \in Needs(s[1], Latest) : Covered(s[1], c, P)
    BY <1>1, <1>4 DEF InOrder
  <1>6. ASSUME NEW Q, P \subseteq Q, s[1] \in Q PROVE InOrder(t, Q)
    <2>. SUFFICES ASSUME NEW i \in DOMAIN t, NEW c \in Needs(t[i], Latest) PROVE Covered(t[i], c, Q \cup Earlier(t, i))
      BY DEF InOrder
    <2>1. Covered(t[i], c, P \cup Earlier(s, i + 1))
      BY <1>1 DEF InOrder
    <2>2. Earlier(s, i + 1) \subseteq Earlier(t, i) \cup {s[1]}
      <3>. SUFFICES ASSUME NEW j \in DOMAIN s, j < i + 1, j # 1 PROVE s[j] \in Earlier(t, i)
        BY DEF Earlier
      <3>1. j - 1 \in DOMAIN t /\ t[j - 1] = s[j] /\ i \in Nat /\ j \in Nat
        BY <1>1, <1>2
      <3>2. j - 1 < i
        BY <3>1
      <3>. QED BY <3>1, <3>2 DEF Earlier
    <2>. QED BY <1>6, <2>1, <2>2 DEF Covered
  <1>7. \A Q : P \subseteq Q /\ s[1] \in Q =>
          \A m, c : Covered(m, c, P \cup ToSet(s)) => Covered(m, c, Q \cup ToSet(t))
    BY <1>3 DEF Covered
  <1>. QED BY <1>1, <1>3, <1>5, <1>6, <1>7 DEF t

LEMMA Begins ==
  ASSUME DepsInv, NEW p \in Hands, NEW act \in {"install", "update"}, NEW at \in {"plan", "deps"},
         NEW m \in ForgeMods, NEW r \in Releases, NEW queued \in BOOLEAN, Begin(p, act, at, m, r, queued),
         act = "install" => at = "plan"
  PROVE  DepsInv'
  <1>. DEFINE e == [at |-> at, act |-> act, mod |-> m, rel |-> r, queued |-> queued,
                    straight |-> at = "deps", row |-> IF m \in Here THEN modRow[m].id ELSE Absent,
                    todo |-> <<>>, got |-> {}]
  <1>1. Does(p, e) /\ Asked /\ UNCHANGED <<forge, modRow, edges, nextRow, ghosts>>
    BY DEF Begin
  <1>2. RowsHold /\ requests \in 0..MaxAsked /\ MaxAsked \in Nat /\ ErrandPart /\ OnlyDependentsGo
    BY DepsAssumption DEF DepsInv, RowsHold
  <1>3. e \in Errand
    <2>1. (IF m \in Here THEN modRow[m].id ELSE Absent) \in Nat \cup {Absent}
      BY <1>2, HereFields DEF RowsHold
    <2>2. <<>> \in Seq(ForgeMods) /\ {} \in SUBSET (ForgeMods \X Nat) /\ (at = "deps") \in BOOLEAN
      OBVIOUS
    <2>. QED BY <2>1, <2>2 DEF Errand
  <1>4. e.at = at /\ e.act = act /\ e.straight = (at = "deps") /\ e.todo = <<>> /\ e.got = {}
    OBVIOUS
  <1>. HIDE DEF e
  <1>5. Provides(e, Past')
    BY <1>4 DEF Provides
  <1>6. ToSet(<<>>) = {}
    BY DEF ToSet
  <1>7. SoundEdge(e, Past', Ids')
    BY <1>3, <1>4, <1>5, <1>6 DEF SoundEdge
  <1>8. RowsHold' /\ Grows
    BY <1>1, <1>2, RowsUntouched DEF ghosts
  <1>9. ErrandPart' /\ OnlyDependentsGo'
    BY <1>1, <1>2, <1>7, <1>8, ErrandChanges, LostStays DEF ghosts
  <1>10. requests' \in 0..MaxAsked
    BY <1>1, <1>2 DEF Asked
  <1>. QED BY <1>8, <1>9, <1>10 DEF DepsInv, RowsHold

\* A step of an errand that leaves the rows alone.
LEMMA ErrandOnly ==
  ASSUME DepsInv, NEW p \in Hands, NEW e, Does(p, e), UNCHANGED <<forge, requests, modRow, edges, nextRow, ghosts>>,
         e = Absent \/ SoundEdge(e, Past, Ids)
  PROVE  DepsInv'
  <1>1. RowsHold' /\ Grows /\ Past' = Past /\ Ids' = Ids
    BY RowsUntouched DEF ghosts, DepsInv, RowsHold
  <1>2. ErrandPart'
    BY <1>1, ErrandChanges DEF DepsInv
  <1>3. OnlyDependentsGo'
    BY LostStays DEF DepsInv, ghosts
  <1>. QED BY <1>1, <1>2, <1>3 DEF DepsInv, RowsHold

LEMMA Plans ==
  ASSUME DepsInv, NEW p \in Hands, MakePlan(p)
  PROVE  DepsInv'
  <1>. DEFINE e == errand[p]
              w == Walk(e.mod, e.rel)
              u == [e EXCEPT !.at = "deps", !.todo = w.out]
  <1>1. e # Absent /\ e.at = "plan" /\ w.todo = <<>>
        /\ UNCHANGED <<forge, requests, modRow, edges, nextRow, ghosts>>
        /\ (Does(p, Absent) \/ Does(p, u))
    BY DEF MakePlan, Doing, Ends
  <1>2. ModRowsPart /\ ErrandPart
    BY DEF DepsInv
  <1>3. /\ SoundEdge(e, Past, Ids) /\ e \in Errand /\ e.mod \in ForgeMods /\ e.rel \in Releases
        /\ e.act = "install" => ~e.straight
        /\ e.straight => e.at = "deps" /\ e.todo = <<>>
        /\ \A g \in e.got : g \in Ids /\ g[1] \in Below({e.mod})
    BY <1>1, <1>2, ErrandFields
  <1>4. WalkInv(w, e.mod, e.rel)
    BY <1>2, <1>3, WalkFields DEF ModRowsPart
  <1>5. w \in WalkState /\ w.out \in Seq(ForgeMods) /\ InOrder(w.out, Here)
        /\ ToSet(w.out) \subseteq Below({e.mod})
    BY <1>4 DEF WalkInv, WalkState
  <1>6. \A c \in Needs(e.mod, e.rel) : Covered(e.mod, c, Here \cup ToSet(w.out))
    <2>1. DOMAIN w.todo = {}
      BY <1>1
    <2>. QED BY <1>4, <2>1 DEF WalkInv
  <1>7. ~e.straight
    BY <1>1, <1>3
  <1>8. /\ u \in Errand /\ u.at = "deps" /\ u.todo = w.out /\ u.mod = e.mod /\ u.rel = e.rel /\ u.got = e.got
        /\ ~u.straight /\ u.act = e.act
    BY <1>3, <1>5, <1>7 DEF Errand
  <1>. HIDE DEF e, w, u
  <1>9. Provides(u, Past)
    <2>1. InOrder(w.out, Past)
      BY <1>5 DEF InOrder, Covered, Past
    <2>2. \A c \in Needs(e.mod, e.rel) : Covered(e.mod, c, Past \cup ToSet(w.out))
      BY <1>6 DEF Covered, Past
    <2>. QED BY <1>8, <2>1, <2>2 DEF Provides
  <1>10. SoundEdge(u, Past, Ids)
    BY <1>3, <1>5, <1>8, <1>9 DEF SoundEdge
  <1>. QED BY <1>1, <1>10, ErrandOnly

\* The head of the list is there now, in the row with id i.
LEMMA HeadDone ==
  ASSUME NEW e \in Errand, NEW past, NEW ids, e.todo # <<>>, e.at \in {"deps", "fetched"},
         e.act = "install" => ~e.straight,
         e.straight => e.at = "deps" /\ e.todo = <<>>,
         Provides(e, past), ToSet(e.todo) \subseteq Below({e.mod}),
         \A g \in e.got : g \in ids /\ g[1] \in Below({e.mod}),
         NEW past2, NEW ids2, past \subseteq past2, ids \subseteq ids2, e.todo[1] \in past2,
         NEW i \in Nat, <<e.todo[1], i>> \in ids2,
         NEW u, u = [e EXCEPT !.at = "deps", !.todo = Tail(@), !.got = @ \cup {<<e.todo[1], i>>}]
  PROVE  SoundEdge(u, past2, ids2)
  <1>1. /\ e.todo \in Seq(ForgeMods) /\ ~e.straight /\ InOrder(e.todo, past)
        /\ \A c \in Needs(e.mod, e.rel) : Covered(e.mod, c, past \cup ToSet(e.todo))
        /\ e.got \in SUBSET (ForgeMods \X Nat)
    BY DEF Provides, Errand
  <1>2. /\ e.todo[1] \in ForgeMods /\ Tail(e.todo) \in Seq(ForgeMods)
        /\ ToSet(Tail(e.todo)) \subseteq ToSet(e.todo) /\ e.todo[1] \in ToSet(e.todo)
        /\ InOrder(Tail(e.todo), past2)
        /\ \A m, c : Covered(m, c, past \cup ToSet(e.todo)) => Covered(m, c, past2 \cup ToSet(Tail(e.todo)))
    BY <1>1, OrderGoesOn
  <1>. DEFINE g2 == e.got \cup {<<e.todo[1], i>>}
  <1>3. g2 \in SUBSET (ForgeMods \X Nat)
    BY <1>1, <1>2
  <1>4. /\ u \in Errand /\ u.at = "deps" /\ u.todo = Tail(e.todo) /\ u.got = g2 /\ u.mod = e.mod /\ u.rel = e.rel
        /\ ~u.straight
    BY <1>1, <1>2, <1>3 DEF Errand
  <1>5. Provides(u, past2)
    BY <1>1, <1>2, <1>4 DEF Provides
  <1>6. ASSUME NEW g \in g2 PROVE g \in ids2 /\ g[1] \in Below({e.mod})
    <2>1. e.todo[1] \in Below({e.mod})
      BY <1>2
    <2>2. CASE g \in e.got
      BY <2>2
    <2>3. CASE g = <<e.todo[1], i>>
      <3>1. g[1] = e.todo[1]
        BY <2>3
      <3>. QED BY <2>1, <2>3, <3>1
    <2>. QED BY <2>2, <2>3
  <1>. HIDE DEF g2
  <1>7. ToSet(u.todo) \subseteq Below({u.mod})
    BY <1>2, <1>4
  <1>. QED BY <1>4, <1>5, <1>6, <1>7 DEF SoundEdge

LEMMA DepPassed ==
  ASSUME DepsInv, NEW p \in Hands, PassDep(p)
  PROVE  DepsInv'
  <1>. DEFINE e == errand[p]
              n == Head(e.todo)
              u == [e EXCEPT !.todo = Tail(@), !.got = @ \cup {<<n, modRow[n].id>>}]
  <1>1. e # Absent /\ e.at = "deps" /\ e.todo # <<>> /\ n \in Here
        /\ UNCHANGED <<forge, requests, modRow, edges, nextRow, ghosts>> /\ Does(p, u)
    BY DEF PassDep, Doing
  <1>2. ModRowsPart /\ ErrandPart
    BY DEF DepsInv
  <1>3. /\ e \in Errand /\ e.todo \in Seq(ForgeMods)
        /\ e.act = "install" => ~e.straight
        /\ e.straight => e.at = "deps" /\ e.todo = <<>>
        /\ Provides(e, Past) /\ ToSet(e.todo) \subseteq Below({e.mod})
        /\ \A g \in e.got : g \in Ids /\ g[1] \in Below({e.mod})
    BY <1>1, <1>2, ErrandFields
  <1>4. n = e.todo[1]
    BY <1>1, <1>3
  <1>5. <<n, modRow[n].id>> \in Ids /\ modRow[n].id \in Nat /\ n \in Past
    BY <1>1, <1>2, HereFields DEF Past, ModRowsPart
  <1>6. u = [e EXCEPT !.at = "deps", !.todo = Tail(@), !.got = @ \cup {<<n, modRow[n].id>>}]
    BY <1>1, <1>3 DEF Errand
  <1>. HIDE DEF e, n, u
  <1>7. SoundEdge(u, Past, Ids)
    BY <1>1, <1>3, <1>4, <1>5, <1>6, HeadDone
  <1>. QED BY <1>1, <1>7, ErrandOnly

LEMMA DepFetched ==
  ASSUME DepsInv, NEW p \in Hands, FetchDep(p)
  PROVE  DepsInv'
  <1>. DEFINE e == errand[p]
              u == [e EXCEPT !.at = "fetched"]
  <1>1. e # Absent /\ e.at = "deps" /\ e.todo # <<>>
        /\ UNCHANGED <<forge, requests, modRow, edges, nextRow, ghosts>> /\ Does(p, u)
    BY DEF FetchDep, Doing
  <1>2. /\ SoundEdge(e, Past, Ids) /\ e \in Errand /\ e.at \notin {"remove"}
        /\ e.straight => e.todo = <<>>
    BY <1>1, ErrandFields DEF DepsInv
  <1>3. u \in Errand /\ u.at = "fetched" /\ u.act = e.act /\ u.straight = e.straight /\ u.todo = e.todo
        /\ u.mod = e.mod /\ u.rel = e.rel /\ u.got = e.got
    BY <1>2 DEF Errand
  <1>4. e \notin Removal
    BY <1>1 DEF Removal
  <1>. HIDE DEF e, u
  <1>5. SoundEdge(u, Past, Ids)
    BY <1>1, <1>2, <1>3, <1>4 DEF SoundEdge, Provides
  <1>. QED BY <1>1, <1>5, ErrandOnly

LEMMA DepLands ==
  ASSUME DepsInv, NEW p \in Hands, LandDep(p)
  PROVE  DepsInv'
  <1>. DEFINE e == errand[p]
              n == Head(e.todo)
              u == [e EXCEPT !.at = "deps", !.todo = Tail(@), !.got = @ \cup {<<n, nextRow>>}]
  <1>1. e # Absent /\ e.at = "fetched" /\ UNCHANGED <<forge, requests, edges, ghosts>>
    BY DEF LandDep, Doing
  <1>2. RowsHold /\ ModRowsPart /\ ErrandPart /\ OnlyDependentsGo /\ requests \in 0..MaxAsked
    BY DEF DepsInv, RowsHold
  <1>3. /\ e \in Errand /\ e.todo \in Seq(ForgeMods) /\ e.todo # <<>>
        /\ e.act = "install" => ~e.straight
        /\ e.straight => e.at = "deps" /\ e.todo = <<>>
        /\ Provides(e, Past) /\ ToSet(e.todo) \subseteq Below({e.mod})
        /\ \A g \in e.got : g \in Ids /\ g[1] \in Below({e.mod})
    BY <1>1, <1>2, ErrandFields
  <1>4. n = e.todo[1] /\ n \in ForgeMods /\ Latest \in Releases /\ nextRow \in Nat
    BY <1>2, <1>3, ForgeFields DEF ModRowsPart
  <1>5. CASE n \in Here
    <2>1. Does(p, Absent) /\ UNCHANGED <<modRow, nextRow>>
      BY <1>5 DEF LandDep, Ends
    <2>. QED BY <1>1, <2>1, ErrandOnly
  <1>6. CASE n \notin Here
    <2>1. InsertModRow(n, Latest) /\ Does(p, u)
      BY <1>6 DEF LandDep
    <2>2. \A c \in Needs(n, Latest) : Covered(n, c, Past)
      <3>1. InOrder(e.todo, Past)
        BY <1>1, <1>3 DEF Provides
      <3>. HIDE DEF e, n
      <3>2. \A c \in Needs(e.todo[1], Latest) : Covered(e.todo[1], c, Past)
        BY <1>3, <3>1, OrderGoesOn
      <3>. QED BY <1>4, <3>2
    <2>. HIDE DEF e, n, u
    <2>3. RowsHold' /\ Grows /\ n \in Here' /\ <<n, nextRow>> \in Ids'
      BY <1>1, <1>2, <1>4, <1>6, <2>1, <2>2, RowInserted DEF ghosts
    <2>4. Past \subseteq Past' /\ Ids \subseteq Ids' /\ n \in Past'
      BY <2>3 DEF Grows, Past
    <2>5. u = [e EXCEPT !.at = "deps", !.todo = Tail(@), !.got = @ \cup {<<e.todo[1], nextRow>>}]
      BY <1>4 DEF u
    <2>6. e.at \in {"deps", "fetched"} /\ e.todo[1] \in Past' /\ <<e.todo[1], nextRow>> \in Ids'
      BY <1>1, <1>4, <2>3, <2>4
    <2>7. SoundEdge(u, Past', Ids')
      BY <1>3, <1>4, <2>4, <2>5, <2>6, HeadDone
    <2>8. ErrandPart' /\ OnlyDependentsGo'
      BY <1>1, <1>2, <2>1, <2>3, <2>7, ErrandChanges, LostStays DEF ghosts
    <2>. QED BY <1>1, <1>2, <2>3, <2>8 DEF DepsInv, RowsHold
  <1>. QED BY <1>5, <1>6

\* An errand turns to its edges when its mod has the row with id i.
LEMMA Links ==
  ASSUME NEW e \in Errand, e.at = "deps", ~e.straight, NEW past, NEW ids, NEW past2, NEW ids2, ids \subseteq ids2,
         ToSet(e.todo) \subseteq Below({e.mod}), \A g \in e.got : g \in ids /\ g[1] \in Below({e.mod}),
         NEW i \in Nat, <<e.mod, i>> \in ids2, NEW u, u = [e EXCEPT !.at = "edges", !.row = i]
  PROVE  SoundEdge(u, past2, ids2)
  <1>1. /\ u \in Errand /\ u.at = "edges" /\ u.row = i /\ u.mod = e.mod /\ u.todo = e.todo /\ u.got = e.got
        /\ ~u.straight
    BY DEF Errand
  <1>2. Provides(u, past2)
    BY <1>1 DEF Provides
  <1>. QED BY <1>1, <1>2 DEF SoundEdge

\* What an errand that is about to land has.
LEMMA ReadyFields ==
  ASSUME DepsInv, NEW p \in Hands, NEW act, ReadyToLand(p, act)
  PROVE  LET e == errand[p] IN
           /\ e # Absent /\ e.at = "deps" /\ e.act = act /\ e \in Errand
           /\ e.mod \in ForgeMods /\ e.rel \in Releases
           /\ e.act = "install" => ~e.straight
           /\ ~e.straight => \A c \in Needs(e.mod, e.rel) : Covered(e.mod, c, Past)
           /\ ToSet(e.todo) \subseteq Below({e.mod})
           /\ \A g \in e.got : g \in Ids /\ g[1] \in Below({e.mod})
  <1>. DEFINE e == errand[p]
  <1>1. e # Absent /\ e.at = "deps" /\ e.act = act /\ e.todo = <<>>
    BY DEF ReadyToLand, Doing
  <1>2. /\ e \in Errand /\ e.mod \in ForgeMods /\ e.rel \in Releases /\ Provides(e, Past)
        /\ e.act = "install" => ~e.straight
        /\ ToSet(e.todo) \subseteq Below({e.mod})
        /\ \A g \in e.got : g \in Ids /\ g[1] \in Below({e.mod})
    BY <1>1, ErrandFields DEF DepsInv
  <1>. HIDE DEF e
  <1>3. ToSet(<<>>) = {}
    BY DEF ToSet
  <1>4. ~e.straight => \A c \in Needs(e.mod, e.rel) : Covered(e.mod, c, Past)
    BY <1>1, <1>2, <1>3 DEF Provides, Covered
  <1>. QED BY <1>1, <1>2, <1>4 DEF e

LEMMA ModLands ==
  ASSUME DepsInv, NEW p \in Hands, LandMod(p)
  PROVE  DepsInv'
  <1>. DEFINE e == errand[p]
              u == [e EXCEPT !.at = "edges", !.row = nextRow]
  <1>1. /\ ReadyToLand(p, "install") /\ e.mod \notin Here /\ InsertModRow(e.mod, e.rel) /\ Does(p, u)
        /\ UNCHANGED <<forge, requests, edges, ghosts>>
    BY DEF LandMod, Linking
  <1>2. RowsHold /\ ModRowsPart /\ ErrandPart /\ OnlyDependentsGo /\ requests \in 0..MaxAsked /\ nextRow \in Nat
    BY DEF DepsInv, RowsHold, ModRowsPart
  <1>3. /\ e.at = "deps" /\ e \in Errand /\ e.mod \in ForgeMods /\ e.rel \in Releases /\ ~e.straight
        /\ \A c \in Needs(e.mod, e.rel) : Covered(e.mod, c, Past)
        /\ ToSet(e.todo) \subseteq Below({e.mod})
        /\ \A g \in e.got : g \in Ids /\ g[1] \in Below({e.mod})
    BY <1>1, ReadyFields
  <1>. HIDE DEF e, u
  <1>4. RowsHold' /\ Grows /\ <<e.mod, nextRow>> \in Ids'
    BY <1>1, <1>2, <1>3, RowInserted DEF ghosts
  <1>5. Ids \subseteq Ids' /\ u = [e EXCEPT !.at = "edges", !.row = nextRow]
    BY <1>4 DEF Grows, u
  <1>6. SoundEdge(u, Past', Ids')
    BY <1>2, <1>3, <1>4, <1>5, Links
  <1>7. ErrandPart' /\ OnlyDependentsGo'
    BY <1>1, <1>2, <1>4, <1>6, ErrandChanges, LostStays DEF ghosts
  <1>. QED BY <1>1, <1>2, <1>4, <1>7 DEF DepsInv, RowsHold

LEMMA SecondLands ==
  ASSUME DepsInv, NEW p \in Hands, LandSecond(p)
  PROVE  DepsInv'
  <1>. DEFINE e == errand[p]
              i == modRow[e.mod].id
              u == [e EXCEPT !.at = "edges", !.row = i]
  <1>1. /\ ReadyToLand(p, "install") /\ e.mod \in Here /\ (Does(p, u) \/ Does(p, Absent))
        /\ UNCHANGED <<forge, requests, modRow, edges, nextRow, ghosts>>
    BY DEF LandSecond, Linking, Ends
  <1>2. /\ e.at = "deps" /\ e \in Errand /\ ~e.straight
        /\ ToSet(e.todo) \subseteq Below({e.mod})
        /\ \A g \in e.got : g \in Ids /\ g[1] \in Below({e.mod})
    BY <1>1, ReadyFields
  <1>3. i \in Nat /\ <<e.mod, i>> \in Ids
    BY <1>1, HereFields DEF DepsInv, ModRowsPart
  <1>4. u = [e EXCEPT !.at = "edges", !.row = i]
    OBVIOUS
  <1>. HIDE DEF e, u, i
  <1>5. SoundEdge(u, Past, Ids)
    BY <1>2, <1>3, <1>4, Links
  <1>. QED BY <1>1, <1>5, ErrandOnly

LEMMA ReleaseSwapped ==
  ASSUME DepsInv, NEW p \in Hands, SwapRelease(p)
  PROVE  DepsInv'
  <1>. DEFINE e == errand[p]
              m == e.mod
              i == modRow[m].id
              u == [e EXCEPT !.at = "edges", !.row = i]
  <1>1. /\ ReadyToLand(p, "update") /\ ~e.straight
        /\ UNCHANGED <<forge, requests, edges, nextRow, everRemoved, lost>>
    BY DEF SwapRelease
  <1>2. RowsHold /\ ModRowsPart /\ ErrandPart /\ OnlyDependentsGo /\ requests \in 0..MaxAsked /\ nextRow \in Nat
        /\ unresolved \subseteq ForgeMods
    BY DEF DepsInv, RowsHold, ModRowsPart
  <1>3. /\ e.at = "deps" /\ e \in Errand /\ e.rel \in Releases
        /\ \A c \in Needs(m, e.rel) : Covered(m, c, Past)
        /\ ToSet(e.todo) \subseteq Below({m})
        /\ \A g \in e.got : g \in Ids /\ g[1] \in Below({m})
    BY <1>1, ReadyFields
  <1>4. CASE StillThere(p)
    <2>1. /\ modRow' = [modRow EXCEPT ![m].rel = e.rel] /\ unresolved' = unresolved \ {m} /\ Does(p, u)
      BY <1>4 DEF SwapRelease, Linking
    <2>2. m \in Here
      BY <1>4 DEF StillThere
    <2>. HIDE DEF e, u, m, i
    <2>3. RowsHold' /\ Grows
      <3>1. unresolved' \subseteq ForgeMods /\ unresolved \subseteq unresolved' \cup {m}
        BY <1>2, <2>1
      <3>. QED BY <1>1, <1>2, <1>3, <2>1, <2>2, <3>1, RowSwapped
    <2>4. i \in Nat /\ <<m, i>> \in Ids /\ Ids \subseteq Ids'
      BY <1>2, <2>2, <2>3, HereFields DEF Grows, i
    <2>5. SoundEdge(u, Past', Ids')
      <3>1. u = [e EXCEPT !.at = "edges", !.row = i] /\ m = e.mod
        BY DEF u, m
      <3>2. <<m, i>> \in Ids'
        BY <2>4
      <3>. QED BY <1>1, <1>3, <2>4, <3>1, <3>2, Links DEF e
    <2>6. ErrandPart' /\ OnlyDependentsGo'
      BY <1>1, <1>2, <2>1, <2>3, <2>5, ErrandChanges, LostStays
    <2>. QED BY <1>1, <1>2, <2>3, <2>6 DEF DepsInv, RowsHold
  <1>5. CASE ~StillThere(p)
    <2>1. Does(p, Absent) /\ UNCHANGED <<modRow, unresolved>>
      BY <1>5 DEF SwapRelease, Ends
    <2>. QED BY <1>1, <2>1, ErrandOnly DEF ghosts
  <1>. QED BY <1>4, <1>5

LEMMA StraightSwapped ==
  ASSUME DepsInv, NEW p \in Hands, SwapStraight(p)
  PROVE  DepsInv'
  <1>. DEFINE e == errand[p]
              m == e.mod
  <1>1. /\ ReadyToLand(p, "update") /\ Does(p, Absent)
        /\ UNCHANGED <<forge, requests, edges, nextRow, everRemoved, lost>>
    BY DEF SwapStraight, Ends
  <1>2. RowsHold /\ ModRowsPart /\ ErrandPart /\ OnlyDependentsGo /\ requests \in 0..MaxAsked
        /\ unresolved \subseteq ForgeMods
    BY DEF DepsInv, RowsHold, ModRowsPart
  <1>3. e.rel \in Releases /\ m \in ForgeMods
    BY <1>1, ReadyFields
  <1>4. CASE StillThere(p)
    <2>1. /\ modRow' = [modRow EXCEPT ![m].rel = e.rel] /\ unresolved' = unresolved \cup {m}
      BY <1>4 DEF SwapStraight
    <2>2. m \in Here
      BY <1>4 DEF StillThere
    <2>. HIDE DEF e, m
    <2>3. RowsHold' /\ Grows
      <3>1. unresolved' \subseteq ForgeMods /\ unresolved \subseteq unresolved' \cup {m} /\ m \in unresolved'
        BY <1>2, <1>3, <2>1
      <3>. QED BY <1>1, <1>2, <1>3, <2>1, <2>2, <3>1, RowSwapped
    <2>4. ErrandPart' /\ OnlyDependentsGo'
      BY <1>1, <1>2, <2>3, ErrandChanges, LostStays
    <2>. QED BY <1>1, <1>2, <2>3, <2>4 DEF DepsInv, RowsHold
  <1>5. CASE ~StillThere(p)
    <2>1. UNCHANGED <<modRow, unresolved>>
      BY <1>5 DEF SwapStraight
    <2>. QED BY <1>1, <2>1, ErrandOnly DEF ghosts
  <1>. QED BY <1>4, <1>5

LEMMA EdgesRecorded ==
  ASSUME DepsInv, NEW p \in Hands, RecordEdges(p)
  PROVE  DepsInv'
  <1>. DEFINE e == errand[p]
              new == IF e.row \in Alive THEN EdgesTo(e.row, FoundBy(p) \ {e.row}) ELSE {}
  <1>1. /\ e # Absent /\ e.at = "edges" /\ edges' = edges \cup new /\ Does(p, Absent)
        /\ UNCHANGED <<forge, requests, modRow, nextRow, ghosts>>
    BY DEF RecordEdges, Doing, Ends
  <1>2. RowsHold /\ ModRowsPart /\ ErrandPart /\ OnlyDependentsGo /\ requests \in 0..MaxAsked
        /\ EdgePart /\ NeedsArePresent
    BY DEF DepsInv, RowsHold
  <1>3. <<e.mod, e.row>> \in Ids /\ \A g \in e.got : g \in Ids /\ g[1] \in Below({e.mod})
    BY <1>1, <1>2, ErrandFields
  <1>4. Here' = Here /\ Alive' = Alive
    BY <1>1 DEF Here, Alive
  <1>5. Past' = Past /\ Ids' = Ids
    BY <1>1, <1>4 DEF Past, Ids, ghosts
  <1>6. ModRowsPart'
    BY <1>1, <1>2, <1>4 DEF ModRowsPart, ghosts
  <1>7. NeedsArePresent'
    BY <1>1, <1>2, <1>4, <1>5, NeedsPrimed, SatisfiedFields DEF ghosts
  <1>8. ASSUME NEW d \in FoundBy(p), NEW n \in Here, modRow[n].id = d PROVE n \in Below({e.mod})
    <2>1. CASE p \in Shells
      <3>1. PICK g \in e.got : g[1] \in Here /\ modRow[g[1]].id = d
        BY <1>8, <2>1 DEF FoundBy
      <3>2. n = g[1]
        BY <1>2, <1>8, <3>1 DEF ModRowsPart
      <3>. QED BY <1>3, <3>2
    <2>2. CASE p \notin Shells
      <3>1. PICK g \in e.got : g[2] = d
        BY <1>8, <2>2 DEF FoundBy
      <3>2. g \in Ids /\ g[1] \in Below({e.mod})
        BY <1>3
      <3>3. n = g[1]
        BY <1>8, <3>1, <3>2 DEF Ids
      <3>. QED BY <3>2, <3>3
    <2>. QED BY <2>1, <2>2
  <1>9. \A n \in Here : modRow[n].id = e.row => n = e.mod
    BY <1>3 DEF Ids
  <1>. DEFINE S == FoundBy(p)
  <1>10. \A x \in new : e.row \in Alive /\ x[1] = e.row /\ x[2] \in S /\ x[2] \in Alive /\ x \in Alive \X Alive
    BY DEF EdgesTo
  <1>. HIDE DEF e, new, S
  <1>11. EdgePart'
    <2>1. edges \subseteq Alive \X Alive /\ Leads(edges, modRow)
      BY <1>2 DEF EdgePart
    <2>2. edges' \subseteq Alive' \X Alive'
      BY <1>1, <1>4, <1>10, <2>1
    <2>3. ASSUME NEW x \in new, NEW m \in ForgeMods, NEW n \in ForgeMods, modRow[m] # Absent, modRow[n] # Absent,
                 modRow[m].id = x[1], modRow[n].id = x[2]
          PROVE  n \in Below({m})
      <3>1. m \in Here /\ n \in Here
        BY <2>3 DEF Here
      <3>2. m = e.mod /\ n \in Below({e.mod})
        BY <1>8, <1>9, <1>10, <2>3, <3>1 DEF S
      <3>. QED BY <3>2
    <2>4. Leads(edges', modRow')
      BY <1>1, <2>1, <2>3 DEF Leads
    <2>. QED BY <1>1, <2>2, <2>4, EdgesPrimed
  <1>12. Grows
    BY <1>5 DEF Grows
  <1>13. ErrandPart' /\ OnlyDependentsGo'
    BY <1>1, <1>2, <1>12, ErrandChanges, LostStays DEF ghosts
  <1>. QED BY <1>1, <1>2, <1>6, <1>7, <1>11, <1>13 DEF DepsInv

------------------------------------------------------------------------------
(* The removals *)

\* The rows of the mods that may need m.
Hanging(m) == {modRow[x].id : x \in {y \in Here : m \in Below({y})}}

LEMMA HangingFields ==
  ASSUME ModRowsPart, EdgePart, NEW m \in Here
  PROVE  /\ m \in ForgeMods /\ Hanging(m) \in SUBSET Nat /\ nextRow \in Nat
         /\ RemovalOrder(m) \in Seq(Hanging(m)) /\ RemovalOrder(m) # <<>>
         /\ \A ids \in SUBSET Hanging(m) : \A x \in TakenAlong(ids, m) : x[2] \in Below({x[1]})
  <1>1. /\ Here \subseteq ForgeMods /\ m \in ForgeMods /\ nextRow \in Nat
        /\ \A x \in Here : modRow[x].id \in Nat
    BY HereFields DEF ModRowsPart
  <1>2. Hanging(m) \in SUBSET Nat /\ modRow[m].id \in Hanging(m)
    BY <1>1, BelowSelf DEF Hanging
  <1>3. BackClosed(Hanging(m))
    <2>. SUFFICES ASSUME NEW e \in edges, e[2] \in Hanging(m) PROVE e[1] \in Hanging(m)
      BY DEF BackClosed
    <2>1. PICK y \in Here : e[2] = modRow[y].id /\ m \in Below({y})
      BY DEF Hanging
    <2>2. e[1] \in Alive
      BY DEF EdgePart
    <2>3. PICK x \in Here : e[1] = modRow[x].id
      BY <2>2 DEF Alive
    <2>4. x \in ForgeMods /\ y \in ForgeMods /\ modRow[x] # Absent /\ modRow[y] # Absent
      BY DEF Here
    <2>5. y \in Below({x})
      BY <2>1, <2>3, <2>4 DEF EdgePart, Leads
    <2>6. m \in Below({x})
      BY <2>1, <2>4, <2>5, BelowAll
    <2>. QED BY <2>3, <2>6 DEF Hanging
  <1>4. RemovalOrder(m) \in Seq(Hanging(m)) /\ RemovalOrder(m) # <<>>
    BY <1>1, <1>2, <1>3, OrderFields
  <1>5. ASSUME NEW ids \in SUBSET Hanging(m), NEW x \in TakenAlong(ids, m) PROVE x[2] \in Below({x[1]})
    <2>1. PICK i \in ids : x = <<ModOf(i), m>>
      BY DEF TakenAlong
    <2>2. PICK y \in Here : i = modRow[y].id /\ m \in Below({y})
      BY DEF Hanging
    <2>3. \A z \in Here : modRow[z].id = i => z = y
      BY <2>2 DEF ModRowsPart
    <2>4. ModOf(i) = y
      BY <2>2, <2>3 DEF ModOf
    <2>. QED BY <2>1, <2>2, <2>4
  <1>. QED BY <1>1, <1>2, <1>4, <1>5

LEMMA LostGrows ==
  ASSUME OnlyDependentsGo, forge' = forge, NEW N, lost' = lost \cup N, \A x \in N : x[2] \in Below({x[1]})
  PROVE  OnlyDependentsGo'
  <1>1. \A x \in lost' : x[2] \in Below({x[1]})
    BY DEF OnlyDependentsGo
  <1>. QED BY <1>1, SamePrimed DEF OnlyDependentsGo

LEMMA OneRemoved ==
  ASSUME DepsInv, NEW m \in ForgeMods, RemoveOne(m)
  PROVE  DepsInv'
  <1>1. Asked /\ DropRows({modRow[m].id}) /\ UNCHANGED <<forge, nextRow, errand, lost>>
    BY DEF RemoveOne
  <1>2. RowsHold /\ ErrandPart /\ OnlyDependentsGo /\ requests \in 0..MaxAsked /\ MaxAsked \in Nat
    BY DepsAssumption DEF DepsInv, RowsHold
  <1>3. RowsHold' /\ Grows
    BY <1>1, <1>2, RowsDropped
  <1>4. ErrandPart' /\ OnlyDependentsGo'
    BY <1>1, <1>2, <1>3, ErrandsStay, LostStays
  <1>5. requests' \in 0..MaxAsked
    BY <1>1, <1>2 DEF Asked
  <1>. QED BY <1>3, <1>4, <1>5 DEF DepsInv, RowsHold

LEMMA QueuedRemoved ==
  ASSUME DepsInv, NEW m \in ForgeMods, RemoveQueued(m)
  PROVE  DepsInv'
  <1>. DEFINE o == RemovalOrder(m)
  <1>1. PICK n \in 1..Len(o) :
          DropRows(ToSet(SubSeq(o, 1, n))) /\ lost' = lost \cup TakenAlong(ToSet(SubSeq(o, 1, n)), m)
    BY DEF RemoveQueued
  <1>2. Asked /\ m \in Here /\ UNCHANGED <<forge, nextRow, errand>>
    BY DEF RemoveQueued
  <1>3. RowsHold /\ ModRowsPart /\ EdgePart /\ ErrandPart /\ OnlyDependentsGo /\ requests \in 0..MaxAsked /\ MaxAsked \in Nat
    BY DepsAssumption DEF DepsInv, RowsHold
  <1>4. o \in Seq(Hanging(m)) /\ \A ids \in SUBSET Hanging(m) : \A x \in TakenAlong(ids, m) : x[2] \in Below({x[1]})
    BY <1>2, <1>3, HangingFields
  <1>. HIDE DEF o
  <1>. DEFINE ids == ToSet(SubSeq(o, 1, n))
  <1>5. ids \in SUBSET Hanging(m)
    <2>1. SubSeq(o, 1, n) \in Seq(Hanging(m))
      BY <1>1, <1>4
    <2>. QED BY <2>1 DEF ToSet
  <1>. HIDE DEF ids
  <1>6. DropRows(ids) /\ lost' = lost \cup TakenAlong(ids, m)
    BY <1>1 DEF ids
  <1>7. RowsHold' /\ Grows
    BY <1>2, <1>3, <1>6, RowsDropped
  <1>8. ErrandPart'
    BY <1>2, <1>3, <1>7, ErrandsStay
  <1>9. OnlyDependentsGo'
    BY <1>2, <1>3, <1>4, <1>5, <1>6, LostGrows
  <1>10. requests' \in 0..MaxAsked
    BY <1>2, <1>3 DEF Asked
  <1>. QED BY <1>7, <1>8, <1>9, <1>10 DEF DepsInv, RowsHold

LEMMA RemovalAsked ==
  ASSUME DepsInv, NEW p \in Hands, NEW m \in ForgeMods, AskRemove(p, m)
  PROVE  DepsInv'
  <1>. DEFINE o == RemovalOrder(m)
              e == [at |-> "remove", mod |-> m, todo |-> o]
  <1>1. /\ Asked /\ m \in Here /\ Does(p, e) /\ lost' = lost \cup TakenAlong(ToSet(o), m)
        /\ UNCHANGED <<forge, modRow, edges, nextRow, everRemoved, unresolved>>
    BY DEF AskRemove
  <1>2. RowsHold /\ ModRowsPart /\ EdgePart /\ ErrandPart /\ OnlyDependentsGo /\ requests \in 0..MaxAsked /\ MaxAsked \in Nat
    BY DepsAssumption DEF DepsInv, RowsHold
  <1>3. /\ o \in Seq(Hanging(m)) /\ o # <<>> /\ Hanging(m) \in SUBSET Nat
        /\ \A ids \in SUBSET Hanging(m) : \A x \in TakenAlong(ids, m) : x[2] \in Below({x[1]})
    BY <1>1, <1>2, HangingFields
  <1>. HIDE DEF o
  <1>4. ToSet(o) \in SUBSET Hanging(m) /\ o \in Seq(Nat)
    BY <1>3 DEF ToSet
  <1>5. SoundEdge(e, Past', Ids')
    BY <1>3, <1>4 DEF SoundEdge, Removal
  <1>. HIDE DEF e
  <1>6. RowsHold' /\ Grows
    BY <1>1, <1>2, RowsUntouched
  <1>7. ErrandPart'
    BY <1>1, <1>2, <1>5, <1>6, ErrandChanges
  <1>8. OnlyDependentsGo'
    BY <1>1, <1>2, <1>3, <1>4, LostGrows
  <1>9. requests' \in 0..MaxAsked
    BY <1>1, <1>2 DEF Asked
  <1>. QED BY <1>6, <1>7, <1>8, <1>9 DEF DepsInv, RowsHold

LEMMA ListedRemoved ==
  ASSUME DepsInv, NEW p \in Hands, RemoveListed(p)
  PROVE  DepsInv'
  <1>. DEFINE e == errand[p]
              u == [e EXCEPT !.todo = Tail(@)]
  <1>1. /\ e # Absent /\ e.at = "remove" /\ DropRows({Head(e.todo)}) /\ UNCHANGED <<forge, requests, nextRow, lost>>
        /\ Does(p, Absent) \/ (Does(p, u) /\ Len(e.todo) # 1)
    BY DEF RemoveListed, Doing, Ends
  <1>2. RowsHold /\ ErrandPart /\ OnlyDependentsGo /\ requests \in 0..MaxAsked
    BY DEF DepsInv, RowsHold
  <1>3. e \in Removal
    <2>1. SoundEdge(e, Past, Ids)
      BY <1>1, <1>2 DEF ErrandPart
    <2>2. e \notin Errand
      BY <1>1 DEF Errand
    <2>. QED BY <2>1, <2>2 DEF SoundEdge
  <1>4. Len(e.todo) # 1 => u \in Removal
    <2>1. e.todo \in Seq(Nat) /\ e.todo # <<>>
      BY <1>3 DEF Removal
    <2>2. ASSUME Len(e.todo) # 1 PROVE Tail(e.todo) \in Seq(Nat) /\ Tail(e.todo) # <<>>
      <3>. DEFINE t == e.todo
      <3>1. t \in Seq(Nat) /\ t # <<>> /\ Len(t) # 1
        BY <2>1, <2>2
      <3>. HIDE DEF t
      <3>2. Tail(t) \in Seq(Nat) /\ Len(t) \in Nat /\ Len(t) # 0
        BY <3>1
      <3>3. Len(Tail(t)) = Len(t) - 1
        BY <3>1
      <3>4. Len(Tail(t)) # 0
        BY <3>1, <3>2, <3>3
      <3>5. Tail(t) # <<>>
        <4>. SUFFICES ASSUME Tail(t) = <<>> PROVE FALSE
          OBVIOUS
        <4>1. Len(Tail(t)) = Len(<<>>)
          OBVIOUS
        <4>2. Len(<<>>) = 0
          OBVIOUS
        <4>. QED BY <3>4, <4>1, <4>2
      <3>. QED BY <3>2, <3>5 DEF t
    <2>. QED BY <1>3, <2>2 DEF Removal
  <1>. HIDE DEF e, u
  <1>5. RowsHold' /\ Grows
    BY <1>1, <1>2, RowsDropped
  <1>6. ErrandPart'
    BY <1>1, <1>2, <1>4, <1>5, ErrandChanges DEF SoundEdge
  <1>7. OnlyDependentsGo'
    BY <1>1, <1>2, LostStays
  <1>. QED BY <1>1, <1>2, <1>5, <1>6, <1>7 DEF DepsInv, RowsHold

------------------------------------------------------------------------------
(* The theorems *)

LEMMA DepsStart == DepsInit => DepsInv
  <1>. SUFFICES ASSUME DepsInit PROVE DepsInv
    OBVIOUS
  <1>1. Here = {} /\ edges = {} /\ lost = {}
    BY DEF DepsInit, Here
  <1>2. ModRowsPart /\ requests \in 0..MaxAsked
    BY <1>1, DepsAssumption DEF DepsInit, ModRowsPart
  <1>3. ErrandPart
    BY DEF DepsInit, ErrandPart
  <1>. QED BY <1>1, <1>2, <1>3 DEF DepsInv, EdgePart, Leads, NeedsArePresent, OnlyDependentsGo

LEMMA DepsStep == DepsInv /\ [DepsNext]_depVars => DepsInv'
  <1>. SUFFICES ASSUME DepsInv, [DepsNext]_depVars PROVE DepsInv'
    OBVIOUS
  <1>1. CASE UNCHANGED depVars
    <2>1. RowsHold' /\ Grows
      BY <1>1, RowsUntouched DEF depVars, ghosts, DepsInv, RowsHold
    <2>2. ErrandPart'
      BY <1>1, <2>1, ErrandsStay DEF depVars, DepsInv
    <2>3. OnlyDependentsGo'
      BY <1>1, LostStays DEF depVars, ghosts, DepsInv
    <2>. QED BY <1>1, <2>1, <2>2, <2>3 DEF depVars, DepsInv, RowsHold
  <1>2. ASSUME NEW p \in Hands, NEW m \in ForgeMods, NEW r \in Releases,
               \/ AskInstall(p, m, r) \/ AskUpdate(p, m, r) \/ AskUpdateAll(p, m, r)
               \/ CliInstall(p, m, r) \/ CliUpdate(p, m, r)
        PROVE  DepsInv'
    <2>1. PICK act \in {"install", "update"}, at \in {"plan", "deps"}, queued \in BOOLEAN :
            Begin(p, act, at, m, r, queued) /\ (act = "install" => at = "plan")
      BY <1>2 DEF AskInstall, AskUpdate, AskUpdateAll, CliInstall, CliUpdate
    <2>. QED BY <2>1, Begins
  <1>3. ASSUME NEW p \in Hands,
               \/ MakePlan(p) \/ PassDep(p) \/ FetchDep(p) \/ LandDep(p)
               \/ LandMod(p) \/ LandSecond(p) \/ SwapRelease(p) \/ SwapStraight(p)
               \/ RecordEdges(p) \/ Abandon(p) \/ RemoveListed(p)
        PROVE  DepsInv'
    <2>1. ASSUME Abandon(p) PROVE DepsInv'
      BY <2>1, ErrandOnly DEF Abandon, Ends
    <2>. QED BY <1>3, <2>1, Plans, DepPassed, DepFetched, DepLands, ModLands, SecondLands, ReleaseSwapped,
                StraightSwapped, EdgesRecorded, ListedRemoved
  <1>4. ASSUME NEW p \in Hands, NEW m \in ForgeMods, AskRemove(p, m) PROVE DepsInv'
    BY <1>4, RemovalAsked
  <1>5. ASSUME NEW m \in ForgeMods, RemoveOne(m) \/ RemoveQueued(m) PROVE DepsInv'
    BY <1>5, OneRemoved, QueuedRemoved
  <1>. QED BY <1>1, <1>2, <1>3, <1>4, <1>5 DEF DepsNext

\* Every reachable state of the rows, the edges and the counters is well typed.
THEOREM DepsTyped == DepsSpec => []DepsTypeOK
  <1>1. DepsInv => DepsTypeOK
    <2>. SUFFICES ASSUME DepsInv PROVE DepsTypeOK
      OBVIOUS
    <2>1. \A m \in Here : modRow[m].id \in 1..(nextRow - 1) /\ modRow[m].rel \in Releases
      BY HereFields DEF DepsInv
    <2>. QED BY <2>1 DEF DepsInv, DepsTypeOK, ModRowsPart, EdgePart
  <1>. QED BY <1>1, DepsStart, DepsStep, PTL DEF DepsSpec

\* For any mods, trees, handlers and commands: whatever an installed mod needs is
\* there at every moment, and a removal takes along only what may need the mod.
THEOREM Kept == DepsSpec => []NeedsAreKept
  <1>1. DepsInv => NeedsAreKept
    BY DEF DepsInv, NeedsAreKept
  <1>. QED BY <1>1, DepsStart, DepsStep, PTL DEF DepsSpec

=============================================================================
