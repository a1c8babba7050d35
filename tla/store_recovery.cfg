SPECIFICATION WatchedSpec
CONSTANTS
  None = None
  modA = modA
  modB = modB
  addA = addA
  dirA = dirA
  dirB = dirB
  dirS = dirS
  j1 = j1
  j2 = j2
  Mods = {modA}
  Addons = {addA}
  ParentOf <- MCParentOf
  Versions <- MCVersions
  Paths <- PairPaths
  Hashes <- MCHashes
  Archive <- PairArchive
  Dirs = {dirA, dirB}
  DirOf <- ApartDirOf
  Under <- ApartUnder
  Jobs = {j1, j2}
  Faults = {"update", "recover", "crash"}
  Overlap = {}
  MaxId = 3
INVARIANTS FilesAtResolvedRoot CalmDiskIsCatalogue
PROPERTIES ClaimedIsOnDisk
CHECK_DEADLOCK FALSE
