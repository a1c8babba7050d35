SPECIFICATION Spec
CONSTANTS
  None = None
  modA = modA
  modB = modB
  addA = addA
  dirA = dirA
  dirB = dirB
  dirS = dirS
  j1 = j1
  j2 = j2
  Mods = {modA, modB}
  Addons = {}
  ParentOf <- MCParentOf
  Versions <- MCVersions
  Paths <- PairPaths
  Hashes <- MCHashes
  Archive <- PairArchive
  Dirs = {dirS}
  DirOf <- SharedDirOf
  Under <- SharedUnder
  Jobs = {j1}
  Faults = {}
  Overlap = {}
  MaxId = 2
INVARIANTS FilesAtResolvedRoot
CHECK_DEADLOCK FALSE
