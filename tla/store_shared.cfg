SPECIFICATION Spec
CONSTANTS
  None = None
  modA = modA
  modB = modB
  addA = addA
  dirA = dirA
  dirB = dirB
  dirS = dirS
  j1 = j1
  j2 = j2
  Mods = {modA, modB}
  Addons = {}
  ParentOf <- MCParentOf
  Versions <- MCVersions
  Paths <- PairPaths
  Hashes <- MCHashes
  Archive <- PairArchive
  Dirs = {dirS}
  DirOf <- SharedDirOf
  Under <- SharedUnder
  Jobs = {j1}
  Faults = {"crash", "locked_update"}
  Overlap = {"toggle"}
  MaxId = 2
PROPERTIES NeighboursUntouched
CHECK_DEADLOCK FALSE
