SPECIFICATION Spec
CONSTANTS
  None = None
  modA = modA
  modB = modB
  addA = addA
  dirA = dirA
  dirB = dirB
  dirS = dirS
  j1 = j1
  j2 = j2
  Mods = {modA}
  Addons = {addA}
  ParentOf <- MCParentOf
  Versions <- MCVersions
  Paths <- ClashPaths
  Hashes <- MCHashes
  Archive <- ClashArchive
  Dirs = {dirS}
  DirOf <- ClashDirOf
  Under <- ClashUnder
  Jobs = {j1, j2}
  Faults = {"install", "locked_update", "update", "remove", "toggle", "recover", "crash"}
  Overlap = {}
  MaxId = 2
SYMMETRY JobSymmetry
INVARIANTS TypeOK SwapsAreGuarded RowsAreWhole
PROPERTIES ImplementsCatalogue
CHECK_DEADLOCK FALSE
