SPECIFICATION BackupsSpec
CONSTANTS
  Mods = {m1}
  Addons = {a1}
  ParentOf <- MCParentOf
  MaxVersion = 2
  MaxDirs = 3
  MaxBackups = 1
  Nothing = Nothing
INVARIANTS BackupIsRestorable
CHECK_DEADLOCK FALSE
