SPECIFICATION FairSpec
CONSTANTS
  Callers = {c1, c2}
  Workers = {w1, w2}
  MaxContent = 4
  MaxRestarts = 1
  Empty <- MCEmpty
  Faults = {"error", "panic"}
  NoZip = NoZip
INVARIANTS StaleLeavesTrace
PROPERTIES NeverOlder DirtyIsHonoured EventuallyQuiet
CHECK_DEADLOCK FALSE
