SPECIFICATION Spec
CONSTANTS
  Callers = {c1, c2}
  Workers = {w1, w2}
  MaxContent = 2
  MaxRestarts = 0
  Empty <- MCEmpty
  Faults = {}
  NoZip = NoZip
INVARIANTS QuietIsFresh
CHECK_DEADLOCK FALSE
