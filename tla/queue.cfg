SPECIFICATION Spec
CONSTANTS
  Mods = {m1}
  Requests = {r1, r2}
  Procs = {p1, p2}
  Bulk = bulk
  MaxOps = 2
  Rows = {w1, w2}
  None = None
SYMMETRY QueueSymmetry
INVARIANTS TypeOK OneOpPerChange AppliesAlone
PROPERTIES QueuedStaysBacked RejectedOnlyReopens RowsMoveRequests
CHECK_DEADLOCK FALSE
