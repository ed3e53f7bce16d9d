SPECIFICATION Spec
CONSTANTS
  Workers = {w1, w2}
  Keys = {k1}
  Jobs = {j1, j2}
  None = None
INVARIANTS
  FailedSyncIsRecorded
CHECK_DEADLOCK FALSE
