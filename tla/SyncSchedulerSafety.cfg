SPECIFICATION Spec
CONSTANTS
  Workers = {w1, w2}
  Keys = {k1, k2}
  Jobs = {j1, j2, j3}
  None = None
SYMMETRY Symmetry
INVARIANTS
  TypeOK
  OneOwner
  PoolShrinksOnlyByCancel
  VerdictMatchesOutcome
  LoopSingleFlight
PROPERTIES
  VerdictsStand
CHECK_DEADLOCK FALSE
