SPECIFICATION FairSpec
CONSTANTS
  Callers = {c1, c2, c3}
  FailureThreshold = 3
  SuccessThreshold = 2
  RecoveryTimeout = 4
  HalfOpenTimeout = 3
  None = None
INVARIANTS
  TypeOK
  ThresholdsActedOn
  TimeoutRunsFromOpening
PROPERTIES
  FailFast
  OpenEnds
  TrialEnds
  ImplementsPolicy
