SPECIFICATION FairSpec
CONSTANTS
  c1 = c1
  c2 = c2
  Callers = {c1, c2}
  N = 3
  Priority <- MCPriority
  Checked = {1, 2}
  Distance <- MCDistance
  Strategies <- MCStrategies
  MaxFailures = 2
  MaxRetries = 2
  Period = 2
INVARIANTS
  TypeOK
  ConnectionsCounted
  FailedOut
PROPERTIES
  OutIsLeftAlone
  ExecutionEnds
  SoundComesBack
  BrokenIsLeft
