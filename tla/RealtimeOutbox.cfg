SPECIFICATION FairSpec
CONSTANTS
  M = 3
  MaxAttempts = 3
INVARIANTS
  TypeOK
  OnePlace
  NothingWaitsUntried
PROPERTIES
  EveryoneIsTold
  ImplementsChannel
