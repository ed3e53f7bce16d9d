SPECIFICATION FairSpec
CONSTANTS
  M = 2
  MaxAttempts = 3
PROPERTIES
  RequeuedIsRetried
