\* Two callers in one process: one reads, computes or removes while the other is between
\* any two of its commands.
SPECIFICATION FairSpec
CONSTANTS
  Callers = {c1, c2}
  Processes = {p1}
  None = None
  Ownerless = Ownerless
INVARIANTS
  TypeOK
  SingleFlight
  
PROPERTIES
  
  ForeverOnlyIfTorn
  WaitersEnd
CHECK_DEADLOCK FALSE
