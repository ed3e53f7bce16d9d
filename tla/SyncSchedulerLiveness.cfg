SPECIFICATION FairSpec
CONSTANTS
  Workers = {w1, w2}
  Keys = {k1}
  Jobs = {j1, j2}
  None = None
PROPERTIES
  QueuedJobsAreTaken
  StopDrainsPool
CHECK_DEADLOCK FALSE
