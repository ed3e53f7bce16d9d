\* Two calls of start() and two of stop() at a time, in any order: a backlog behind a
\* busy worker or beside one that waits, and events accepted while stop() is under way.
SPECIFICATION FairSpec
CONSTANTS
  Workers = {w1, w2}
  Batches = {{w1}, {w2}}
  Stoppers = {s1, s2}
  Events = {e1, e2, e3}
  None = None
INVARIANTS
  TypeOK
  OnePlace
  StopDrains
  NeverInterrupted
  StrandedOverBacklog
PROPERTIES
  EventsAreHandled
  JoinEnds
CHECK_DEADLOCK FALSE
