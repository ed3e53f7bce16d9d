\* The same two callers: a read while delete() is between memory and Redis.
SPECIFICATION Spec
CONSTANTS
  Callers = {c1, c2}
  Processes = {p1}
  None = None
  Ownerless = Ownerless
INVARIANT NothingBroughtBack
CHECK_DEADLOCK FALSE
