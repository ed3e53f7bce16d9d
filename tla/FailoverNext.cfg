SPECIFICATION Spec
CONSTANTS
  c1 = c1
  c2 = c2
  Callers = {c1, c2}
  N = 3
  Priority <- MCPriority
  Checked = {1, 2}
  Distance <- MCDistance
  Strategies = {"priority"}
  MaxFailures = 3
  MaxRetries = 3
  Period = 2
PROPERTIES
  RetryMovesOn
