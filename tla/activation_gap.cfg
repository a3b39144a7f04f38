CONSTANTS
  a = a
  b = b
  x = x
  y = y
  Agents = {a, b}
  Actions = {x, y}
  Configured = {a}
  FirstGranule = 2
  MaxTime = 4
  MaxOps = 1
  MaxFaults = 0
  None = None
SPECIFICATION Spec
INVARIANTS
  RecordedIsDelivered
CHECK_DEADLOCK FALSE
