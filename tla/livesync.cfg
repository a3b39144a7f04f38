CONSTANTS
  a = a
  b = b
  x = x
  y = y
  Agents = {a, b}
  Actions = {x, y}
  Configured = {a}
  FirstGranule = 2
  MaxTime = 3
  MaxOps = 2
  MaxFaults = 1
  None = None
SPECIFICATION FairSpec
INVARIANTS
  TypeOK
  NothingSkipped
  AcknowledgedIsOver
PROPERTIES
  EventuallyDelivered
