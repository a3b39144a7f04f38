CONSTANTS
  a = a
  b = b
  p = p
  w1 = w1
  w2 = w2
  OneShot = {a}
  Periodic = {}
  MaxTime = 1
  Expiry <- NoExpiry
  Never = Never
  NoTask = NoTask
  Events = {"remove"}
  MaxEvents = 1
  Workers = {w1, w2}
  NoWorker = NoWorker
  AWOLThreshold = 0
  Mode = "threads"
SPECIFICATION Spec
INVARIANTS
  RunningIsDeletable
