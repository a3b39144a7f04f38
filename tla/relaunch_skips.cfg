CONSTANTS
  a = a
  b = b
  p = p
  w1 = w1
  w2 = w2
  OneShot = {a, b}
  Periodic = {}
  MaxTime = 1
  Expiry <- NoExpiry
  Never = Never
  NoTask = NoTask
  Events = {"crash"}
  MaxEvents = 1
  Workers = {w1, w2}
  NoWorker = NoWorker
  AWOLThreshold = 0
  Mode = "threads"
SPECIFICATION Spec
PROPERTIES
  AllRelaunched
