CONSTANTS
  a = a
  b = b
  p = p
  w1 = w1
  w2 = w2
  OneShot = {a}
  Periodic = {}
  MaxTime = 2
  Expiry <- ExpiresAt1
  Never = Never
  NoTask = NoTask
  Events = {}
  MaxEvents = 0
  Workers = {w1, w2}
  NoWorker = NoWorker
  AWOLThreshold = 0
  Mode = "threads"
SPECIFICATION Spec
PROPERTIES
  ExpiredRefused
