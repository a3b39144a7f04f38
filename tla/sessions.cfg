CONSTANTS
  a = a
  b = b
  p = p
  w1 = w1
  w2 = w2
  OneShot = {a}
  Periodic = {p}
  MaxTime = 2
  Expiry <- NoExpiry
  Never = Never
  NoTask = NoTask
  Events = {"move", "remove", "runFailed", "prepareFails", "suicide", "stop"}
  MaxEvents = 2
  Workers = {w1, w2}
  NoWorker = NoWorker
  AWOLThreshold = 0
  Mode = "threads"
SYMMETRY WorkerSymmetry
SPECIFICATION Spec
INVARIANTS
  TypeOK
  SingleCopy
  NoTaskLost
  AtMostOnce
  OneWorkerPerTask
  RunningHasWorker
  BinIsStartDate
PROPERTIES
  FinalIsFinal
