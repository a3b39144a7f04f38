CONSTANTS
  a = a
  b = b
  p = p
  w1 = w1
  w2 = w2
  OneShot = {a}
  Periodic = {p}
  MaxTime = 2
  Expiry <- NoExpiry
  Never = Never
  NoTask = NoTask
  Events = {"conflict", "crash", "adminDelete", "clearSpool", "runFailed"}
  MaxEvents = 2
  Workers = {w1, w2}
  NoWorker = NoWorker
  AWOLThreshold = 0
  Mode = "processes"
SYMMETRY WorkerSymmetry
SPECIFICATION Spec
INVARIANTS
  FinishedMeansRan
  WaitingIsQueued
  TrackedNotWaiting
