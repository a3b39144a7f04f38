CONSTANTS
  a = a
  b = b
  p = p
  w1 = w1
  w2 = w2
  OneShot = {a}
  Periodic = {p}
  MaxTime = 2
  Expiry <- NoExpiry
  Never = Never
  NoTask = NoTask
  Events = {"move", "runFailed"}
  MaxEvents = 1
  Workers = {w1, w2}
  NoWorker = NoWorker
  AWOLThreshold = 0
  Mode = "processes"
SPECIFICATION FairSpec
PROPERTIES
  CommandsExecuted
  WaitingIsLaunched
  RunningIsRecorded
