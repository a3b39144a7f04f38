CONSTANTS
  p = p
  q = q
  s = s
  t = t
  Bookings = {p, q}
  Times <- MCTimes
  DateOf <- MCDateOf
  Series <- MCSeries
  FirstBlocked = 1
  LastBlocked = 2
  Blocking = Blocking
  Sessions = {s, t}
  MaxRequests = 4
  Idle = Idle
SPECIFICATION Spec
INVARIANTS
  TypeOK
  NoDoubleBooking
  EndedHoldsNothing
  LiveHoldsSomething
  BlockingRespected
PROPERTIES
  ConfirmedIsKept
  LostStaysLost
SYMMETRY Symmetry
CHECK_DEADLOCK FALSE
