CONSTANTS
  a = a
  b = b
  e = e
  s = s
  t = t
  manager = manager
  participant = participant
  session = session
  talk = talk
  poster = poster
  Avatars = {a, b}
  Events = {e}
  Objects = {manager, participant, session, talk, poster}
  EventOf <- MCEventOf
  RoleOf <- MCRoleOf
  Transferred = {manager, session, talk, poster}
  Checked = {manager, session}
  Revoked = {manager}
  Dates = {1, 2}
  Sessions = {s, t}
  MaxRequests = 4
  None = None
SPECIFICATION Spec
INVARIANTS
  TypeOK
  Symmetric
  RolesMirrored
  DatesMirrored
SYMMETRY Symmetry
CHECK_DEADLOCK FALSE
