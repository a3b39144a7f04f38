CONSTANTS
  p = p
  q = q
  s = s
  Requests = {p, q, s}
  Pages = {p, q}
  Flaky = {}
  Faulty = {}
  MailFails = FALSE
  RedisFails = FALSE
  Unlucky = {}
  Mortal = {}
  Works <- SomeWorks
  MaxRetries = 2
SPECIFICATION Spec
INVARIANTS
  HooksAfterCommit
CHECK_DEADLOCK FALSE
