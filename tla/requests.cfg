CONSTANTS
  p = p
  q = q
  s = s
  Requests = {p, q, s}
  Pages = {p, q}
  Flaky = {q}
  Faulty = {p}
  MailFails = TRUE
  RedisFails = TRUE
  Unlucky = {p}
  Mortal = {q}
  Works <- SomeWorks
  MaxRetries = 2
SPECIFICATION FairSpec
INVARIANTS
  TypeOK
  OnlyTheWinner
  EffectsNeedCommit
  EffectsOnce
  ErrorMeansNoChange
  SuccessIsPublished
  LinksSurviveMailFailure
PROPERTIES
  RequestEnds
  KeepsPromise
CHECK_DEADLOCK FALSE
