SPECIFICATION PushSpec
CONSTANTS
  Events = {h1, deploy}
  HealthEvents = {h1}
  Browsers = {b1}
  NoEvent = NoEvent
  MaxAttempts = 2
  BatchSize = 4
  MaxOps = 2
INVARIANTS
  NothingWaitsInVain
  SubmissionsBounded
PROPERTIES
  ResentOnlyIfAnswerLost
  KeepsPromise
  DeliveriesSettle
CHECK_DEADLOCK FALSE
