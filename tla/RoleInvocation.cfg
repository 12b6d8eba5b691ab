SPECIFICATION FairSpec
CONSTANTS
  Calls <- MCCalls
  MaxAttempts = 2
  CallTimeout = 1
  InitialBackoff = 1
  BackoffMultiplier = 2
  MaxBackoff = 2
  Stubborn <- MCStubborn
  Answers <- MCAnswers
  Markers = {}
  Lag = 0
  MaxTime = 5
  BaseTimeout = 1
  Extend = 2
  MaxTotal = 4
  PollInterval = 2
  MaxIterations = 2
  MaxBatch = 2
  Rejected = Rejected
  PrepFailures <- MCAnyRaise
  CallerCancels = TRUE
INVARIANTS
  HardCapHolds
  DeadlineIsEarned
  NothingLeftRunning
  FinishedWorkIsReported
PROPERTIES
  ProgressKeepsAlive
  InvocationReturns
