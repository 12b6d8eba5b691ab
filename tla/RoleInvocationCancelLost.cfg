SPECIFICATION Spec
CONSTANTS
  Calls <- MCOneCall
  MaxAttempts = 2
  CallTimeout = 2
  InitialBackoff = 1
  BackoffMultiplier = 2
  MaxBackoff = 2
  Stubborn = {}
  Answers <- MCAnswers
  Markers = {}
  Lag = 0
  MaxTime = 7
  BaseTimeout = 3
  Extend = 2
  MaxTotal = 6
  PollInterval = 2
  MaxIterations = 3
  MaxBatch = 2
  Rejected = Rejected
  PrepFailures <- MCRaises
  CallerCancels = TRUE
INVARIANT CallerCancellationPropagates
