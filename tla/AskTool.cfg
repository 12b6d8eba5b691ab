SPECIFICATION AskSpec
CONSTANTS
  Calls <- MCCalls
  MaxAttempts = 3
  CallTimeout = 2
  InitialBackoff = 1
  BackoffMultiplier = 3
  MaxBackoff = 2
  Stubborn <- MCStubborn
  Asking <- MCAsking
  Answers <- MCAnswers
  Markers <- MCMarkers
  Lag = 0
  MaxTime = 10
INVARIANTS
  NoStrayQuestion
  AnswersOwnQuestion
  TimelyAnswerCounts
  CallLatencyBounded
  GivesUpNoSooner
PROPERTIES
  RetryDiscipline
  CallsEnd
