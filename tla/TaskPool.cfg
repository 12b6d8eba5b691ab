SPECIFICATION Spec
CONSTANTS
  Calls <- MCCalls
  Parent <- MCParent
  Workers = 1
  Questions <- MCQuestions
  Replies <- MCReplies
  MaxAsks = 2
CHECK_DEADLOCK FALSE
PROPERTIES
  ImplementsReplay
  CallsReturn
  PoolDrains
