SPECIFICATION Spec
CONSTANTS
  Invocations <- MCInvocations
  Actions <- MCActions
  KeyOf <- MCKeyOf
  NoKey = "none"
  WindowSize = 3
  StallThreshold = 2
  KeyWindowSize = 3
  KeyRepeatThreshold = 3
  MaxIterations = 4
  RoleIterations = 4
INVARIANTS
  WarningsAreFew
PROPERTIES
  StopsAreWarned
