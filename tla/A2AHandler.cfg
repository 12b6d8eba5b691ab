SPECIFICATION Spec
CONSTANTS
  Requests <- MCRequests
  Ids <- MCIds
INVARIANTS
  OwnVerdict
  StreamShape
  RegistrySettles
PROPERTIES
  RunsAreAnswered
