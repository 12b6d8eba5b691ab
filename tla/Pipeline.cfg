SPECIFICATION Spec
CONSTANTS
  N = 2
  Kinds <- StepKinds
  Modes <- MCModes
  Branches <- MCBranches
  Plans <- MCPlans
  CallerCancels = TRUE
INVARIANTS
  GroupsInOrder
  StrictStopsAtFailure
  ResultsFollowPlan
  VerdictAgrees
  QuietOnReturn
PROPERTIES
  PipelineEnds
