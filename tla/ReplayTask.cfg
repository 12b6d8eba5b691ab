SPECIFICATION FairSpec
CONSTANTS
  Questions <- MCQuestions
  Replies <- MCReplies
  MaxAsks = 3
INVARIANTS
  NoDrift
  BucketLifetime
PROPERTIES
  ImplementsDialogue
  DialogueEnds
