SPECIFICATION RestartSpec
CONSTANTS
  Questions <- MCQuestions
  Replies <- MCReplies
  MaxAsks = 2
INVARIANT NoDrift
