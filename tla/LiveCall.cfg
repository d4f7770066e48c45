SPECIFICATION Spec
CONSTANTS
  MaxCalls = 2
  MaxItems = 1
  MaxTurns = 2
CHECK_DEADLOCK FALSE
INVARIANTS DelegationsAreAnswered PhaseTellsTruth NothingIsLeftOn OpenCallsAreReplaced
PROPERTIES SilenceIsFilled PostsEnd
