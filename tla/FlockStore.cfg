SPECIFICATION Spec
CONSTANTS
  c1 = c1  c2 = c2  c3 = c3
  p1 = p1  p2 = p2
  s1 = s1  s2 = s2
  NoCall = NoCall
  Calls <- ThreeCalls
  Procs <- TwoProcesses
  Home <- TwoInP1
  Subjects <- TwoSubjects
  Requests <- SomeRequests
CHECK_DEADLOCK FALSE
INVARIANTS WritersHoldTheLock OneWinnerPerVersion WinnersAreNotLost
PROPERTIES ImplementsStore
