SPECIFICATION FairSpec
CONSTANTS
  c1 = c1  c2 = c2  c3 = c3
  s1 = s1  s2 = s2
  NoCall = NoCall
  Calls <- ThreeCalls
  Subjects <- TwoSubjects
  Requests <- SomeRequests
CHECK_DEADLOCK FALSE
PROPERTIES ImplementsStore EveryCallReturns
