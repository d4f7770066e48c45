SPECIFICATION FairSpec
CONSTANTS
  c1 = c1  c2 = c2  c3 = c3
  p1 = p1  p2 = p2  p3 = p3
  s1 = s1
  NoCall = NoCall
  Calls <- ThreeCalls
  Procs <- ThreeProcesses
  Home <- OwnProcess
  Subjects <- OneSubject
  Requests <- Everything
  Before = {c3}
  Faults = {"crash", "io"}
CHECK_DEADLOCK FALSE
PROPERTIES ImplementsStore EveryCallReturns
