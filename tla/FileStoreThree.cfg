SPECIFICATION Spec
CONSTANTS
  c1 = c1  c2 = c2  c3 = c3
  p1 = p1  p2 = p2  p3 = p3
  s1 = s1
  NoCall = NoCall
  Calls <- ThreeCalls
  Procs <- ThreeProcesses
  Home <- OwnProcess
  Subjects <- OneSubject
  Requests <- Writes
  Before = {}
  Faults = {}
CHECK_DEADLOCK FALSE
INVARIANT ExactlyOneWins
