SPECIFICATION Spec
CONSTANTS
  p1 = p1
  p2 = p2
  c1 = c1
  c2 = c2
  c3 = c3
  c4 = c4
  NoCall = NoCall
  Procs <- TwoProcesses
  Calls <- ThreeCalls
  Home <- SplitHome
  Ops = {"get", "force", "login", "loopback", "logout"}
  Faults = {"crash", "lost", "revoke", "store"}
SYMMETRY SameHomeSymmetry
INVARIANTS VersionIdentifiesGeneration
PROPERTIES WritesReplaceLoaded QuarantineSticks TokensComeFromStore
CHECK_DEADLOCK FALSE
