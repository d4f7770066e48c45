SPECIFICATION FairSpec
CONSTANTS
  p1 = p1
  p2 = p2
  c1 = c1
  c2 = c2
  c3 = c3
  c4 = c4
  NoCall = NoCall
  Procs <- OneProcess
  Calls <- ThreeCalls
  Home <- ThreeInP1
  Ops = {"get", "force", "device", "logout"}
  Faults = {"revoke", "switch"}
INVARIANTS Singleflight ForcedWentToNetwork OnlyRevokedQuarantined
PROPERTIES EveryCallReturns
CHECK_DEADLOCK FALSE
