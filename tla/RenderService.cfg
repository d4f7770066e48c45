SPECIFICATION ServiceSpec
CONSTANTS
  Subjects = {s1, s2}
  MaxEntries = 2
  MaxRequests = 2
  MaxLogouts = 1
CHECK_DEADLOCK FALSE
INVARIANTS NoProcessIsOrphaned LogoutEndsProcess
PROPERTIES RequestsEnd ShutdownEnds
