SPECIFICATION Spec
CONSTANTS
  MaxLogins = 4
  MaxRequests = 2
  Custodies <- BothCustodies
  MaxPolls = 1
  Buttons = TRUE
CHECK_DEADLOCK FALSE
INVARIANTS BusyWhileNewestRuns ViewWasTrue WindowIsAttended TakenOnce
PROPERTIES NewestKeepsItsWindow OperationsEnd
