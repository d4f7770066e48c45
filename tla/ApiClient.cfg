SPECIFICATION ClientSpec
CONSTANTS
  Words = {"completed", "done"}
  Done = "done"
  Completed = "completed"
  MaxText = 6
  MaxChunk = 3
  MaxVersions = 3
CHECK_DEADLOCK FALSE
INVARIANTS FramingIgnoresChunks OnlyCompletedIsReturned RejectedTwice
PROPERTY EveryCallEnds
