SPECIFICATION FairSpec
CONSTANTS
  a = a  b = b
  NoStream = NoStream
  Streams <- TwoStreams
  MaxDeltas = 2
  MaxLines = 1
  ServerWaits = TRUE
CHECK_DEADLOCK FALSE
INVARIANTS OneTurnInTheProcess OpenQueuesAreActive StreamsGetTheirTurn
PROPERTIES EveryStreamEnds
