CONSTANTS
  PipeCapacity = 1
  kReadBufferSize = 4
  buffer_size = 3
  Inputs = {"pipe", "file"}
  SourceBytes = 3
  PeerBytes = 3
  Failures = TRUE
SPECIFICATION FairSpec
INVARIANTS CopyKeepsAll ReturnIsComplete FailsOnlyOfOthers
PROPERTIES CopyEnds
\* The copy returns.
CHECK_DEADLOCK FALSE
