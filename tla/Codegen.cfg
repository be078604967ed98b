SPECIFICATION FairSpec
CONSTANTS
  MaxLines = 2
  MaxErrors = 2
  PipeSize = 1
  Rules = {"r"}
  Threads <- MCThreads
  Paths <- MCPaths
  Specs = {"s1", "s2"}
  Codes = {"x", "y"}
  MaxCalls = 2
  MaxTurns = 3
  MaxRuns = 3
INVARIANTS DeliveredValidated ResumeFaithful
PROPERTY RunEnds
CHECK_DEADLOCK FALSE
