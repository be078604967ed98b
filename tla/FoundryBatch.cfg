SPECIFICATION FoundrySpec
CONSTANTS
  Batch = {b1}
  TestSource = {src1, src2}
  src1 = src1
  src2 = src2
  TestName = {test_a, test_b}
  test_a = test_a
  test_b = test_b
  TestsOf <- MCTestsGrown
  Title = {p1, p2}
  p1 = p1
  p2 = p2
  Reason = {too_hard}
  Seed = {seed1}
  MappingList <- MCMappings2
  NoTest = NoTest
  NoReason = NoReason
  NoStamp = NoStamp
  NoSeed = NoSeed
  NoGate = NoGate
  NotRun = NotRun
  UnknownTitle = UnknownTitle
  Hash <- MCHash
  MaxForge = 1
  MaxCalls = 2
  MaxTurns = 4
INVARIANT GateGenuine
PROPERTIES PublishGated PublishedUnlessEdited
