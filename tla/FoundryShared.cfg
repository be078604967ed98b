SPECIFICATION FairFoundrySpec
CONSTANTS
  Batch = {b1, b2}
  TestSource = {src1, src2}
  src1 = src1
  src2 = src2
  TestName = {}
  test_a = test_a
  test_b = test_b
  TestsOf <- MCNoTests
  Title = {p1}
  p1 = p1
  p2 = p2
  Reason = {}
  Seed = {}
  MappingList = {}
  NoTest = NoTest
  NoReason = NoReason
  NoStamp = NoStamp
  NoSeed = NoSeed
  NoGate = NoGate
  NotRun = NotRun
  UnknownTitle = UnknownTitle
  Hash <- MCHash
  MaxForge = 2
  MaxCalls = 2
  MaxTurns = 2
INVARIANTS UnseededRunIntact DirectoryClean
PROPERTIES CallsReturn
