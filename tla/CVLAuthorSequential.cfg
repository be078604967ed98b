SPECIFICATION AuthorSpec
CONSTANTS
  Spec = {"s1", "s2"}
  Title = {"t1", "t2"}
  Reason = {"no"}
  Rule = {"ra", "rb"}
  NoSpec = NoSpec
  NoReason = NoReason
  NoStamp = NoStamp
  UnknownTitle = UnknownTitle
  Hash <- MCHash
  RulesOf <- MCRulesOf
  MappingList <- MCMappings
  NoSubmission = NoSubmission
  NoRun = NoRun
  NoResult = NoResult
  MaxCalls = 1
  MaxTurns = 7
  MaxRuns = 2
INVARIANTS
  StampsGenuine
  StoreAgrees
PROPERTIES
  StoreMonotone
  ImplementsGate
