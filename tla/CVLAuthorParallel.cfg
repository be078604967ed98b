SPECIFICATION FairAuthorSpec
CONSTANTS
  Spec = {"s1", "s2"}
  Title = {"t1", "t2"}
  Reason = {"no"}
  Rule = {"ra"}
  NoSpec = NoSpec
  NoReason = NoReason
  NoStamp = NoStamp
  UnknownTitle = UnknownTitle
  Hash <- MCHash
  RulesOf <- MCRulesOf
  MappingList <- MCMappings
  NoSubmission = NoSubmission
  NoRun = NoRun
  NoResult = NoResult
  MaxCalls = 2
  MaxTurns = 4
  MaxRuns = 1
PROPERTIES
  PublishGated
  PublishedUnlessEdited
  CallsAddUp
  RunEnds
  ResultWritten
