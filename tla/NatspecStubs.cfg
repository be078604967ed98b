SPECIFICATION FairNatspecSpec
CONSTANTS
  a1 = a1
  a2 = a2
  Author = {a1, a2}
  Contract = {c1}
  Field = {f1}
  c1 = c1
  f1 = f1
  Spec <- MCSpecs
  UnknownContract = UnknownContract
  NoSpec = NoSpec
  NoRecord = NoRecord
  NoResult = NoResult
  NoDelivery = NoDelivery
  GaveUp = GaveUp
  MaxCalls <- MCCalls
  MaxTurns <- MCTurns
  MaxFields = 2
  MaxCrashes = 1
  StoreFails = TRUE
INVARIANTS GrantedKept PublishedTypechecks
PROPERTIES MetadataGrows AnswersAgree RequestsReturn
