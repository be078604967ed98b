SPECIFICATION Spec
CONSTANTS
  Components <- MCComponents
  Slug <- MCSlug
  Drafts <- MCDrafts
  Settled <- MCSettled
  Setups <- MCSetups
  MaxRounds = 2
  Modes = {"local"}
  InvNames = {"i"}
  Wordings = {1}
  MaxRuns = 2
  MayAsk <- MCMayAsk
  MaxConcurrent = 1
INVARIANTS ImportsDelivered TitlesDistinct BatchesAccounted
CHECK_DEADLOCK FALSE
