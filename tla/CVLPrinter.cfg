SPECIFICATION FileSpec
CONSTANTS
  Cost <- MCCost
  MaxCost = 7
  Exps <- MCExps
  CommandCost <- MCCommandCost
  MaxCommands = 3
  MaxParts = 2
  MaxBlocks = 1
INVARIANTS ExpressionsReadBack BlocksLaidOut
CHECK_DEADLOCK FALSE
