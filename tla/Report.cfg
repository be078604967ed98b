SPECIFICATION Spec
CONSTANTS
  Components <- MCInputs
  RunsOf <- MCRunsOf
  Groupings <- MCGroupings
INVARIANTS PropertiesPartitioned VerifiedHonest
CHECK_DEADLOCK FALSE
