SPECIFICATION FairSpec
CONSTANTS
  Calls = {c1, c2}
  Jspi = TRUE
CHECK_DEADLOCK FALSE
INVARIANTS ResolutionReported
PROPERTIES KeepsContract CancelReturns
