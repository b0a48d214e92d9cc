SPECIFICATION FairSpec
CONSTANTS
  Payments = {1, 2}
  PageSize = 2
  MaxSends = 3
  MaxFaults = 2
INVARIANTS GoneIsOnRecord CompleteIsTrue
PROPERTIES CompleteStays PartialCompletes CatchesUp
CHECK_DEADLOCK FALSE
