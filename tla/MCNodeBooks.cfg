SPECIFICATION FairSpec
CONSTANTS
  MaxDay = 5
  MaxFee = 2
  MaxEscrow = 1
  MaxMoves = 2
  MaxStops = 1
  MaxFailures = 1
INVARIANTS DayBookedInFull OnlyEvesSkipped
PROPERTIES EscrowSettles
