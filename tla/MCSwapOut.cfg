SPECIFICATION SwapFairSpec
CONSTANTS
  Triggers = {t1, t2}
  Slots = {1, 2}
  Swaps = {k1}
  Outbound = 5
  SwapAmount = 2
  MaxRestarts = 2
  MaxRepeats = 1
  MaxFailedCalls = 1
  None = None
CHECK_DEADLOCK FALSE
INVARIANTS SwapTypeOK SwapFeeOnce
PROPERTIES SwapFeeBooked
