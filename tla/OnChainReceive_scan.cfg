SPECIFICATION FairSpec
CONSTANTS
  deposit = deposit
  withdrawal = withdrawal
  w1 = w1
  w2 = w2
  Txs = {deposit, withdrawal}
  Wallets = {w1, w2}
  Scanners = {s1, s2}
  Owner <- Outputs
  Hot = Hot
  Cold = Cold
  FromCold = {withdrawal}
  MinConfirmations = 2
  MaxConfirmations = 4
  MaxMined = 1
  MaxLag = 1
  MaxFaults = 2
  None = None
  Dead = Dead
INVARIANTS BookedOnce AllOutputsOrNone
PROPERTIES EveryDeepTxBooked
