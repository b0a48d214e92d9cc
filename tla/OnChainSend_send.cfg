SPECIFICATION FairSpec
CONSTANTS
  w1 = w1
  Wallets = {w1, w2}
  Requests = {r1, r2}
  WalletOf <- OneWallet
  Amount = 4
  InitBalance = 6
  InitHot = 16
  DustThreshold = 2
  MinMinerFee = 2
  MaxMinerFee = 3
  WithdrawFee = 0
  WithdrawDefaultMin = 1
  RatioNum = 1
  RatioDen = 2
  Threshold = 4
  MinImbalance = 0
  MaxImbalance = 4
  MinOnChain = 5
  MaxHot = 8
  MinRebalance = 2
  OffChain = 0
  MaxRebalances = 1
  MaxFaults = 1
  None = None
  Dead = Dead
INVARIANTS  SentStaysCharged PendingUntilMined BooksFollowHotWallet
PROPERTIES KnownHashSettles RefusedRefunded ImplementsContract
