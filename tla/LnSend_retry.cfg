SPECIFICATION Spec
SYMMETRY WorkerSymmetry
CONSTANTS
  b1 = b1  u1 = u1  b2 = b2  h1 = h1  h2 = h2  a1 = a1  a2 = a2
  Dealer = dealer
  None = None
  Attempts = {a1, a2}
  Wallets <- Wallet1
  UsdWallets = {}
  BtcWalletOf <- BtcSelf
  Hashes = {h1}
  WalletOf <- BothFromB1
  HashOf <- OneHash
  Routed = {}
  Workers = {k1, k2}
  Amount = 2
  MaxFee = 1
  InitBalance = 7
  Limit = 9
  StopAt <- Nowhere
  LostReply = FALSE
  WalletLockExpires = FALSE
  HashLockExpires = FALSE
  AtomicSettle = TRUE
INVARIANTS OneInTransit RefundedOnlyIfFailed
