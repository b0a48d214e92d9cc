SPECIFICATION Spec
CONSTANTS
  b1 = b1  u1 = u1  b2 = b2  h1 = h1  h2 = h2  a1 = a1  a2 = a2
  Dealer = dealer
  None = None
  Attempts = {a1, a2}
  Wallets <- Wallet1
  UsdWallets = {}
  BtcWalletOf <- BtcSelf
  Hashes = {h1, h2}
  WalletOf <- BothFromB1
  HashOf <- TwoHashes
  Routed = {}
  Workers = {k1}
  Amount = 2
  MaxFee = 1
  InitBalance = 4
  Limit = 4
  StopAt <- Everywhere
  LostReply = TRUE
  WalletLockExpires = FALSE
  HashLockExpires = FALSE
  AtomicSettle = FALSE
INVARIANTS NoOverdraft
