SPECIFICATION Spec
SYMMETRY WorkerSymmetry
CONSTANTS
  b1 = b1  u1 = u1  b2 = b2  h1 = h1  h2 = h2  a1 = a1  a2 = a2
  Dealer = dealer
  None = None
  Attempts = {a1}
  Wallets <- Wallet2
  UsdWallets = {u1}
  BtcWalletOf <- BtcOfAccount
  Hashes = {h1}
  WalletOf <- U1Once
  HashOf <- H1Once
  Routed = {}
  Workers = {k1, k2}
  Amount = 2
  MaxFee = 2
  InitBalance = 5
  Limit = 9
  StopAt <- Everywhere
  LostReply = FALSE
  WalletLockExpires = TRUE
  HashLockExpires = TRUE
  AtomicSettle = TRUE
INVARIANTS BankCovered
PROPERTIES ImplementsContract
