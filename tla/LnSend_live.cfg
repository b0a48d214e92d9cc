SPECIFICATION FairSpec
CONSTANTS
  b1 = b1  u1 = u1  b2 = b2  h1 = h1  h2 = h2  a1 = a1  a2 = a2
  Dealer = dealer
  None = None
  Attempts = {a1, a2}
  Wallets <- Wallet2
  UsdWallets = {u1}
  BtcWalletOf <- BtcOfAccount
  Hashes = {h1, h2}
  WalletOf <- FromB1U1
  HashOf <- TwoHashes
  Routed = {a1}
  Workers = {k1}
  Amount = 2
  MaxFee = 1
  InitBalance = 4
  Limit = 9
  StopAt <- WhilePaying
  LostReply = FALSE
  WalletLockExpires = FALSE
  HashLockExpires = FALSE
  AtomicSettle = TRUE
INVARIANTS ResolvedOnce LedgerMatchesNetwork
PROPERTIES PendingSettles FailedRefunded
