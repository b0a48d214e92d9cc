CONSTANTS
  None = None
  s1 = s1
  s2 = s2
  h1 = h1
  h2 = h2
  btc = btc
  usd = usd
  Sends <- SendsAll
  Wallets <- MCWallets
  Usd <- MCUsd
  From <- FromUsd
  To <- ToLndAndBtc
  Hash <- TwoHashes
  ByInvoice = {}
  Amount <- FourAndTwo
  BtcWallet <- MCBtcWallet
  Receipts <- OneReceipt
  Funds <- MCFunds
  Prices <- MCPrices
  RouteFees = {1}
  FeeCapBasisPoints = 5000
  MaxFlows = 2
  MaxProbes = 1
  MaxStops = 1
SPECIFICATION Spec
INVARIANTS BooksBalance LndBooksExact ReimbursedWithinPrepaid DealerCovered
PROPERTIES PendingRecordIsOwn
CHECK_DEADLOCK FALSE
