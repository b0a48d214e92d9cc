SPECIFICATION FairSpec
CONSTANTS
  w1 = w1  i1 = i1
  Invoices = {i1}
  Handlers = {h1, h2}
  Payers = {p1, p2}
  Senders = {w1}
  WalletOf <- OneWallet
  InvoiceOf <- OneInvoice
  MaxFaults = 1
  None = None
  Dead = Dead
INVARIANTS CreditOnlySettled CreditedNotPending WalletPaysOnce PaidInsideClosed
PROPERTIES HeldResolved
