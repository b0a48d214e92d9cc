SPECIFICATION Spec
CONSTANTS
  w1 = w1  i1 = i1
  Invoices = {i1}
  Handlers = {h1, h2}
  Payers = {}
  Senders = {w1}
  WalletOf <- OneWallet
  InvoiceOf <- OneInvoice
  MaxFaults = 0
  None = None
  Dead = Dead
INVARIANTS CreditedOnce
