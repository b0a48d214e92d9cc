-------------------------- MODULE MCInvoiceReceive --------------------------
(***************************************************************************)
(* Instances of InvoiceReceive for TLC: one invoice, of a BTC or of a USD  *)
(* wallet, and payers of one wallet.                                       *)
(***************************************************************************)
EXTENDS InvoiceReceive

CONSTANTS w1, i1

OneWallet == [p \in Payers |-> w1]
OneInvoice == [p \in Payers |-> i1]
=============================================================================
