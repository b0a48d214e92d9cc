--------------------------- MODULE InvoiceReceive ---------------------------
(***************************************************************************)
(* Receiving over the lightning network: an invoice is a hold invoice in   *)
(* lnd and a walletinvoices document.  The event listener of the trigger   *)
(* and the sweep of cron both run updatePendingInvoice, which settles the  *)
(* invoice and credits the recipient under a lock on its hash, or          *)
(* declineHeldInvoice, which cancels it.  Meanwhile other wallets of the   *)
(* bank may pay the same invoice inside the ledger                         *)
(* (executePaymentViaIntraledger), under a lock on their wallet.           *)
(***************************************************************************)
EXTENDS Integers, FiniteSets

CONSTANTS
  Invoices,
  Handlers,     \* concurrent runs of updatePendingInvoice or declineHeldInvoice
  Payers,       \* requests that pay an invoice inside the ledger
  Senders,      \* the wallets they pay from
  WalletOf,     \* the wallet of a payer
  InvoiceOf,    \* the invoice it pays
  MaxFaults,    \* bound on crashes and failed calls
  None, Dead    \* a lock that is free, a lock whose holder crashed

ASSUME ReceiveAssumption ==
  /\ WalletOf \in [Payers -> Senders]
  /\ InvoiceOf \in [Payers -> Invoices]
  /\ MaxFaults \in Nat
  /\ None # Dead
  /\ {None, Dead} \cap (Handlers \cup Payers) = {}

VARIABLES
  record,      \* walletinvoices document: absent, pending or paid
  currency,    \* currency of the wallet it is for
  lnd,         \* state of the invoice in lnd
  credits,     \* recordReceive journals of an invoice
  sent,        \* payers whose recordIntraledger is in the ledger
  hashLock,    \* holder of lockPaymentHash
  walletLock,  \* holder of lockWalletId
  hpc,         \* control point of a handler
  invoice,     \* the invoice it handles
  snap,        \* walletInvoice.paid as it read it; none when it only declines
  looked,      \* lnd's state at its first lookup
  ppc,         \* control point of a payer
  faults       \* crashes and failed calls so far

dataVars == <<record, currency, lnd, credits, sent>>
readVars == <<invoice, snap, looked>>
handlerVars == <<hpc, readVars>>
vars == <<dataVars, hashLock, walletLock, handlerVars, ppc, faults>>

HandlerPoints == {"idle", "find", "lookup", "delete", "decline", "cancel", "declineDelete",
                  "lock", "recheck", "settle", "markPaid", "record", "mark"}
PayerPoints == {"start", "lock", "check", "record", "cancel", "mark", "success", "returned"}
LndStates == {"absent", "open", "held", "settled", "canceled", "gone"}

(* Types of all the variables. *)
TypeOK ==
  /\ record \in [Invoices -> {"absent", "pending", "paid"}]
  /\ currency \in [Invoices -> {"BTC", "USD"}]
  /\ lnd \in [Invoices -> LndStates]
  /\ credits \in [Invoices -> Nat]
  /\ sent \subseteq Payers
  /\ hashLock \in [Invoices -> Handlers \cup {None, Dead}]
  /\ walletLock \in [Senders -> Payers \cup {None, Dead}]
  /\ hpc \in [Handlers -> HandlerPoints]
  /\ invoice \in [Handlers -> Invoices \cup {None}]
  /\ snap \in [Handlers -> {"none", "pending", "paid"}]
  /\ looked \in [Handlers -> {"none", "held", "settled"}]
  /\ ppc \in [Payers -> PayerPoints]
  /\ faults \in 0..MaxFaults

Init ==
  /\ record = [i \in Invoices |-> "absent"]
  /\ currency \in [Invoices -> {"BTC", "USD"}]
  /\ lnd = [i \in Invoices |-> "absent"]
  /\ credits = [i \in Invoices |-> 0]
  /\ sent = {}
  /\ hashLock = [i \in Invoices |-> None]
  /\ walletLock = [w \in Senders |-> None]
  /\ hpc = [h \in Handlers |-> "idle"]
  /\ invoice = [h \in Handlers |-> None]
  /\ snap = [h \in Handlers |-> "none"]
  /\ looked = [h \in Handlers |-> "none"]
  /\ ppc = [p \in Payers |-> "start"]
  /\ faults = 0

-----------------------------------------------------------------------------
(* The invoice: addInvoice, lnd and the nightly clean-up *)

\* registerInvoice, then persistNew; when that fails nobody gets the payment request.
AddInvoice(i) ==
  /\ lnd[i] = "absent"
  /\ lnd' = [lnd EXCEPT ![i] = "open"]
  /\ record' = [record EXCEPT ![i] = "pending"]
  /\ UNCHANGED <<currency, credits, sent, hashLock, walletLock, handlerVars, ppc, faults>>

PersistNewFails(i) ==
  /\ lnd[i] = "absent" /\ faults < MaxFaults
  /\ lnd' = [lnd EXCEPT ![i] = "open"]
  /\ faults' = faults + 1
  /\ UNCHANGED <<record, currency, credits, sent, hashLock, walletLock, handlerVars, ppc>>

\* A payment from outside arrives and is held.
LndAccepts(i) ==
  /\ lnd[i] = "open" /\ record[i] # "absent"
  /\ lnd' = [lnd EXCEPT ![i] = "held"]
  /\ UNCHANGED <<record, currency, credits, sent, hashLock, walletLock, handlerVars, ppc, faults>>

\* The invoice, or the payment it holds, expires.
LndExpires(i) ==
  /\ lnd[i] \in {"open", "held"}
  /\ lnd' = [lnd EXCEPT ![i] = "canceled"]
  /\ UNCHANGED <<record, currency, credits, sent, hashLock, walletLock, handlerVars, ppc, faults>>

\* lnd drops canceled invoices.
LndForgets(i) ==
  /\ lnd[i] = "canceled"
  /\ lnd' = [lnd EXCEPT ![i] = "gone"]
  /\ UNCHANGED <<record, currency, credits, sent, hashLock, walletLock, handlerVars, ppc, faults>>

\* deleteExpiredWalletInvoice: unpaid, and older than any invoice stays valid.
DeleteExpired(i) ==
  /\ record[i] = "pending" /\ lnd[i] \notin {"open", "held"}
  /\ record' = [record EXCEPT ![i] = "absent"]
  /\ UNCHANGED <<currency, lnd, credits, sent, hashLock, walletLock, handlerVars, ppc, faults>>

-----------------------------------------------------------------------------
(* updatePendingInvoice and declineHeldInvoice *)

Goto(h, point) == hpc' = [hpc EXCEPT ![h] = point] /\ UNCHANGED readVars

\* Back to idle, with nothing left of what the handler read.
Rest(h) ==
  /\ hpc' = [hpc EXCEPT ![h] = "idle"]
  /\ invoice' = [invoice EXCEPT ![h] = None]
  /\ snap' = [snap EXCEPT ![h] = "none"]
  /\ looked' = [looked EXCEPT ![h] = "none"]

\* Leave the callback of lockPaymentHash and return.  updatePendingInvoice marks the
\* invoice paid on every truthy result, an Error included, if it read it as unpaid.
Return(h, truthy) ==
  /\ IF truthy /\ snap[h] = "pending" THEN Goto(h, "mark") ELSE Rest(h)
  /\ hashLock' = [i \in Invoices |-> IF hashLock[i] = h THEN None ELSE hashLock[i]]

Start(h, i, point, read) ==
  /\ hpc[h] = "idle"
  /\ hpc' = [hpc EXCEPT ![h] = point]
  /\ invoice' = [invoice EXCEPT ![h] = i]
  /\ snap' = [snap EXCEPT ![h] = read]
  /\ UNCHANGED <<dataVars, hashLock, walletLock, looked, ppc, faults>>

\* Mutant: cron leaves the invoices of BTC wallets to the trigger.
HandleHeldInvoicesUsd(h, i) ==
  /\ record[i] = "pending"
  /\ currency[i] = "USD"
  /\ Start(h, i, "decline", "none")

\* handleHeldInvoices: cron updates unpaid BTC invoices and declines the USD ones.
HandleHeldInvoices(h, i) ==
  /\ record[i] = "pending"
  /\ IF currency[i] = "USD" THEN Start(h, i, "decline", "none")
                          ELSE Start(h, i, "lookup", "pending")

\* invoiceUpdateEventHandler: the trigger is told of a held invoice.
InvoiceUpdated(h, i) == lnd[i] = "held" /\ Start(h, i, "find", "none")

\* listenerExistingHodlInvoices, when the trigger starts.
ListenerExisting(h, i) ==
  /\ lnd[i] = "held"
  /\ record[i] = "absent" \/ currency[i] = "USD"
  /\ Start(h, i, "decline", "none")

\* updatePendingInvoiceByPaymentHash
FindByPaymentHash(h) ==
  /\ hpc[h] = "find"
  /\ IF record[invoice[h]] = "absent"
     THEN Rest(h)
     ELSE /\ hpc' = [hpc EXCEPT ![h] = "lookup"]
          /\ snap' = [snap EXCEPT ![h] = record[invoice[h]]]
          /\ UNCHANGED <<invoice, looked>>
  /\ UNCHANGED <<dataVars, hashLock, walletLock, ppc, faults>>

\* The first lookup.  Nothing is received on an invoice that is open or canceled, and
\* zero is no amount: such an invoice goes to declineHeldInvoice.
LookupInvoice(h) ==
  /\ hpc[h] = "lookup"
  /\ LET s == lnd[invoice[h]] IN
     \/ s = "gone" /\ Goto(h, "delete")
     \/ s \in {"open", "canceled"} /\ Goto(h, "decline")
     \/ s \in {"held", "settled"} /\ snap[h] = "paid" /\ Rest(h)
     \/ /\ s \in {"held", "settled"} /\ snap[h] # "paid"
        /\ hpc' = [hpc EXCEPT ![h] = "lock"]
        /\ looked' = [looked EXCEPT ![h] = s]
        /\ UNCHANGED <<invoice, snap>>
  /\ UNCHANGED <<dataVars, hashLock, walletLock, ppc, faults>>

\* InvoiceNotFoundError: the document goes; that it is gone already is an error.
DeleteByPaymentHash(h) ==
  /\ hpc[h] = "delete"
  /\ record' = [record EXCEPT ![invoice[h]] = "absent"]
  /\ Return(h, record[invoice[h]] = "absent")
  /\ UNCHANGED <<currency, lnd, credits, sent, walletLock, ppc, faults>>

\* The lookup of declineHeldInvoice; a settled invoice is InvalidNonHodlInvoiceError.
DeclineHeldInvoice(h) ==
  /\ hpc[h] = "decline"
  /\ LET s == lnd[invoice[h]] IN
     \/ s = "gone" /\ Goto(h, "delete") /\ UNCHANGED hashLock
     \/ s = "held" /\ Goto(h, "cancel") /\ UNCHANGED hashLock
     \/ s \in {"open", "canceled", "settled"} /\ Return(h, s = "settled")
  /\ UNCHANGED <<dataVars, walletLock, ppc, faults>>

\* cancelHodlInvoice: an invoice that is settled or not found is reported as canceled.
Canceled(i) == lnd' = [lnd EXCEPT ![i] = IF @ \in {"open", "held"} THEN "canceled" ELSE @]

CancelInvoice(h) ==
  /\ hpc[h] = "cancel"
  /\ Canceled(invoice[h])
  /\ Goto(h, "declineDelete")
  /\ UNCHANGED <<record, currency, credits, sent, hashLock, walletLock, ppc, faults>>

DeclineDelete(h) ==
  /\ hpc[h] = "declineDelete"
  /\ record' = [record EXCEPT ![invoice[h]] = "absent"]
  /\ Return(h, TRUE)
  /\ UNCHANGED <<currency, lnd, credits, sent, walletLock, ppc, faults>>

\* lockPaymentHash, or an Error after the retries while it is held.
LockPaymentHash(h) ==
  /\ hpc[h] = "lock"
  /\ hashLock[invoice[h]] = None
  /\ hashLock' = [hashLock EXCEPT ![invoice[h]] = h]
  /\ Goto(h, "recheck")
  /\ UNCHANGED <<dataVars, walletLock, ppc, faults>>

LockPaymentHashFails(h) ==
  /\ hpc[h] = "lock"
  /\ hashLock[invoice[h]] # None
  /\ Return(h, TRUE)
  /\ UNCHANGED <<dataVars, walletLock, ppc, faults>>

\* The document is read again, and then walletInvoice.paid, the first reading, is tested:
\* only that the document exists matters.
Recheck(h) ==
  /\ hpc[h] = "recheck"
  /\ IF record[invoice[h]] = "absent"
     THEN Return(h, FALSE)
     ELSE /\ Goto(h, IF looked[h] = "settled" THEN "markPaid" ELSE "settle")
          /\ UNCHANGED hashLock
  /\ UNCHANGED <<dataVars, walletLock, ppc, faults>>

\* Mutant: the answer of settleInvoice is not looked at.
SettleInvoiceUnchecked(h) ==
  /\ hpc[h] = "settle"
  /\ LET i == invoice[h] IN
     lnd' = [lnd EXCEPT ![i] = IF @ = "held" THEN "settled" ELSE @]
  /\ Goto(h, "markPaid")
  /\ UNCHANGED <<record, currency, credits, sent, hashLock, walletLock, ppc, faults>>

\* settleHodlInvoice: lnd settles a held invoice, answers success again for one that is
\* settled, and refuses any other.
SettleInvoice(h) ==
  /\ hpc[h] = "settle"
  /\ LET i == invoice[h] IN
     IF lnd[i] \in {"held", "settled"}
     THEN /\ lnd' = [lnd EXCEPT ![i] = "settled"]
          /\ Goto(h, "markPaid")
          /\ UNCHANGED hashLock
     ELSE Return(h, TRUE) /\ UNCHANGED lnd
  /\ UNCHANGED <<record, currency, credits, sent, walletLock, ppc, faults>>

\* Mutant: the document is marked after the ledger entry, by updatePendingInvoice.
MarkAsPaidLater(h) ==
  /\ hpc[h] = "markPaid"
  /\ Goto(h, "record")
  /\ UNCHANGED <<dataVars, hashLock, walletLock, ppc, faults>>

MarkAsPaid(h) ==
  /\ hpc[h] = "markPaid"
  /\ LET i == invoice[h] IN
     IF record[i] = "absent"
     THEN Return(h, TRUE) /\ UNCHANGED record
     ELSE /\ record' = [record EXCEPT ![i] = "paid"]
          /\ Goto(h, "record")
          /\ UNCHANGED hashLock
  /\ UNCHANGED <<currency, lnd, credits, sent, walletLock, ppc, faults>>

\* LedgerFacade.recordReceive
RecordReceive(h) ==
  /\ hpc[h] = "record"
  /\ credits' = [credits EXCEPT ![invoice[h]] = @ + 1]
  /\ Return(h, TRUE)
  /\ UNCHANGED <<record, currency, lnd, sent, walletLock, ppc, faults>>

\* updatePendingInvoice after a truthy result.
UpdatePendingInvoice(h) ==
  /\ hpc[h] = "mark"
  /\ LET i == invoice[h] IN
     record' = [record EXCEPT ![i] = IF @ = "absent" THEN @ ELSE "paid"]
  /\ Rest(h)
  /\ UNCHANGED <<currency, lnd, credits, sent, hashLock, walletLock, ppc, faults>>

\* A call to lnd, the database or the dealer returns an error, and so does the handler.
CallFails(h) ==
  /\ hpc[h] \notin {"idle", "mark"} /\ faults < MaxFaults
  /\ faults' = faults + 1
  /\ Return(h, TRUE)
  /\ UNCHANGED <<dataVars, walletLock, ppc>>

\* lnd settles the invoice and its answer is lost.
SettleReplyLost(h) ==
  /\ hpc[h] = "settle" /\ lnd[invoice[h]] = "held" /\ faults < MaxFaults
  /\ lnd' = [lnd EXCEPT ![invoice[h]] = "settled"]
  /\ faults' = faults + 1
  /\ Return(h, TRUE)
  /\ UNCHANGED <<record, currency, credits, sent, walletLock, ppc>>

\* The process dies; its lock stays until the ttl.
Crash(h) ==
  /\ hpc[h] # "idle" /\ faults < MaxFaults
  /\ faults' = faults + 1
  /\ Rest(h)
  /\ hashLock' = [i \in Invoices |-> IF hashLock[i] = h THEN Dead ELSE hashLock[i]]
  /\ UNCHANGED <<dataVars, walletLock, ppc>>

HashLockExpires(i) ==
  /\ hashLock[i] = Dead
  /\ hashLock' = [hashLock EXCEPT ![i] = None]
  /\ UNCHANGED <<dataVars, walletLock, handlerVars, ppc, faults>>

-----------------------------------------------------------------------------
(* executePaymentViaIntraledger *)

PGoto(p, point) == ppc' = [ppc EXCEPT ![p] = point]
PReturn(p, point) ==
  /\ PGoto(p, point)
  /\ walletLock' = [w \in Senders |-> IF walletLock[w] = p THEN None ELSE walletLock[w]]

\* isLnTxRecorded: a receipt or an intraledger payment with the hash.
IsLnTxRecorded(i) == credits[i] > 0 \/ \E q \in sent : InvoiceOf[q] = i

\* recipientDetailsFromInvoice: the invoice exists and is not paid.
RecipientDetails(p) ==
  /\ ppc[p] = "start"
  /\ lnd[InvoiceOf[p]] # "absent"
  /\ PGoto(p, IF record[InvoiceOf[p]] = "pending" THEN "lock" ELSE "returned")
  /\ UNCHANGED <<dataVars, hashLock, walletLock, handlerVars, faults>>

LockWalletId(p) ==
  /\ ppc[p] = "lock"
  /\ IF walletLock[WalletOf[p]] = None
     THEN walletLock' = [walletLock EXCEPT ![WalletOf[p]] = p] /\ PGoto(p, "check")
     ELSE UNCHANGED walletLock /\ PGoto(p, "returned")
  /\ UNCHANGED <<dataVars, hashLock, handlerVars, faults>>

\* Mutant: the ledger is not asked whether the invoice has been paid.
CheckRecordedNever(p) ==
  /\ ppc[p] = "check"
  /\ PGoto(p, "record")
  /\ UNCHANGED <<dataVars, hashLock, walletLock, handlerVars, faults>>

\* AlreadyPaid; the balance check or an aborted signal may turn the payment down too.
CheckRecorded(p) ==
  /\ ppc[p] = "check"
  /\ \/ PReturn(p, "returned")
     \/ ~IsLnTxRecorded(InvoiceOf[p]) /\ PGoto(p, "record") /\ UNCHANGED walletLock
  /\ UNCHANGED <<dataVars, hashLock, handlerVars, faults>>

RecordIntraledger(p) ==
  /\ ppc[p] = "record"
  /\ sent' = sent \cup {p}
  /\ PGoto(p, "cancel")
  /\ UNCHANGED <<record, currency, lnd, credits, hashLock, walletLock, handlerVars, faults>>

\* Mutant: the invoice stays payable in lnd.
PCancelInvoiceSkipped(p) ==
  /\ ppc[p] = "cancel"
  /\ PGoto(p, "mark")
  /\ UNCHANGED <<dataVars, hashLock, walletLock, handlerVars, faults>>

PCancelInvoice(p) ==
  /\ ppc[p] = "cancel"
  /\ Canceled(InvoiceOf[p])
  /\ PGoto(p, "mark")
  /\ UNCHANGED <<record, currency, credits, sent, hashLock, walletLock, handlerVars, faults>>

PMarkAsPaid(p) ==
  /\ ppc[p] = "mark"
  /\ LET i == InvoiceOf[p] IN
     IF record[i] = "absent"
     THEN PReturn(p, "returned") /\ UNCHANGED record
     ELSE PReturn(p, "success") /\ record' = [record EXCEPT ![i] = "paid"]
  /\ UNCHANGED <<currency, lnd, credits, sent, hashLock, handlerVars, faults>>

\* A call fails or the process dies; the lock is free at once or after the ttl.
PayerFails(p) ==
  /\ ppc[p] \notin {"start", "success", "returned"} /\ faults < MaxFaults
  /\ faults' = faults + 1
  /\ PGoto(p, "returned")
  /\ \E next \in {None, Dead} :
       walletLock' = [w \in Senders |-> IF walletLock[w] = p THEN next ELSE walletLock[w]]
  /\ UNCHANGED <<dataVars, hashLock, handlerVars>>

WalletLockExpires(w) ==
  /\ walletLock[w] = Dead
  /\ walletLock' = [walletLock EXCEPT ![w] = None]
  /\ UNCHANGED <<dataVars, hashLock, handlerVars, ppc, faults>>

-----------------------------------------------------------------------------

HandlerStep(h) ==
  \/ FindByPaymentHash(h) \/ LookupInvoice(h) \/ DeleteByPaymentHash(h)
  \/ DeclineHeldInvoice(h) \/ CancelInvoice(h) \/ DeclineDelete(h)
  \/ LockPaymentHash(h) \/ LockPaymentHashFails(h) \/ Recheck(h)
  \/ SettleInvoice(h) \/ MarkAsPaid(h) \/ RecordReceive(h) \/ UpdatePendingInvoice(h)

PayerStep(p) ==
  \/ RecipientDetails(p) \/ LockWalletId(p) \/ CheckRecorded(p)
  \/ RecordIntraledger(p) \/ PCancelInvoice(p) \/ PMarkAsPaid(p)

InvoiceStep(i) ==
  \/ AddInvoice(i) \/ PersistNewFails(i) \/ LndAccepts(i) \/ LndExpires(i)
  \/ LndForgets(i) \/ DeleteExpired(i) \/ HashLockExpires(i)

\* Every handler and payer is at rest and no invoice is waiting.
AtRest ==
  /\ \A h \in Handlers : hpc[h] = "idle"
  /\ \A i \in Invoices : record[i] # "pending" /\ lnd[i] \notin {"open", "held"}

Done == AtRest /\ UNCHANGED vars

Next ==
  \/ \E i \in Invoices :
       \/ InvoiceStep(i)
       \/ \E h \in Handlers : \/ HandleHeldInvoices(h, i) \/ InvoiceUpdated(h, i)
                              \/ ListenerExisting(h, i)
  \/ \E h \in Handlers : HandlerStep(h) \/ CallFails(h) \/ SettleReplyLost(h) \/ Crash(h)
  \/ \E p \in Payers : PayerStep(p) \/ PayerFails(p)
  \/ \E w \in Senders : WalletLockExpires(w)
  \/ Done

Spec == Init /\ [][Next]_vars

\* A handler runs on once started, a lock with a dead holder expires, and cron keeps
\* sweeping the invoices that are not paid.
Fairness ==
  /\ \A h \in Handlers : WF_vars(HandlerStep(h))
  /\ \A i \in Invoices : /\ WF_vars(HashLockExpires(i))
                         /\ SF_vars(\E h \in Handlers : HandleHeldInvoices(h, i))

FairSpec == Spec /\ Fairness

-----------------------------------------------------------------------------
(* Properties *)

\* recordReceive credits a recipient only with a payment lnd has settled, whatever other
\* handlers and payers do to the invoice between the lookup, the settling and the entry.
CreditOnlySettled == \A i \in Invoices : credits[i] > 0 => lnd[i] = "settled"

\* markAsPaid comes before recordReceive: an invoice that has been credited is never again
\* one that cron sweeps, even when the process dies between the two.
CreditedNotPending == \A i \in Invoices : credits[i] > 0 => record[i] # "pending"

\* isLnTxRecorded under lockWalletId: a wallet pays an invoice at most once inside the
\* ledger, however its requests interleave.
WalletPaysOnce ==
  \A p, q \in sent : (WalletOf[p] = WalletOf[q] /\ InvoiceOf[p] = InvoiceOf[q]) => p = q

\* executePaymentViaIntraledger cancels the invoice before it reports success: from then
\* on nobody outside can pay it too, even if a payment arrived in between.
PaidInsideClosed ==
  \A p \in Payers : ppc[p] = "success" => lnd[InvoiceOf[p]] \notin {"open", "held"}

\* A payment held in lnd is settled or canceled in the end, unless an error made
\* updatePendingInvoice mark the invoice as paid.
HeldResolved ==
  \A i \in Invoices : lnd[i] = "held" ~> (lnd[i] # "held" \/ record[i] = "paid")

\* The second reading of the invoice, behind the lock, keeps two handlers from crediting
\* one payment twice.
CreditedOnce == \A i \in Invoices : credits[i] <= 1
=============================================================================
