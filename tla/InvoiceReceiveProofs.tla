------------------------ MODULE InvoiceReceiveProofs ------------------------
(***************************************************************************)
(* Proofs about InvoiceReceive, for any number of invoices, handlers,      *)
(* payers and faults.                                                      *)
(***************************************************************************)
EXTENDS InvoiceReceive, TLAPS

\* A handler past its start has an invoice.
TypeInv == TypeOK /\ \A h \in Handlers : hpc[h] # "idle" => invoice[h] \in Invoices

\* A receipt is backed: what a handler knows to be settled is settled, and when it is
\* about to credit an invoice, that is no longer pending.
Backed ==
  /\ \A h \in Handlers : hpc[h] = "idle" => looked[h] = "none"
  /\ \A h \in Handlers :
       hpc[h] # "idle" =>
         /\ looked[h] = "settled" \/ hpc[h] \in {"markPaid", "record"}
              => lnd[invoice[h]] = "settled"
         /\ hpc[h] = "record" => record[invoice[h]] # "pending"
  /\ \A i \in Invoices : credits[i] > 0 => lnd[i] = "settled" /\ record[i] # "pending"

-----------------------------------------------------------------------------

\* The types hold at first.
LEMMA TypeInit == Init => TypeInv
BY ReceiveAssumption DEF Init, TypeInv, TypeOK, HandlerPoints, PayerPoints, LndStates

\* What a handler may do to the types.
LEMMA HandlerTypes ==
  ASSUME TypeInv, NEW h \in Handlers, HandlerStep(h) \/ CallFails(h) \/ SettleReplyLost(h) \/ Crash(h)
  PROVE  TypeInv'
<1> USE DEF TypeInv, TypeOK, HandlerPoints, LndStates, Goto, Rest, Return, dataVars, readVars
<1>1. CASE FindByPaymentHash(h) BY <1>1, SMTT(60) DEF FindByPaymentHash
<1>2. CASE LookupInvoice(h) BY <1>2, SMTT(60) DEF LookupInvoice
<1>3. CASE DeleteByPaymentHash(h) BY <1>3, SMTT(60) DEF DeleteByPaymentHash
<1>4. CASE DeclineHeldInvoice(h) BY <1>4, SMTT(60) DEF DeclineHeldInvoice
<1>5. CASE CancelInvoice(h) BY <1>5 DEF CancelInvoice, Canceled
<1>6. CASE DeclineDelete(h) BY <1>6, SMTT(60) DEF DeclineDelete
<1>7. CASE LockPaymentHash(h) BY <1>7 DEF LockPaymentHash
<1>8. CASE LockPaymentHashFails(h) BY <1>8, SMTT(60) DEF LockPaymentHashFails
<1>9. CASE Recheck(h) BY <1>9, SMTT(60) DEF Recheck
<1>10. CASE SettleInvoice(h) BY <1>10, SMTT(60) DEF SettleInvoice
<1>11. CASE MarkAsPaid(h) BY <1>11, SMTT(60) DEF MarkAsPaid
<1>12. CASE RecordReceive(h) BY <1>12, SMTT(60) DEF RecordReceive
<1>13. CASE UpdatePendingInvoice(h) BY <1>13 DEF UpdatePendingInvoice
<1>14. CASE CallFails(h) BY <1>14, ReceiveAssumption, SMTT(60) DEF CallFails
<1>15. CASE SettleReplyLost(h)
  <2>1. faults' \in 0..MaxFaults
    BY <1>15, ReceiveAssumption DEF SettleReplyLost
  <2>2. lnd' \in [Invoices -> LndStates]
    BY <1>15 DEF SettleReplyLost
  <2> QED
    BY <1>15, <2>1, <2>2, SMTT(60) DEF SettleReplyLost
<1>16. CASE Crash(h) BY <1>16, ReceiveAssumption DEF Crash
<1> QED
  BY <1>1, <1>2, <1>3, <1>4, <1>5, <1>6, <1>7, <1>8, <1>9, <1>10, <1>11, <1>12, <1>13,
     <1>14, <1>15, <1>16, Zenon DEF HandlerStep

\* What starts a handler keeps the types.
LEMMA StartTypes ==
  ASSUME TypeInv, NEW h \in Handlers, NEW i \in Invoices,
         HandleHeldInvoices(h, i) \/ InvoiceUpdated(h, i) \/ ListenerExisting(h, i)
  PROVE  TypeInv'
BY SMTT(60) DEF HandleHeldInvoices, InvoiceUpdated, ListenerExisting, Start, Goto, TypeInv, TypeOK,
   HandlerPoints, dataVars

\* What lnd and the sweeps of expired documents do keeps the types.
LEMMA InvoiceTypes ==
  ASSUME TypeInv, NEW i \in Invoices, InvoiceStep(i)
  PROVE  TypeInv'
BY ReceiveAssumption, SMTT(60) DEF InvoiceStep, AddInvoice, PersistNewFails, LndAccepts, LndExpires, LndForgets,
   DeleteExpired, HashLockExpires, TypeInv, TypeOK, LndStates, dataVars, readVars, handlerVars

\* What a payer does keeps the types.
LEMMA PayerTypes ==
  ASSUME TypeInv, NEW p \in Payers, PayerStep(p) \/ PayerFails(p)
  PROVE  TypeInv'
<1> USE ReceiveAssumption
    DEF TypeInv, TypeOK, PayerPoints, LndStates, PGoto, PReturn, dataVars, readVars, handlerVars
<1>1. CASE RecipientDetails(p) BY <1>1 DEF RecipientDetails
<1>2. CASE LockWalletId(p) BY <1>2, SMTT(60) DEF LockWalletId
<1>3. CASE CheckRecorded(p) BY <1>3, SMTT(60) DEF CheckRecorded
<1>4. CASE RecordIntraledger(p) BY <1>4 DEF RecordIntraledger
<1>5. CASE PCancelInvoice(p) BY <1>5 DEF PCancelInvoice, Canceled
<1>6. CASE PMarkAsPaid(p) BY <1>6, SMTT(60) DEF PMarkAsPaid
<1>7. CASE PayerFails(p) BY <1>7 DEF PayerFails
<1> QED
  BY <1>1, <1>2, <1>3, <1>4, <1>5, <1>6, <1>7, ZenonT(60) DEF PayerStep

\* Every step keeps the types.
LEMMA TypeStep == TypeInv /\ [Next]_vars => TypeInv'
<1> SUFFICES ASSUME TypeInv, [Next]_vars PROVE TypeInv'
  OBVIOUS
<1>1. CASE UNCHANGED vars
  BY <1>1 DEF vars, dataVars, readVars, handlerVars, TypeInv, TypeOK
<1>2. ASSUME NEW w \in Senders, WalletLockExpires(w) PROVE TypeInv'
  BY <1>2 DEF WalletLockExpires, TypeInv, TypeOK, dataVars, readVars, handlerVars
<1> QED
  BY <1>1, <1>2, HandlerTypes, StartTypes, InvoiceTypes, PayerTypes DEF Next, Done

\* Every variable keeps its type (the type invariant of the module).
THEOREM TypeCorrect == Spec => []TypeOK
<1>1. TypeInv => TypeOK
  BY DEF TypeInv
<1> QED
  BY <1>1, TypeInit, TypeStep, PTL DEF Spec

-----------------------------------------------------------------------------

\* The steps of a handler keep receipts backed: only RecordReceive credits, after
\* MarkAsPaid, and lnd never takes a settlement back.
LEMMA HandlerBacked ==
  ASSUME TypeInv, Backed, NEW h \in Handlers,
         HandlerStep(h) \/ CallFails(h) \/ SettleReplyLost(h) \/ Crash(h)
  PROVE  Backed'
<1> USE DEF TypeInv, TypeOK, Backed, Goto, Rest, Return, dataVars, readVars
<1>1. CASE FindByPaymentHash(h) BY <1>1, SMTT(60) DEF FindByPaymentHash
<1>2. CASE LookupInvoice(h) BY <1>2 DEF LookupInvoice
<1>3. CASE DeleteByPaymentHash(h) BY <1>3 DEF DeleteByPaymentHash
<1>4. CASE DeclineHeldInvoice(h) BY <1>4, SMTT(60) DEF DeclineHeldInvoice
<1>5. CASE CancelInvoice(h) BY <1>5 DEF CancelInvoice, Canceled
<1>6. CASE DeclineDelete(h) BY <1>6, SMTT(60) DEF DeclineDelete
<1>7. CASE LockPaymentHash(h) BY <1>7 DEF LockPaymentHash
<1>8. CASE LockPaymentHashFails(h) BY <1>8, SMTT(60) DEF LockPaymentHashFails
<1>9. CASE Recheck(h) BY <1>9, SMTT(60) DEF Recheck
<1>10. CASE SettleInvoice(h) BY <1>10, SMTT(60) DEF SettleInvoice
<1>11. CASE MarkAsPaid(h) BY <1>11, SMTT(60) DEF MarkAsPaid
<1>12. CASE RecordReceive(h) BY <1>12, SMTT(60) DEF RecordReceive
<1>13. CASE UpdatePendingInvoice(h) BY <1>13 DEF UpdatePendingInvoice
<1>14. CASE CallFails(h) BY <1>14 DEF CallFails
<1>15. CASE SettleReplyLost(h) BY <1>15, SMTT(60) DEF SettleReplyLost
<1>16. CASE Crash(h) BY <1>16 DEF Crash
<1> QED
  BY <1>1, <1>2, <1>3, <1>4, <1>5, <1>6, <1>7, <1>8, <1>9, <1>10, <1>11, <1>12, <1>13,
     <1>14, <1>15, <1>16, Zenon DEF HandlerStep

\* Nobody else credits, unsettles an invoice, or makes a document pending again.
LEMMA OthersBacked ==
  ASSUME TypeInv, Backed,
         \/ \E i \in Invoices : InvoiceStep(i)
         \/ \E p \in Payers : PayerStep(p) \/ PayerFails(p)
         \/ \E w \in Senders : WalletLockExpires(w)
  PROVE  Backed'
<1>1. /\ UNCHANGED <<credits, handlerVars>>
      /\ \A i \in Invoices : /\ lnd[i] = "settled" => lnd'[i] = "settled"
                             /\ lnd[i] = "settled" /\ record'[i] = "pending"
                                  => record[i] = "pending"
  <2>1. ASSUME NEW i \in Invoices, InvoiceStep(i) PROVE <1>1
    BY <2>1, ZenonT(60) DEF InvoiceStep, AddInvoice, PersistNewFails, LndAccepts, LndExpires, LndForgets,
       DeleteExpired, HashLockExpires, TypeInv, TypeOK, dataVars
  <2>2. ASSUME NEW p \in Payers, PayerStep(p) \/ PayerFails(p) PROVE <1>1
    BY <2>2, ReceiveAssumption, ZenonT(60) DEF PayerStep, PayerFails, RecipientDetails, LockWalletId,
       CheckRecorded, RecordIntraledger, PCancelInvoice, Canceled, PMarkAsPaid, TypeInv, TypeOK,
       dataVars
  <2>3. ASSUME NEW w \in Senders, WalletLockExpires(w) PROVE <1>1
    BY <2>3, ZenonT(60) DEF WalletLockExpires, dataVars
  <2> QED
    BY <2>1, <2>2, <2>3
<1> QED
  BY <1>1, ZenonT(60) DEF Backed, TypeInv, handlerVars, readVars

\* Every step keeps receipts backed.
LEMMA BackedStep == TypeInv /\ Backed /\ [Next]_vars => Backed'
<1> SUFFICES ASSUME TypeInv, Backed, [Next]_vars PROVE Backed'
  OBVIOUS
<1>1. CASE UNCHANGED vars
  BY <1>1 DEF vars, dataVars, readVars, handlerVars, Backed
<1>2. ASSUME NEW h \in Handlers, NEW i \in Invoices,
             HandleHeldInvoices(h, i) \/ InvoiceUpdated(h, i) \/ ListenerExisting(h, i)
      PROVE  Backed'
  <2>1. /\ UNCHANGED <<dataVars, looked>>
        /\ hpc[h] = "idle"
        /\ \E pt \in {"lookup", "decline", "find"} : hpc' = [hpc EXCEPT ![h] = pt]
        /\ invoice' = [invoice EXCEPT ![h] = i]
    BY <1>2 DEF HandleHeldInvoices, InvoiceUpdated, ListenerExisting, Start
  <2> QED
    BY <2>1 DEF Backed, TypeInv, TypeOK, dataVars
<1> QED
  BY <1>1, <1>2, HandlerBacked, OthersBacked DEF Next, Done

\* Receipts are backed in every state.
LEMMA BackedInductive ==
  /\ Init => TypeInv /\ Backed
  /\ TypeInv /\ Backed /\ [Next]_vars => (TypeInv /\ Backed)'
<1>1. Init => Backed
  BY DEF Init, Backed
<1> QED
  BY <1>1, TypeInit, TypeStep, BackedStep

\* No recipient is credited with a payment that lnd did not settle, for any number of
\* concurrent handlers, payers inside the bank, crashes and failed calls.
THEOREM ReceiptsBacked == Spec => []CreditOnlySettled
<1>1. Backed => CreditOnlySettled
  BY DEF Backed, CreditOnlySettled
<1> QED
  BY <1>1, BackedInductive, PTL DEF Spec

\* An invoice that was credited is not pending, so that cron does not sweep it again:
\* markAsPaid comes before the credit and nothing makes a document pending again.
THEOREM CreditClosesInvoice == Spec => []CreditedNotPending
<1>1. Backed => CreditedNotPending
  BY DEF Backed, CreditedNotPending
<1> QED
  BY <1>1, BackedInductive, PTL DEF Spec

-----------------------------------------------------------------------------

\* A payer inside the critical section holds its wallet, and no payment of the same
\* invoice from that wallet is in the ledger when it is about to record one.
Exclusive ==
  /\ \A p \in Payers : /\ ppc[p] \in {"check", "record", "cancel", "mark"}
                            => walletLock[WalletOf[p]] = p
                       /\ p \in sent => ppc[p] \in {"cancel", "mark", "success", "returned"}
                       /\ ppc[p] = "record"
                            => \A q \in sent : WalletOf[q] = WalletOf[p]
                                                => InvoiceOf[q] # InvoiceOf[p]
  /\ WalletPaysOnce

\* Past the cancellation the invoice is closed in lnd, and it is not created again.
Closed ==
  \A p \in Payers : /\ ppc[p] # "start" => lnd[InvoiceOf[p]] # "absent"
                    /\ ppc[p] \in {"mark", "success"}
                         => lnd[InvoiceOf[p]] \notin {"open", "held"}

\* What a handler does leaves the payers alone.
LEMMA HandlersLeavePayers ==
  ASSUME NEW h \in Handlers, HandlerStep(h) \/ CallFails(h) \/ SettleReplyLost(h) \/ Crash(h)
  PROVE  UNCHANGED <<sent, walletLock, ppc>>
BY Zenon
DEF HandlerStep, FindByPaymentHash, LookupInvoice, DeleteByPaymentHash, DeclineHeldInvoice,
    CancelInvoice, DeclineDelete, LockPaymentHash, LockPaymentHashFails, Recheck,
    SettleInvoice, MarkAsPaid, RecordReceive, UpdatePendingInvoice, CallFails,
    SettleReplyLost, Crash, dataVars

\* Every step keeps the payers of a wallet apart.
LEMMA ExclusiveStep == TypeInv /\ Exclusive /\ [Next]_vars => Exclusive'
<1> SUFFICES ASSUME TypeInv, Exclusive, [Next]_vars PROVE Exclusive'
  OBVIOUS
<1> USE ReceiveAssumption DEF TypeInv, TypeOK, Exclusive, WalletPaysOnce, PGoto, PReturn, dataVars
<1>1. ASSUME NEW p \in Payers, RecipientDetails(p) PROVE Exclusive'
  BY <1>1 DEF RecipientDetails
<1>2. ASSUME NEW p \in Payers, LockWalletId(p) PROVE Exclusive'
  BY <1>2, SMTT(60) DEF LockWalletId
<1>3. ASSUME NEW p \in Payers, CheckRecorded(p) PROVE Exclusive'
  BY <1>3, SMTT(60) DEF CheckRecorded, IsLnTxRecorded
<1>4. ASSUME NEW p \in Payers, RecordIntraledger(p) PROVE Exclusive'
  BY <1>4 DEF RecordIntraledger
<1>5. ASSUME NEW p \in Payers, PCancelInvoice(p) PROVE Exclusive'
  BY <1>5 DEF PCancelInvoice
<1>6. ASSUME NEW p \in Payers, PMarkAsPaid(p) PROVE Exclusive'
  BY <1>6, SMTT(60) DEF PMarkAsPaid
<1>7. ASSUME NEW p \in Payers, PayerFails(p) PROVE Exclusive'
  BY <1>7 DEF PayerFails
<1>8. ASSUME NEW w \in Senders, WalletLockExpires(w) PROVE Exclusive'
  BY <1>8 DEF WalletLockExpires
<1>9. CASE UNCHANGED <<sent, walletLock, ppc>>
  BY <1>9
<1>10. ASSUME NEW i \in Invoices,
              \/ InvoiceStep(i)
              \/ \E h \in Handlers : \/ HandleHeldInvoices(h, i) \/ InvoiceUpdated(h, i)
                                     \/ ListenerExisting(h, i)
       PROVE  UNCHANGED <<sent, walletLock, ppc>>
  BY <1>10, ZenonT(60) DEF InvoiceStep, AddInvoice, PersistNewFails, LndAccepts, LndExpires, LndForgets,
     DeleteExpired, HashLockExpires, HandleHeldInvoices, InvoiceUpdated, ListenerExisting, Start
<1>11. CASE \E p \in Payers : PayerStep(p)
  BY <1>1, <1>2, <1>3, <1>4, <1>5, <1>6, <1>11, Zenon DEF PayerStep
<1>12. CASE UNCHANGED vars
  BY <1>9, <1>12, Zenon DEF vars
<1> QED
  BY <1>7, <1>8, <1>9, <1>10, <1>11, <1>12, HandlersLeavePayers, ZenonT(60) DEF Next, Done

\* Every step keeps closed what a payer closed.
LEMMA ClosedStep == TypeInv /\ Closed /\ [Next]_vars => Closed'
<1> SUFFICES ASSUME TypeInv, Closed, [Next]_vars PROVE Closed'
  BY ZenonT(60)
<1> USE ReceiveAssumption DEF TypeInv, TypeOK, PGoto, PReturn, dataVars
<1>1. ASSUME NEW p \in Payers, PayerStep(p) \/ PayerFails(p) PROVE Closed'
  BY <1>1 DEF Closed, PayerStep, PayerFails, RecipientDetails, LockWalletId, CheckRecorded,
     RecordIntraledger, PCancelInvoice, Canceled, PMarkAsPaid
<1>2. ASSUME UNCHANGED ppc,
             \A i \in Invoices : lnd[i] \in {"settled", "canceled", "gone"}
                                  => lnd'[i] \in {"settled", "canceled", "gone"},
             \A i \in Invoices : lnd[i] # "absent" => lnd'[i] # "absent"
      PROVE  Closed'
  BY <1>2, SMTT(60) DEF Closed, LndStates
<1>3. ASSUME NEW i \in Invoices, InvoiceStep(i) PROVE Closed'
  BY <1>2, <1>3, ZenonT(60) DEF InvoiceStep, AddInvoice, PersistNewFails, LndAccepts, LndExpires, LndForgets,
     DeleteExpired, HashLockExpires
<1>4. ASSUME NEW h \in Handlers, CancelInvoice(h) \/ SettleInvoice(h) \/ SettleReplyLost(h)
      PROVE  Closed'
  <2>1. UNCHANGED ppc /\ invoice[h] \in Invoices
    BY <1>4, Zenon DEF CancelInvoice, SettleInvoice, SettleReplyLost
  <2>2. \A i \in Invoices :
          lnd'[i] = lnd[i] \/ (lnd[i] \in {"open", "held"} /\ lnd'[i] \in {"canceled", "settled"})
    <3>1. CASE CancelInvoice(h)
      BY <2>1, <3>1 DEF CancelInvoice, Canceled
    <3>2. CASE lnd[invoice[h]] \in {"held", "settled"} /\ lnd' = [lnd EXCEPT ![invoice[h]] = "settled"]
      BY <2>1, <3>2
    <3>3. CASE UNCHANGED lnd
      BY <3>3
    <3> QED
      BY <1>4, <3>1, <3>2, <3>3, Zenon DEF SettleInvoice, SettleReplyLost
  <2> QED
    BY <1>2, <2>1, <2>2, SMTT(60)
<1>5. CASE UNCHANGED <<lnd, ppc>>
  BY <1>2, <1>5
<1> QED
  BY <1>1, <1>3, <1>4, <1>5, ZenonT(60)
  DEF Next, Done, vars, HandlerStep, HandleHeldInvoices, InvoiceUpdated, ListenerExisting, Start,
      FindByPaymentHash, LookupInvoice, DeleteByPaymentHash, DeclineHeldInvoice, DeclineDelete,
      LockPaymentHash, LockPaymentHashFails, Recheck, MarkAsPaid, RecordReceive,
      UpdatePendingInvoice, CallFails, Crash, WalletLockExpires

\* A wallet pays an invoice inside the ledger once at most: the payer looks for its
\* payment behind the lock of its wallet, for any number of payers and handlers.
THEOREM PaidInsideOnce == Spec => []WalletPaysOnce
<1>1. Init => Exclusive
  BY DEF Init, Exclusive, WalletPaysOnce
<1>2. Exclusive => WalletPaysOnce
  BY DEF Exclusive
<1> QED
  BY <1>1, <1>2, TypeInit, TypeStep, ExclusiveStep, PTL DEF Spec

\* An invoice paid inside the ledger can no longer be paid from outside once the payer is
\* told of the success: it was canceled in lnd, or settled before that.
THEOREM PaidInsideCloses == Spec => []PaidInsideClosed
<1>1. Init => Closed
  BY DEF Init, Closed
<1>2. Closed => PaidInsideClosed
  BY ZenonT(60) DEF Closed, PaidInsideClosed
<1> QED
  BY <1>1, <1>2, TypeInit, TypeStep, ClosedStep, PTL DEF Spec

-----------------------------------------------------------------------------

\* What one handler at a time knows: the invoice it is about to credit has no credit.
Uncredited ==
  /\ \A h \in Handlers :
       /\ hpc[h] \in {"lock", "recheck", "settle", "markPaid", "record"} => snap[h] = "pending"
       /\ hpc[h] \notin {"idle", "mark"} /\ snap[h] = "pending" => credits[invoice[h]] = 0
       /\ hpc[h] \in {"idle", "find"} => snap[h] = "none"
       /\ hpc[h] = "lookup" => snap[h] # "none"
  /\ CreditedOnce

\* Every step keeps it, when handlers run one at a time.
LEMMA UncreditedStep ==
  ASSUME \A g, h \in Handlers : g = h, TypeInv, Backed, Uncredited, [Next]_vars
  PROVE  Uncredited'
<1> USE DEF TypeInv, TypeOK, Uncredited, CreditedOnce, dataVars, readVars, handlerVars
<1>1. ASSUME NEW h \in Handlers, RecordReceive(h) PROVE Uncredited'
  BY <1>1, SMTT(60) DEF RecordReceive, Return, Goto, Rest
<1>2. ASSUME NEW h \in Handlers, FindByPaymentHash(h) PROVE Uncredited'
  BY <1>2 DEF FindByPaymentHash, Rest, Backed
<1>3. ASSUME NEW h \in Handlers, NEW i \in Invoices,
             HandleHeldInvoices(h, i) \/ InvoiceUpdated(h, i) \/ ListenerExisting(h, i)
      PROVE  Uncredited'
  BY <1>3 DEF HandleHeldInvoices, InvoiceUpdated, ListenerExisting, Start, Backed
<1>4. ASSUME NEW h \in Handlers,
             (HandlerStep(h) /\ ~RecordReceive(h) /\ ~FindByPaymentHash(h))
               \/ CallFails(h) \/ SettleReplyLost(h) \/ Crash(h)
      PROVE  Uncredited'
  <2>1. UNCHANGED credits
    BY <1>4, Zenon DEF HandlerStep, LookupInvoice, DeleteByPaymentHash, DeclineHeldInvoice, CancelInvoice,
       DeclineDelete, LockPaymentHash, LockPaymentHashFails, Recheck, SettleInvoice, MarkAsPaid,
       UpdatePendingInvoice, CallFails, SettleReplyLost, Crash
  <2>2. \/ Rest(h)
        \/ /\ UNCHANGED <<invoice, snap>>
           /\ \/ hpc' = [hpc EXCEPT ![h] = "mark"]
              \/ /\ hpc[h] \in {"lookup", "decline"}
                 /\ \E pt \in {"delete", "decline", "cancel"} : hpc' = [hpc EXCEPT ![h] = pt]
              \/ hpc[h] = "cancel" /\ hpc' = [hpc EXCEPT ![h] = "declineDelete"]
              \/ /\ hpc[h] = "lookup" /\ snap[h] # "paid"
                 /\ hpc' = [hpc EXCEPT ![h] = "lock"]
              \/ /\ hpc[h] \in {"lock", "recheck", "settle", "markPaid"}
                 /\ \E pt \in {"recheck", "settle", "markPaid", "record"} :
                      hpc' = [hpc EXCEPT ![h] = pt]
    BY <1>4, ZenonT(60) DEF HandlerStep, LookupInvoice, DeleteByPaymentHash, DeclineHeldInvoice, CancelInvoice,
       DeclineDelete, LockPaymentHash, LockPaymentHashFails, Recheck, SettleInvoice, MarkAsPaid,
       UpdatePendingInvoice, CallFails, SettleReplyLost, Crash, Return, Goto
  <2> QED
    BY <2>1, <2>2 DEF Rest, HandlerPoints
<1>5. CASE UNCHANGED <<credits, handlerVars>>
  BY <1>5
<1> QED
  BY <1>1, <1>2, <1>3, <1>4, <1>5, ZenonT(60)
  DEF Next, Done, vars, PayerStep, InvoiceStep, AddInvoice, PersistNewFails, LndAccepts,
      LndExpires, LndForgets, DeleteExpired, HashLockExpires, RecipientDetails, LockWalletId,
      CheckRecorded, RecordIntraledger, PCancelInvoice, PMarkAsPaid, PayerFails, WalletLockExpires

\* While invoices are handled one at a time, crashes, failed calls and retries by cron
\* never credit an invoice twice.  Two handlers at a time do.
THEOREM SequentialCreditOnce ==
  ASSUME \A g, h \in Handlers : g = h
  PROVE  Spec => []CreditedOnce
<1>1. Init => Uncredited
  BY DEF Init, Uncredited, CreditedOnce
<1>2. TypeInv /\ Backed /\ Uncredited /\ [Next]_vars => Uncredited'
  BY UncreditedStep
<1>3. Uncredited => CreditedOnce
  BY DEF Uncredited
<1> QED
  BY <1>1, <1>2, <1>3, BackedInductive, PTL DEF Spec
=============================================================================
