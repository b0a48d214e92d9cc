---------------------------- MODULE LnSendProofs ----------------------------
(***************************************************************************)
(* Proofs about LnSend, for any wallets, requests, reconcilers and amounts:*)
(* types, what the wallet's lock excludes, refunds of payments that were   *)
(* tried again, the refinement of LnSendContract, and the books of an      *)
(* account.                                                                *)
(***************************************************************************)
EXTENDS LnSend, TLAPS

-----------------------------------------------------------------------------
(* Types.  A reimbursed fee is a number only because a payment that the    *)
(* code takes for settled is settled in lnd, under the hash at hand.       *)

Visiting == WorkerPoints \ {"idle", "next"}
Judged == Visiting \ {"lookup"}
Flipping == {"settle", "settleRest", "settleWon", "resolve"}

SettledIn(h) == \E b \in SameHash(h) : htlc[b] = "settled"

LedgerTypes ==
  /\ balance \in [Wallets -> Int]
  /\ journal \in [Attempts -> {"none", "pending", "half", "settled"}]
  /\ voided \subseteq Attempts
  /\ credits \in [Attempts -> Nat]
  /\ feeBacks \in [Attempts -> Nat]

FlowTypes == flowPending \subseteq Wallets \X Hashes /\ flowWrite \subseteq Attempts

RequestTypes ==
  /\ walletLock \in [Wallets -> Attempts \cup {None}]
  /\ pc \in [Attempts -> RequestPoints]
  /\ result \in [Attempts -> {"none", "paid", "failed"}]
  /\ htlc \in [Attempts -> {"none", "inflight", "settled", "failed"}]
  /\ fee \in [Attempts -> 0..MaxFee]
  /\ \A a \in Attempts : result[a] = "paid" => htlc[a] = "settled"

WorkerTypes ==
  /\ hashLock \in [Hashes -> Workers \cup {None}]
  /\ wpc \in [Workers -> WorkerPoints]
  /\ owner \in [Workers -> Wallets \cup {Dealer, None}]
  /\ todo \in [Workers -> SUBSET Attempts]
  /\ job \in [Workers -> Attempts \cup {None}]
  /\ seen \in [Workers -> {"none", "settled", "failed"}]
  /\ payer \in [Workers -> Attempts \cup {None}]
  /\ \A k \in Workers : wpc[k] \in Visiting => job[k] \in Attempts
  /\ \A k \in Workers : wpc[k] \in Flipping =>
       payer[k] \in Attempts /\ HashOf[payer[k]] = HashOf[job[k]]
  /\ \A k \in Workers : wpc[k] \in Judged /\ seen[k] = "settled" => SettledIn(HashOf[job[k]])

TypeInv == LedgerTypes /\ FlowTypes /\ RequestTypes /\ WorkerTypes

\* The type invariant of the runs is part of it.
LEMMA TypeInvImplies == TypeInv => TypeOK
BY Zenon DEF TypeInv, LedgerTypes, FlowTypes, RequestTypes, WorkerTypes, TypeOK

\* The fee of a payment that lnd delivered is within the fee that was charged.
LEMMA PaidFeeType ==
  ASSUME RequestTypes, NEW h, SettledIn(h)
  PROVE  PaidFee(h) \in 0..MaxFee
BY Zenon DEF RequestTypes, SettledIn, PaidFee, SameHash

\* Credits are never negative: a credit of n keeps the types and takes from no wallet.
LEMMA CreditGrows ==
  ASSUME balance \in [Wallets -> Int], NEW w \in Wallets, NEW n \in Nat, Credit(w, n)
  PROVE  balance' \in [Wallets -> Int] /\ \A v \in Wallets : balance'[v] >= balance[v]
BY DEF Credit

\* The same for the three ways of closing a journal: reimburseFee, void, credit.
LEMMA CloseGrows ==
  ASSUME LedgerTypes, NEW a \in Attempts, NEW p \in Attempts,
         \/ ReimburseFee(a, p) /\ PaidFee(HashOf[p]) \in 0..MaxFee /\ UNCHANGED <<voided, credits>>
         \/ Void(a) /\ UNCHANGED <<feeBacks, credits>>
         \/ ReimburseFailedUsdPayment(a, p) /\ UNCHANGED <<feeBacks, voided>>
         \/ UNCHANGED <<balance, voided, credits, feeBacks>>,
         UNCHANGED journal
  PROVE  LedgerTypes' /\ \A v \in Wallets : balance'[v] >= balance[v]
<1> USE SendAssumption DEF LedgerTypes
<1>1. CASE UNCHANGED <<balance, voided, credits, feeBacks>>
  BY <1>1
<1>2. CASE ReimburseFee(a, p) /\ PaidFee(HashOf[p]) \in 0..MaxFee /\ UNCHANGED <<voided, credits>>
  <2>1. CASE UNCHANGED <<balance, feeBacks>>
    BY <1>2, <2>1
  <2>2. CASE /\ MaxFee - PaidFee(HashOf[p]) > 0
             /\ Credit(WalletOf[p], MaxFee - PaidFee(HashOf[p]))
             /\ feeBacks' = [feeBacks EXCEPT ![a] = @ + 1]
    <3>1. MaxFee - PaidFee(HashOf[p]) \in Nat
      BY <1>2, <2>2
    <3> QED
      BY <1>2, <2>2, <3>1, CreditGrows
  <2> QED
    BY <1>2, <2>1, <2>2, Zenon DEF ReimburseFee
<1>3. CASE Void(a) /\ UNCHANGED <<feeBacks, credits>>
  <2>1. Cost \in Nat
    BY DEF Cost
  <2> QED
    BY <1>3, <2>1, CreditGrows DEF Void
<1>4. CASE ReimburseFailedUsdPayment(a, p) /\ UNCHANGED <<feeBacks, voided>>
  <2>1. Cost \in Nat
    BY DEF Cost
  <2> QED
    BY <1>4, <2>1, CreditGrows DEF ReimburseFailedUsdPayment
<1> QED
  BY <1>1, <1>2, <1>3, <1>4, Zenon

\* Closing a journal, by its sender or by a reconciler, takes from no wallet.
LEMMA ResolveSendGrows ==
  ASSUME LedgerTypes, RequestTypes, NEW a \in Attempts, ResolveSend(a)
  PROVE  LedgerTypes' /\ \A v \in Wallets : balance'[v] >= balance[v]
<1>1. result[a] = "paid" => PaidFee(HashOf[a]) \in 0..MaxFee
  BY PaidFeeType, Zenon DEF RequestTypes, SettledIn, SameHash
<1>2. UNCHANGED <<journal, credits>>
  BY Zenon DEF ResolveSend
<1>3. \/ ReimburseFee(a, a) /\ PaidFee(HashOf[a]) \in 0..MaxFee /\ UNCHANGED <<voided, credits>>
      \/ Void(a) /\ UNCHANGED <<feeBacks, credits>>
      \/ UNCHANGED <<balance, voided, credits, feeBacks>>
  BY <1>1, <1>2, Zenon DEF ResolveSend
<1> QED
  BY <1>2, <1>3, CloseGrows, Zenon

\* A reconciler that closes a journal keeps the types of the ledger too.
LEMMA ResolvePendingGrows ==
  ASSUME LedgerTypes, RequestTypes, WorkerTypes, NEW k \in Workers, ResolvePending(k)
  PROVE  LedgerTypes' /\ \A v \in Wallets : balance'[v] >= balance[v]
<1>1. payer[k] \in Attempts /\ job[k] \in Attempts
      /\ (seen[k] = "settled" => PaidFee(HashOf[payer[k]]) \in 0..MaxFee)
  BY PaidFeeType, Zenon DEF ResolvePending, WorkerTypes, Visiting, Judged, Flipping, WorkerPoints
<1>2. /\ UNCHANGED journal
      /\ \/ /\ ReimburseFee(job[k], payer[k]) /\ PaidFee(HashOf[payer[k]]) \in 0..MaxFee
            /\ UNCHANGED <<voided, credits>>
         \/ Void(job[k]) /\ UNCHANGED <<feeBacks, credits>>
         \/ ReimburseFailedUsdPayment(job[k], payer[k]) /\ UNCHANGED <<feeBacks, voided>>
         \/ UNCHANGED <<balance, voided, credits, feeBacks>>
  BY <1>1, Zenon DEF ResolvePending
<1> QED
  BY <1>1, <1>2, CloseGrows, Zenon

\* Steps of others leave a reconciler's state as it is, and what lnd settled is settled.
LEMMA WorkerFrame ==
  ASSUME WorkerTypes, UNCHANGED <<hashLock, workerVars>>,
         \A b \in Attempts : htlc[b] = "settled" => htlc'[b] = "settled"
  PROVE  WorkerTypes'
<1>1. \A h : SettledIn(h) => SettledIn(h)'
  BY Zenon DEF SettledIn, SameHash
<1> QED
  BY <1>1, Zenon DEF WorkerTypes, workerVars

\* Leaving a payment keeps a reconciler well typed.
LEMMA NextJobTypes ==
  ASSUME WorkerTypes, NEW k \in Workers, NextJob(k), UNCHANGED htlc
  PROVE  WorkerTypes'
<1>1. \A h : SettledIn(h)' = SettledIn(h)
  BY Zenon DEF SettledIn, SameHash
<1> QED
  BY <1>1, SendAssumption, ZenonT(60)
  DEF WorkerTypes, NextJob, WGoto, WUnlock, Visiting, Judged, Flipping, WorkerPoints

\* Every step of a request, of lnd and of the lock it holds keeps the types.
LEMMA RequestTypeStep ==
  ASSUME TypeInv, NEW a \in Attempts,
         \/ CheckLimits(a) \/ RequestStep(a) \/ FlowWriteLands(a)
         \/ LndSettles(a) \/ LndFails(a) \/ ReplyLost(a)
         \/ LoseWalletLock(a) \/ StopRequest(a)
  PROVE  TypeInv'
<1> USE SendAssumption DEF TypeInv, LedgerTypes, FlowTypes, RequestTypes, RequestPoints,
        lockVars, ledgerVars, lndVars, requestVars, flowVars
<1>1. CASE CheckLimits(a)
  BY <1>1, WorkerFrame, ZenonT(60) DEF CheckLimits, Goto
<1>2. CASE LockWalletId(a)
  BY <1>2, WorkerFrame, SMTT(60) DEF LockWalletId, Goto
<1>3. CASE CheckInTransit(a)
  BY <1>3, WorkerFrame, SMTT(60) DEF CheckInTransit, Goto, Return, Unlock
<1>4. CASE CheckBalance(a)
  BY <1>4, WorkerFrame, SMTT(60) DEF CheckBalance, Goto, Return, Unlock
<1>5. CASE CheckSignal(a)
  BY <1>5, WorkerFrame, Zenon DEF CheckSignal, Goto
<1>6. CASE RecordSend(a)
  BY <1>6, WorkerFrame, SMTT(60) DEF RecordSend, Goto, Credit, Cost
<1>7. CASE Pay(a)
  BY <1>7, WorkerFrame, SMTT(60) DEF Pay, Goto, LnStatus, SameHash
<1>8. CASE PayReturns(a)
  BY <1>8, WorkerFrame, Zenon DEF PayReturns, Goto
<1>9. CASE ReplyLost(a)
  BY <1>9, WorkerFrame, Zenon DEF ReplyLost, Goto
<1>10. CASE PayTimesOut(a)
  BY <1>10, WorkerFrame, Zenon DEF PayTimesOut, Goto, Return, Unlock
<1>11. CASE FlowWriteLands(a)
  BY <1>11, WorkerFrame DEF FlowWriteLands, KeyOf
<1>12. CASE SettlePendingLnSend(a)
  BY <1>12, WorkerFrame, SMTT(60) DEF SettlePendingLnSend, Goto, Return, Unlock, FlipAll, FlipFirst
<1>13. CASE SettleRest(a)
  BY <1>13, WorkerFrame, SMTT(60) DEF SettleRest, Goto, Return, Unlock, FlipAll
<1>14. CASE LndSettles(a)
  BY <1>14, WorkerFrame DEF LndSettles
<1>15. CASE LndFails(a)
  BY <1>15, WorkerFrame, Zenon DEF LndFails
<1>16. CASE LoseWalletLock(a)
  BY <1>16, WorkerFrame, Zenon DEF LoseWalletLock, Unlock
<1>17. CASE StopRequest(a)
  BY <1>17, WorkerFrame, Zenon DEF StopRequest, Goto, Return, Unlock
<1>18. CASE ResolveSend(a)
  <2>1. LedgerTypes'
    BY <1>18, ResolveSendGrows, Zenon
  <2> QED
    BY <1>18, <2>1, WorkerFrame, ZenonT(60) DEF ResolveSend, Goto, Return, Unlock
<1> QED
  BY <1>1, <1>2, <1>3, <1>4, <1>5, <1>6, <1>7, <1>8, <1>9, <1>10, <1>11, <1>12, <1>13, <1>14, <1>15,
     <1>16, <1>17, <1>18, Zenon DEF RequestStep

\* Every step of a reconciler keeps the types.
LEMMA WorkerTypeStep ==
  ASSUME TypeInv, NEW k \in Workers,
         \/ \E w \in Wallets \cup {Dealer} : ListPendingPayments(k, w)
         \/ WorkerStep(k) \/ LoseHashLock(k) \/ StopWorker(k)
  PROVE  TypeInv'
<1> USE SendAssumption DEF TypeInv, LedgerTypes, FlowTypes, RequestTypes,
        lockVars, ledgerVars, lndVars, requestVars, flowVars
<1>0. htlc' = htlc => \A h : SettledIn(h)' = SettledIn(h)
  BY Zenon DEF SettledIn, SameHash
<1>1. ASSUME NEW w \in Wallets \cup {Dealer}, ListPendingPayments(k, w) PROVE TypeInv'
  BY <1>0, <1>1, SMTT(60) DEF ListPendingPayments, PendingOf, WGoto, WorkerTypes, Visiting, Judged,
     Flipping, WorkerPoints
<1>2. CASE TakePayment(k)
  <2>1. PICK a \in todo[k] : job' = [job EXCEPT ![k] = a] /\ todo' = [todo EXCEPT ![k] = @ \ {a}]
    BY <1>2, Zenon DEF TakePayment
  <2> QED
    BY <1>0, <1>2, <2>1, SMTT(60) DEF TakePayment, WGoto, WorkerTypes, Visiting, Judged, Flipping,
       WorkerPoints
<1>3. CASE LookupPayment(k)
  <2>1. CASE LnStatus(HashOf[job[k]]) \in {"settled", "failed"}
    <3>1. LnStatus(HashOf[job[k]]) = "settled" => SettledIn(HashOf[job[k]])
      BY Zenon DEF LnStatus, SettledIn
    <3>2. /\ seen' = [seen EXCEPT ![k] = LnStatus(HashOf[job[k]])]
          /\ wpc[k] = "lookup" /\ wpc' = [wpc EXCEPT ![k] = "wantLock"]
          /\ UNCHANGED <<hashLock, owner, todo, job, payer, htlc>>
      BY <1>3, <2>1, Zenon DEF LookupPayment, WGoto
    <3>3. WorkerTypes'
      BY <1>0, <2>1, <3>1, <3>2 DEF WorkerTypes, Visiting, Judged, Flipping, WorkerPoints
    <3> QED
      BY <1>3, <3>3, ZenonT(60) DEF LookupPayment
  <2>2. CASE LnStatus(HashOf[job[k]]) \notin {"settled", "failed"}
    BY <1>3, <2>2, NextJobTypes, ZenonT(60) DEF LookupPayment
  <2> QED
    BY <2>1, <2>2, ZenonT(60)
<1>4. CASE LockPaymentHash(k)
  BY <1>0, <1>4, SMTT(60) DEF LockPaymentHash, WGoto, WorkerTypes, Visiting, Judged, Flipping, WorkerPoints
<1>5. CASE LockPaymentHashFails(k)
  BY <1>5, NextJobTypes, ZenonT(60) DEF LockPaymentHashFails
<1>6. CASE CheckRecorded(k)
  <2>1. CASE IsLnTxRecorded(HashOf[job[k]])
    BY <1>6, <2>1, NextJobTypes, ZenonT(60) DEF CheckRecorded
  <2>2. CASE ~IsLnTxRecorded(HashOf[job[k]])
    <3>1. wpc[k] = "checkRecorded" /\ wpc' = [wpc EXCEPT ![k] = "markFlow"]
          /\ UNCHANGED <<hashLock, owner, todo, job, seen, payer, htlc>>
      BY <1>6, <2>2, ZenonT(60) DEF CheckRecorded, WGoto
    <3>2. WorkerTypes'
      BY <1>0, <3>1 DEF WorkerTypes, Visiting, Judged, Flipping, WorkerPoints
    <3> QED
      BY <1>6, <3>2, ZenonT(60) DEF CheckRecorded
  <2> QED
    BY <2>1, <2>2, ZenonT(60)
<1>7. CASE MarkFlow(k)
  <2>1. FlowTypes'
    BY <1>7, ZenonT(60) DEF MarkFlow
  <2>2. CASE NextJob(k)
    BY <1>7, <2>1, <2>2, NextJobTypes, Zenon DEF MarkFlow
  <2>3. CASE ~NextJob(k)
    <3>1. PICK b \in Attempts : HashOf[b] = HashOf[job[k]] /\ payer' = [payer EXCEPT ![k] = b]
      BY <1>7, <2>3, ZenonT(60) DEF MarkFlow, WorkerTypes, Visiting, WorkerPoints, PendingIn, SameHash
    <3>2. wpc[k] = "markFlow" /\ wpc' = [wpc EXCEPT ![k] = "settle"]
          /\ UNCHANGED <<hashLock, owner, todo, job, seen, htlc>>
      BY <1>7, <2>3, Zenon DEF MarkFlow, WGoto
    <3>3. WorkerTypes'
      BY <1>0, <3>1, <3>2 DEF WorkerTypes, Visiting, Judged, Flipping, WorkerPoints
    <3> QED
      BY <1>7, <2>1, <3>3, Zenon DEF MarkFlow
  <2> QED
    BY <2>2, <2>3, Zenon
<1>8. CASE SettlePendingLnPayment(k) \/ WSettleRest(k)
  <2>1. LedgerTypes'
    <3>1. /\ UNCHANGED <<balance, voided, credits, feeBacks>>
          /\ \E h : FlipAll(h) \/ FlipFirst(h) \/ UNCHANGED journal
      BY <1>8, Zenon DEF SettlePendingLnPayment, WSettleRest
    <3> QED
      BY <3>1, Zenon DEF FlipAll, FlipFirst
  <2>2. CASE NextJob(k)
    BY <1>8, <2>1, <2>2, NextJobTypes, ZenonT(60) DEF SettlePendingLnPayment, WSettleRest
  <2>3. CASE ~NextJob(k)
    <3>1. PICK point \in {"resolve", "settleRest", "settleWon"} : wpc' = [wpc EXCEPT ![k] = point]
      BY <1>8, <2>3, ZenonT(60) DEF SettlePendingLnPayment, WSettleRest, WGoto
    <3>2. wpc[k] \in {"settle", "settleRest", "settleWon"}
          /\ UNCHANGED <<hashLock, owner, todo, job, seen, payer, htlc>>
      BY <1>8, <2>3, ZenonT(60) DEF SettlePendingLnPayment, WSettleRest
    <3>3. WorkerTypes'
      BY <1>0, <3>1, <3>2 DEF WorkerTypes, Visiting, Judged, Flipping, WorkerPoints
    <3> QED
      BY <1>8, <2>1, <3>3, ZenonT(60) DEF SettlePendingLnPayment, WSettleRest
  <2> QED
    BY <2>2, <2>3
<1>9. CASE ResolvePending(k)
  <2>1. LedgerTypes'
    BY <1>9, ResolvePendingGrows, Zenon
  <2>2. NextJob(k) /\ UNCHANGED <<walletLock, htlc, fee, pc, result, flowPending, flowWrite>>
    BY <1>9, ZenonT(60) DEF ResolvePending
  <2> QED
    BY <2>1, <2>2, NextJobTypes, Zenon
<1>10. CASE LoseHashLock(k)
  BY <1>0, <1>10, ZenonT(60) DEF LoseHashLock, WUnlock, WorkerTypes, workerVars
<1>11. CASE StopWorker(k)
  BY <1>11, NextJobTypes, Zenon DEF StopWorker
<1> QED
  BY <1>1, <1>2, <1>3, <1>4, <1>5, <1>6, <1>7, <1>8, <1>9, <1>10, <1>11, Zenon DEF WorkerStep

\* The types hold at first.
LEMMA TypeInvInductive == Init => TypeInv
BY SendAssumption
DEF Init, TypeInv, LedgerTypes, FlowTypes, RequestTypes, WorkerTypes, Visiting, Judged, Flipping,
    RequestPoints, WorkerPoints

\* Every step keeps the types.
LEMMA TypeInvStep ==
  ASSUME TypeInv, [Next]_vars
  PROVE  TypeInv'
<1>1. CASE UNCHANGED vars
  BY <1>1, WorkerFrame, ZenonT(60)
  DEF vars, lockVars, ledgerVars, lndVars, requestVars, workerVars, flowVars,
      TypeInv, LedgerTypes, FlowTypes, RequestTypes
<1> QED
  BY <1>1, RequestTypeStep, WorkerTypeStep, Zenon DEF Next, Done

\* Every variable keeps its type, whatever fails: crashes, lost replies, locks that
\* expire, and an updateMany that is not atomic.
THEOREM TypeCorrect == Spec => []TypeOK
<1>1. Init => TypeInv
  BY TypeInvInductive, Zenon
<1>2. TypeInv /\ [Next]_vars => TypeInv'
  BY TypeInvStep, Zenon
<1> QED
  BY <1>1, <1>2, TypeInvImplies, PTL DEF Spec

-----------------------------------------------------------------------------
(* No overdraft.  Between the balance check and the record of the payment  *)
(* the request holds the lock of its wallet, and nobody else debits it.    *)

Holding == RequestPoints \ {"request", "wantLock", "done"}

LockHeld == \A a \in Attempts : pc[a] \in Holding => walletLock[WalletOf[a]] = a

Affordable ==
  \A a \in Attempts : pc[a] \in {"checkSignal", "record"} => balance[WalletOf[a]] >= Cost

OverdraftInv == TypeInv /\ LockHeld /\ Affordable /\ NoOverdraft

\* While locks last, a request that is past lockWalletId holds the lock of its wallet.
LEMMA LockHeldStep ==
  ASSUME TypeInv, LockHeld, Next, ~WalletLockExpires
  PROVE  LockHeld'
<1> USE SendAssumption DEF TypeInv, RequestTypes, LockHeld, Holding, RequestPoints, lockVars, requestVars
<1>1. ASSUME NEW a \in Attempts, CheckLimits(a) PROVE LockHeld'
  BY <1>1, ZenonT(60) DEF CheckLimits, Goto
<1>2. ASSUME NEW a \in Attempts, LockWalletId(a) PROVE LockHeld'
  BY <1>2 DEF LockWalletId, Goto
<1>3. ASSUME NEW a \in Attempts, Return(a) PROVE LockHeld'
  BY <1>3, Zenon DEF Return, Goto, Unlock
<1>4. ASSUME NEW a \in Attempts, pc[a] \in Holding, UNCHANGED walletLock,
             \E point \in Holding \cup {"done"} : Goto(a, point)
      PROVE  LockHeld'
  BY <1>4, ZenonT(60) DEF Goto
<1>5. CASE UNCHANGED <<walletLock, pc>>
  BY <1>5, Zenon
<1>6. ASSUME NEW a \in Attempts, RequestStep(a) \/ ReplyLost(a) PROVE LockHeld'
  <2>1. CASE LockWalletId(a)
    BY <1>2, <2>1, ZenonT(60)
  <2>2. CASE CheckInTransit(a) \/ CheckBalance(a) \/ CheckSignal(a)
    BY <1>3, <1>4, <2>2, ZenonT(60) DEF CheckInTransit, CheckBalance, CheckSignal
  <2>3. CASE RecordSend(a) \/ Pay(a) \/ PayReturns(a) \/ ReplyLost(a) \/ PayTimesOut(a)
    BY <1>3, <1>4, <2>3, ZenonT(60) DEF RecordSend, Pay, PayReturns, ReplyLost, PayTimesOut
  <2>4. CASE SettlePendingLnSend(a) \/ SettleRest(a) \/ ResolveSend(a)
    BY <1>3, <1>4, <2>4, ZenonT(60) DEF SettlePendingLnSend, SettleRest, ResolveSend
  <2> QED
    BY <1>6, <2>1, <2>2, <2>3, <2>4, Zenon DEF RequestStep
<1>7. ASSUME NEW a \in Attempts,
             FlowWriteLands(a) \/ LndSettles(a) \/ LndFails(a) \/ LoseWalletLock(a) \/ StopRequest(a)
      PROVE  LockHeld'
  BY <1>3, <1>5, <1>7, ZenonT(60) DEF FlowWriteLands, LndSettles, LndFails, LoseWalletLock, StopRequest
<1>8. ASSUME NEW k \in Workers,
             \/ \E w \in Wallets \cup {Dealer} : ListPendingPayments(k, w)
             \/ WorkerStep(k) \/ LoseHashLock(k) \/ StopWorker(k)
      PROVE  UNCHANGED <<walletLock, pc>>
  BY <1>8, Zenon DEF ListPendingPayments, WorkerStep, TakePayment, LookupPayment, LockPaymentHash,
     LockPaymentHashFails, CheckRecorded, MarkFlow, SettlePendingLnPayment, WSettleRest,
     ResolvePending, LoseHashLock, StopWorker
<1> QED
  BY <1>1, <1>5, <1>6, <1>7, <1>8, ZenonT(60) DEF Next, Done, vars

\* Only recordSend takes money from a wallet.
LEMMA OnlyRecordDebits ==
  ASSUME TypeInv, Next
  PROVE  \/ \E a \in Attempts : RecordSend(a)
         \/ \A w \in Wallets : balance'[w] >= balance[w]
<1>1. CASE UNCHANGED balance
  BY <1>1 DEF TypeInv, LedgerTypes
<1>2. ASSUME NEW a \in Attempts, ResolveSend(a)
      PROVE  \A w \in Wallets : balance'[w] >= balance[w]
  BY <1>2, ResolveSendGrows, Zenon DEF TypeInv
<1>3. ASSUME NEW k \in Workers, ResolvePending(k)
      PROVE  \A w \in Wallets : balance'[w] >= balance[w]
  BY <1>3, ResolvePendingGrows, Zenon DEF TypeInv
<1>4. ASSUME NEW a \in Attempts, RequestStep(a)
      PROVE  RecordSend(a) \/ ResolveSend(a) \/ UNCHANGED balance
  BY <1>4, Zenon DEF RequestStep, ledgerVars, LockWalletId, CheckInTransit, CheckBalance, CheckSignal,
     Pay, PayReturns, PayTimesOut, SettlePendingLnSend, SettleRest
<1>5. ASSUME NEW a \in Attempts,
             \/ CheckLimits(a) \/ FlowWriteLands(a) \/ LndSettles(a) \/ LndFails(a)
             \/ ReplyLost(a) \/ LoseWalletLock(a) \/ StopRequest(a)
      PROVE  UNCHANGED balance
  BY <1>5, Zenon DEF ledgerVars, CheckLimits, FlowWriteLands, LndSettles, LndFails, ReplyLost,
     LoseWalletLock, StopRequest
<1>6. ASSUME NEW k \in Workers,
             \/ \E w \in Wallets \cup {Dealer} : ListPendingPayments(k, w)
             \/ WorkerStep(k) \/ LoseHashLock(k) \/ StopWorker(k)
      PROVE  ResolvePending(k) \/ UNCHANGED balance
  BY <1>6, Zenon DEF WorkerStep, ledgerVars, ListPendingPayments, TakePayment, LookupPayment,
     LockPaymentHash, LockPaymentHashFails, CheckRecorded, MarkFlow, SettlePendingLnPayment,
     WSettleRest, LoseHashLock, StopWorker
<1>7. Done => UNCHANGED balance
  BY Zenon DEF Done, vars, ledgerVars
<1> QED
  BY <1>1, <1>2, <1>3, <1>4, <1>5, <1>6, <1>7, Zenon DEF Next

\* A request reaches the points where its debit is cleared only from the balance check.
LEMMA ClearedByCheck ==
  ASSUME TypeInv, Next, NEW b \in Attempts, pc'[b] \in {"checkSignal", "record"}
  PROVE  \/ pc[b] \in {"checkSignal", "record"}
         \/ balance[WalletOf[b]] >= Cost
<1> USE DEF TypeInv, RequestTypes, LedgerTypes
<1>1. CASE UNCHANGED pc
  BY <1>1, Zenon
<1>2. ASSUME NEW a \in Attempts, CheckBalance(a), a = b PROVE balance[WalletOf[b]] >= Cost
  BY <1>2, SendAssumption DEF CheckBalance, Return, Goto, Cost
<1>3. ASSUME NEW a \in Attempts, CheckLimits(a) \/ RequestStep(a) \/ ReplyLost(a) \/ StopRequest(a)
      PROVE  \/ pc[b] \in {"checkSignal", "record"}
             \/ balance[WalletOf[b]] >= Cost
  <2>1. CASE a # b
    BY <1>3, <2>1, ZenonT(60) DEF RequestStep, CheckLimits, LockWalletId, CheckInTransit, CheckBalance,
       CheckSignal, RecordSend, Pay, PayReturns, ReplyLost, PayTimesOut, SettlePendingLnSend,
       SettleRest, ResolveSend, StopRequest, Return, Goto
  <2>2. CASE a = b
    <3>1. CASE \/ CheckLimits(a) \/ LockWalletId(a) \/ CheckInTransit(a) \/ CheckSignal(a)
               \/ ReplyLost(a) \/ StopRequest(a)
      BY <2>2, <3>1, ZenonT(60) DEF CheckLimits, LockWalletId, CheckInTransit, CheckSignal, ReplyLost,
         StopRequest, Return, Goto
    <3>2. CASE RecordSend(a) \/ Pay(a) \/ PayReturns(a) \/ PayTimesOut(a)
      BY <2>2, <3>2, ZenonT(60) DEF RecordSend, Pay, PayReturns, PayTimesOut, Return, Goto
    <3>3. CASE SettlePendingLnSend(a) \/ SettleRest(a) \/ ResolveSend(a)
      BY <2>2, <3>3, ZenonT(60) DEF SettlePendingLnSend, SettleRest, ResolveSend, Return, Goto
    <3> QED
      BY <1>2, <1>3, <2>2, <3>1, <3>2, <3>3, Zenon DEF RequestStep
  <2> QED
    BY <2>1, <2>2, ZenonT(60)
<1> QED
  BY <1>1, <1>3, ZenonT(60) DEF Next, WorkerStep, Done, vars, requestVars, FlowWriteLands, LndSettles,
     LndFails, LoseWalletLock, ListPendingPayments, TakePayment, LookupPayment,
     LockPaymentHash, LockPaymentHashFails, CheckRecorded, MarkFlow, SettlePendingLnPayment,
     WSettleRest, ResolvePending, LoseHashLock, StopWorker

\* A debit is covered by the balance its request checked, and leaves the balance of a
\* wallet alone that another request has cleared.
LEMMA OverdraftStep ==
  ASSUME OverdraftInv, [Next]_vars, ~WalletLockExpires
  PROVE  OverdraftInv'
<1> USE SendAssumption DEF OverdraftInv
<1>1. CASE UNCHANGED vars
  <2>1. TypeInv'
    BY TypeInvStep, Zenon
  <2> QED
    BY <1>1, <2>1, Zenon DEF vars, lockVars, ledgerVars, requestVars, LockHeld, Affordable, NoOverdraft
<1>2. CASE Next
  <2>1. TypeInv' /\ LockHeld'
    BY <1>2, TypeInvStep, LockHeldStep, Zenon
  <2>2. ASSUME NEW a \in Attempts, RecordSend(a) PROVE Affordable' /\ NoOverdraft'
    <3>1. /\ pc[a] = "record" /\ pc' = [pc EXCEPT ![a] = "pay"]
          /\ balance' = [balance EXCEPT ![WalletOf[a]] = @ - Cost]
          /\ balance[WalletOf[a]] >= Cost
      BY <2>2, Zenon DEF RecordSend, Goto, Credit, Affordable, TypeInv, LedgerTypes, Cost
    <3>2. ASSUME NEW b \in Attempts, pc[b] \in {"checkSignal", "record"}, b # a
          PROVE  WalletOf[b] # WalletOf[a]
      BY <3>1, <3>2, Zenon DEF LockHeld, Holding, RequestPoints
    <3> QED
      BY <3>1, <3>2 DEF Affordable, NoOverdraft, TypeInv, LedgerTypes, RequestTypes, Cost
  <2>3. ASSUME \A w \in Wallets : balance'[w] >= balance[w] PROVE Affordable' /\ NoOverdraft'
    BY <1>2, <2>1, <2>3, ClearedByCheck, SMTT(60) DEF Affordable, NoOverdraft, TypeInv, LedgerTypes, Cost
  <2> QED
    BY <1>2, <2>1, <2>2, <2>3, OnlyRecordDebits, Zenon
<1> QED
  BY <1>1, <1>2, Zenon

\* While lockWalletId holds, no interleaving of requests and reconcilers overdraws a
\* wallet, even with several payments of one hash, crashes, lost replies of lnd and an
\* updateMany that is not atomic.
THEOREM NeverOverdrawn ==
  ASSUME ~WalletLockExpires
  PROVE  Spec => []NoOverdraft
<1>1. Init => OverdraftInv
  BY TypeInvInductive, SendAssumption
  DEF OverdraftInv, Init, LockHeld, Affordable, NoOverdraft, Holding, RequestPoints
<1>2. OverdraftInv /\ [Next]_vars => OverdraftInv'
  BY OverdraftStep, Zenon
<1>3. OverdraftInv => NoOverdraft
  BY Zenon DEF OverdraftInv
<1> QED
  BY <1>1, <1>2, <1>3, PTL DEF Spec

-----------------------------------------------------------------------------
(* One pending payment per wallet and hash.  From the in-transit check to  *)
(* the record the request holds the lock of its wallet, so no other        *)
(* request of the wallet records in between.                               *)

Clearing == {"checkBalance", "checkSignal", "record"}

Clear ==
  \A a, b \in Attempts : pc[a] \in Clearing /\ KeyOf(a) = KeyOf(b) => journal[b] # "pending"

TransitInv == TypeInv /\ LockHeld /\ Clear /\ OneInTransit

\* Only recordSend makes a journal pending.
LEMMA OnlyRecordPends ==
  ASSUME TypeInv, Next
  PROVE  \/ \E a \in Attempts : RecordSend(a)
         \/ \A b \in Attempts : journal'[b] = "pending" => journal[b] = "pending"
<1>1. ASSUME NEW h, FlipAll(h) \/ FlipFirst(h)
      PROVE  \A b \in Attempts : journal'[b] = "pending" => journal[b] = "pending"
  BY <1>1, ZenonT(60) DEF FlipAll, FlipFirst
<1>2. ASSUME NEW a \in Attempts, RequestStep(a)
      PROVE  RecordSend(a) \/ (\E h : FlipAll(h) \/ FlipFirst(h)) \/ UNCHANGED journal
  BY <1>2, ZenonT(60) DEF RequestStep, ledgerVars, LockWalletId, CheckInTransit, CheckBalance, CheckSignal,
     Pay, PayReturns, PayTimesOut, SettlePendingLnSend, SettleRest, ResolveSend
<1>3. ASSUME NEW a \in Attempts,
             \/ CheckLimits(a) \/ FlowWriteLands(a) \/ LndSettles(a) \/ LndFails(a)
             \/ ReplyLost(a) \/ LoseWalletLock(a) \/ StopRequest(a)
      PROVE  UNCHANGED journal
  BY <1>3, Zenon DEF ledgerVars, CheckLimits, FlowWriteLands, LndSettles, LndFails, ReplyLost,
     LoseWalletLock, StopRequest
<1>4. ASSUME NEW k \in Workers,
             \/ \E w \in Wallets \cup {Dealer} : ListPendingPayments(k, w)
             \/ WorkerStep(k) \/ LoseHashLock(k) \/ StopWorker(k)
      PROVE  (\E h : FlipAll(h) \/ FlipFirst(h)) \/ UNCHANGED journal
  BY <1>4, ZenonT(60) DEF WorkerStep, ledgerVars, ListPendingPayments, TakePayment, LookupPayment,
     LockPaymentHash, LockPaymentHashFails, CheckRecorded, MarkFlow, SettlePendingLnPayment,
     WSettleRest, ResolvePending, LoseHashLock, StopWorker
<1>5. Done => UNCHANGED journal
  BY Zenon DEF Done, vars, ledgerVars
<1> QED
  BY <1>1, <1>2, <1>3, <1>4, <1>5, ZenonT(60) DEF Next

\* A request comes to the points between the two only through the in-transit check.
LEMMA ClearedInTransit ==
  ASSUME TypeInv, Next, NEW b \in Attempts, pc'[b] \in Clearing
  PROVE  \/ pc[b] \in Clearing
         \/ \A c \in Attempts : HashOf[c] = HashOf[b] => journal[c] # "pending"
<1> USE DEF TypeInv, RequestTypes, LedgerTypes, Clearing
<1>1. CASE UNCHANGED pc
  BY <1>1, Zenon
<1>2. ASSUME NEW a \in Attempts, CheckInTransit(a), a = b
      PROVE  \A c \in Attempts : HashOf[c] = HashOf[b] => journal[c] # "pending"
  BY <1>2, ZenonT(60) DEF CheckInTransit, Return, Goto, PendingIn, SameHash
<1>3. ASSUME NEW a \in Attempts, CheckLimits(a) \/ RequestStep(a) \/ ReplyLost(a) \/ StopRequest(a)
      PROVE  \/ pc[b] \in Clearing
             \/ \A c \in Attempts : HashOf[c] = HashOf[b] => journal[c] # "pending"
  <2>1. CASE a # b
    BY <1>3, <2>1, ZenonT(60) DEF RequestStep, CheckLimits, LockWalletId, CheckInTransit, CheckBalance,
       CheckSignal, RecordSend, Pay, PayReturns, ReplyLost, PayTimesOut, SettlePendingLnSend,
       SettleRest, ResolveSend, StopRequest, Return, Goto
  <2>2. CASE a = b
    <3>1. CASE \/ CheckLimits(a) \/ LockWalletId(a) \/ CheckBalance(a) \/ CheckSignal(a)
               \/ ReplyLost(a) \/ StopRequest(a)
      BY <2>2, <3>1, ZenonT(60) DEF CheckLimits, LockWalletId, CheckBalance, CheckSignal, ReplyLost,
         StopRequest, Return, Goto
    <3>2. CASE RecordSend(a) \/ Pay(a) \/ PayReturns(a) \/ PayTimesOut(a)
      BY <2>2, <3>2, ZenonT(60) DEF RecordSend, Pay, PayReturns, PayTimesOut, Return, Goto
    <3>3. CASE SettlePendingLnSend(a) \/ SettleRest(a) \/ ResolveSend(a)
      BY <2>2, <3>3, ZenonT(60) DEF SettlePendingLnSend, SettleRest, ResolveSend, Return, Goto
    <3> QED
      BY <1>2, <1>3, <2>2, <3>1, <3>2, <3>3, Zenon DEF RequestStep
  <2> QED
    BY <2>1, <2>2, ZenonT(60)
<1> QED
  BY <1>1, <1>3, ZenonT(60) DEF Next, WorkerStep, Done, vars, requestVars, FlowWriteLands, LndSettles,
     LndFails, LoseWalletLock, ListPendingPayments, TakePayment, LookupPayment,
     LockPaymentHash, LockPaymentHashFails, CheckRecorded, MarkFlow, SettlePendingLnPayment,
     WSettleRest, ResolvePending, LoseHashLock, StopWorker

\* A record is of a wallet and a hash with nothing pending, and of another wallet than
\* the requests that have passed the in-transit check.
LEMMA TransitStep ==
  ASSUME TransitInv, [Next]_vars, ~WalletLockExpires
  PROVE  TransitInv'
<1> USE DEF TransitInv
<1>1. CASE UNCHANGED vars
  <2>1. TypeInv'
    BY TypeInvStep, Zenon
  <2> QED
    BY <1>1, <2>1, ZenonT(60) DEF vars, lockVars, ledgerVars, requestVars, LockHeld, Clear, OneInTransit
<1>2. CASE Next
  <2>1. TypeInv' /\ LockHeld'
    BY <1>2, TypeInvStep, LockHeldStep, Zenon
  <2>2. ASSUME NEW a \in Attempts, RecordSend(a) PROVE Clear' /\ OneInTransit'
    <3>1. /\ pc[a] = "record" /\ pc' = [pc EXCEPT ![a] = "pay"]
          /\ journal' = [journal EXCEPT ![a] = "pending"]
      BY <2>2, Zenon DEF RecordSend, Goto
    <3>2. /\ \A b \in Attempts : b # a => pc'[b] = pc[b] /\ journal'[b] = journal[b]
          /\ pc'[a] \notin Clearing
      BY <3>1, Zenon DEF TypeInv, RequestTypes, LedgerTypes, Clearing
    <3>3. \A b \in Attempts : KeyOf(a) = KeyOf(b) => journal[b] # "pending"
      BY <3>1, ZenonT(60) DEF Clear, Clearing
    <3>4. \A b \in Attempts : pc[b] \in Clearing /\ b # a => KeyOf(b) # KeyOf(a)
      <4>1. ASSUME NEW b \in Attempts, pc[b] \in Clearing, b # a PROVE WalletOf[b] # WalletOf[a]
        BY <3>1, <4>1, Zenon DEF LockHeld, Holding, RequestPoints, Clearing
      <4> QED
        BY <4>1, Zenon DEF KeyOf
    <3>5. Clear'
      <4>1. SUFFICES ASSUME NEW b \in Attempts, NEW c \in Attempts, pc'[b] \in Clearing,
                            KeyOf(b) = KeyOf(c)
                     PROVE  journal'[c] # "pending"
        BY Zenon DEF Clear, KeyOf
      <4>2. b # a /\ pc[b] \in Clearing /\ c # a
        BY <3>2, <3>4, <4>1, ZenonT(60)
      <4> QED
        BY <3>2, <4>1, <4>2, ZenonT(60) DEF Clear
    <3>6. OneInTransit'
      BY <3>2, <3>3, ZenonT(60) DEF OneInTransit, KeyOf
    <3> QED
      BY <3>5, <3>6, Zenon
  <2>3. ASSUME \A b \in Attempts : journal'[b] = "pending" => journal[b] = "pending"
        PROVE  Clear' /\ OneInTransit'
    <3>1. Clear'
      BY <1>2, <2>3, ClearedInTransit, ZenonT(60) DEF Clear, KeyOf
    <3> QED
      BY <2>3, <3>1, ZenonT(60) DEF OneInTransit, KeyOf
  <2> QED
    BY <1>2, <2>1, <2>2, <2>3, OnlyRecordPends, Zenon
<1> QED
  BY <1>1, <1>2, Zenon

\* While lockWalletId holds, a wallet never has two pending payments of a hash, whatever
\* retries, reconcilers and crashes interleave.
THEOREM NeverTwiceInTransit ==
  ASSUME ~WalletLockExpires
  PROVE  Spec => []OneInTransit
<1>1. Init => TransitInv
  BY TypeInvInductive, SendAssumption, ZenonT(60)
  DEF TransitInv, Init, LockHeld, Clear, Clearing, OneInTransit, Holding, RequestPoints
<1>2. TransitInv /\ [Next]_vars => TransitInv'
  BY TransitStep
<1>3. TransitInv => OneInTransit
  BY DEF TransitInv
<1> QED
  BY <1>1, <1>2, <1>3, PTL DEF Spec

-----------------------------------------------------------------------------
(* Refunds.  A hash that is tried again has several payments, and lnd      *)
(* answers for the hash.  The answer is about the payment a reconciler is  *)
(* at, because that one is pending, no entry of the hash is settled, and a *)
(* sender has one pending payment of a hash.                               *)

OneSender == \A a, b \in Attempts : HashOf[a] = HashOf[b] => WalletOf[a] = WalletOf[b]

Early == {"request", "wantLock", "checkPending", "checkBalance", "checkSignal", "record"}
Bound == Judged \ {"wantLock", "checkRecorded"}

RequestKnows ==
  /\ \A a \in Attempts : pc[a] \in Early => journal[a] = "none"
  /\ \A a \in Attempts : pc[a] \in Early \cup {"pay"} => htlc[a] = "none"
  /\ \A a \in Attempts : htlc[a] # "none" \/ pc[a] = "pay" => journal[a] # "none"
  /\ \A a \in Attempts : pc[a] \in Flipping =>
       \/ result[a] = "paid"
       \/ result[a] = "failed" /\ htlc[a] \in {"none", "failed"}

WorkerKnows ==
  /\ \A k \in Workers : \A a \in todo[k] : journal[a] # "none"
  /\ \A k \in Workers : wpc[k] \in Visiting => journal[job[k]] # "none"
  /\ \A k \in Workers : wpc[k] \in Judged =>
       seen[k] # "none" /\ \E b \in SameHash(HashOf[job[k]]) : htlc[b] = seen[k]
  /\ \A k \in Workers : wpc[k] \in Bound => htlc[job[k]] = seen[k]

RefundSound ==
  \A a \in Attempts : Refunded(a) => \/ htlc[a] = "failed"
                                     \/ htlc[a] = "none" /\ pc[a] = "done"

RetryInv == TransitInv /\ RequestKnows /\ WorkerKnows /\ RefundSound

\* A reconciler that does not move keeps what it knows, as records stay and lnd does not
\* take back a result.
LEMMA WorkerKnowsFrame ==
  ASSUME TypeInv, WorkerKnows, UNCHANGED workerVars,
         \A b \in Attempts : journal[b] # "none" => journal'[b] # "none",
         \A b \in Attempts : htlc[b] \in {"settled", "failed"} => htlc'[b] = htlc[b]
  PROVE  WorkerKnows'
<1>1. UNCHANGED <<wpc, todo, job, seen>>
  BY Zenon DEF workerVars
<1>2. \A k \in Workers : wpc[k] \in Visiting => job[k] \in Attempts
  BY Zenon DEF TypeInv, WorkerTypes
<1>3. \A k \in Workers : todo[k] \subseteq Attempts /\ seen[k] \in {"none", "settled", "failed"}
  BY Zenon DEF TypeInv, WorkerTypes
<1>4. Judged \subseteq Visiting /\ Bound \subseteq Judged
  BY Zenon DEF Judged, Bound
<1>5. /\ \A k \in Workers : \A a \in todo[k] : journal'[a] # "none"
      /\ \A k \in Workers : wpc[k] \in Visiting => journal'[job[k]] # "none"
  BY <1>2, <1>3, ZenonT(60) DEF WorkerKnows
<1>6. \A k \in Workers : wpc[k] \in Judged => seen[k] \in {"settled", "failed"}
  BY <1>3, ZenonT(60) DEF WorkerKnows
<1>7. \A k \in Workers : wpc[k] \in Judged => \E b \in SameHash(HashOf[job[k]]) : htlc'[b] = seen[k]
  <2>1. ASSUME NEW k \in Workers, wpc[k] \in Judged
        PROVE  \E b \in SameHash(HashOf[job[k]]) : htlc'[b] = seen[k]
    <3>1. PICK b \in SameHash(HashOf[job[k]]) : htlc[b] = seen[k]
      BY <2>1, ZenonT(60) DEF WorkerKnows
    <3>2. b \in Attempts /\ seen[k] \in {"settled", "failed"}
      BY <1>6, <2>1, Zenon DEF SameHash
    <3> QED
      BY <3>1, <3>2, Zenon
  <2> QED
    BY <2>1, Zenon
<1>8. \A k \in Workers : wpc[k] \in Bound => htlc'[job[k]] = seen[k]
  <2>1. ASSUME NEW k \in Workers, wpc[k] \in Bound PROVE htlc'[job[k]] = seen[k]
    <3>1. job[k] \in Attempts /\ htlc[job[k]] = seen[k] /\ seen[k] \in {"settled", "failed"}
      BY <1>2, <1>4, <1>6, <2>1, ZenonT(60) DEF WorkerKnows
    <3> QED
      BY <3>1, Zenon
  <2> QED
    BY <2>1, Zenon
<1> QED
  BY <1>1, <1>5, <1>6, <1>7, <1>8, ZenonT(60) DEF WorkerKnows, SameHash

\* A request that does not move keeps what it knows.
LEMMA RequestKnowsFrame ==
  ASSUME RequestKnows, UNCHANGED <<pc, result, htlc>>,
         \A b \in Attempts : journal'[b] = "none" <=> journal[b] = "none"
  PROVE  RequestKnows'
BY ZenonT(60) DEF RequestKnows

\* Settling entries leaves what has been recorded recorded.
LEMMA FlipKeeps ==
  ASSUME NEW h, FlipAll(h) \/ FlipFirst(h) \/ UNCHANGED journal
  PROVE  \A b \in Attempts : journal'[b] = "none" <=> journal[b] = "none"
BY ZenonT(60) DEF FlipAll, FlipFirst, PendingIn, SameHash

\* A step before the payment is recorded, a return, and a step that leaves the points of
\* the requests alone keep what the requests know and the refunds sound.
LEMMA KnowsFrame ==
  ASSUME TypeInv, RequestKnows, RefundSound, NEW a \in Attempts,
         UNCHANGED <<journal, voided, credits, htlc, result>>,
         \/ UNCHANGED pc
         \/ Goto(a, "done")
         \/ pc[a] \in Early /\ \E point \in Early : Goto(a, point)
  PROVE  RequestKnows' /\ RefundSound'
<1>1. \A b \in Attempts :
        /\ pc'[b] \in Early => pc[b] \in Early
        /\ pc'[b] \in Flipping \cup {"pay"} => pc'[b] = pc[b]
        /\ pc[b] = "done" => pc'[b] = "done"
  BY ZenonT(60) DEF TypeInv, RequestTypes, Goto, Early, Flipping
<1>2. \A b \in Attempts : Refunded(b)' = Refunded(b)
  BY Zenon DEF Refunded
<1>3. /\ \A b \in Attempts : pc'[b] \in Early => journal[b] = "none"
      /\ \A b \in Attempts : pc'[b] \in Early \cup {"pay"} => htlc[b] = "none"
  BY <1>1, ZenonT(60) DEF RequestKnows
<1>4. /\ \A b \in Attempts : htlc[b] # "none" \/ pc'[b] = "pay" => journal[b] # "none"
      /\ \A b \in Attempts : pc'[b] \in Flipping =>
           result[b] = "paid" \/ (result[b] = "failed" /\ htlc[b] \in {"none", "failed"})
  BY <1>1, ZenonT(60) DEF RequestKnows
<1>5. \A b \in Attempts :
        Refunded(b) => htlc[b] = "failed" \/ (htlc[b] = "none" /\ pc'[b] = "done")
  BY <1>1, ZenonT(60) DEF RefundSound
<1> QED
  BY <1>2, <1>3, <1>4, <1>5, ZenonT(60) DEF RequestKnows, RefundSound

\* Recording a payment.
LEMMA RecordKnows ==
  ASSUME TypeInv, RequestKnows, RefundSound, NEW a \in Attempts, RecordSend(a)
  PROVE  RequestKnows' /\ RefundSound'
<1>1. /\ pc[a] = "record" /\ pc' = [pc EXCEPT ![a] = "pay"]
      /\ journal' = [journal EXCEPT ![a] = "pending"]
      /\ UNCHANGED <<voided, credits, htlc, result>>
  BY Zenon DEF RecordSend, Goto, lndVars
<1>2. pc'[a] = "pay" /\ journal'[a] = "pending" /\ htlc[a] = "none" /\ ~Refunded(a)
  BY <1>1, ZenonT(60) DEF TypeInv, RequestTypes, LedgerTypes, RequestKnows, RefundSound, Early
<1>3. \A b \in Attempts : b # a => pc'[b] = pc[b] /\ journal'[b] = journal[b]
  BY <1>1, ZenonT(60) DEF TypeInv, RequestTypes, LedgerTypes
<1>4. \A b \in Attempts : Refunded(b)' = Refunded(b)
  BY <1>1, Zenon DEF Refunded
<1>5. RequestKnows'
  <2>1. "pay" \notin Early \cup Flipping
    BY Zenon DEF Early, Flipping
  <2>2. /\ \A b \in Attempts : pc'[b] \in Early => journal'[b] = "none"
        /\ \A b \in Attempts : pc'[b] \in Early \cup {"pay"} => htlc[b] = "none"
    BY <1>2, <1>3, <2>1, ZenonT(60) DEF RequestKnows
  <2>3. \A b \in Attempts : htlc[b] # "none" \/ pc'[b] = "pay" => journal'[b] # "none"
    BY <1>2, <1>3, ZenonT(60) DEF RequestKnows
  <2>4. \A b \in Attempts : pc'[b] \in Flipping =>
          result[b] = "paid" \/ (result[b] = "failed" /\ htlc[b] \in {"none", "failed"})
    BY <1>2, <1>3, <2>1, ZenonT(60) DEF RequestKnows
  <2> QED
    BY <1>1, <2>2, <2>3, <2>4, ZenonT(60) DEF RequestKnows
<1>6. RefundSound'
  BY <1>1, <1>2, <1>3, <1>4, ZenonT(60) DEF RefundSound
<1> QED
  BY <1>5, <1>6, Zenon

\* Handing a payment to lnd.
LEMMA PayKnows ==
  ASSUME TypeInv, RequestKnows, RefundSound, NEW a \in Attempts, Pay(a)
  PROVE  RequestKnows' /\ RefundSound'
<1>1. /\ pc[a] = "pay" /\ htlc[a] = "none" /\ journal[a] # "none" /\ ~Refunded(a)
      /\ UNCHANGED <<journal, voided, credits>>
  BY ZenonT(60) DEF Pay, RequestKnows, RefundSound, ledgerVars
<1>2. \/ /\ htlc' = [htlc EXCEPT ![a] = "inflight"] /\ pc' = [pc EXCEPT ![a] = "paying"]
         /\ UNCHANGED result
      \/ /\ htlc' = htlc \/ \E s \in {"none", "failed"} : htlc' = [htlc EXCEPT ![a] = s]
         /\ pc' = [pc EXCEPT ![a] = "settle"] /\ result' = [result EXCEPT ![a] = "failed"]
  BY ZenonT(60) DEF Pay, Goto
<1>3. \A b \in Attempts : b # a => pc'[b] = pc[b] /\ htlc'[b] = htlc[b] /\ result'[b] = result[b]
  BY <1>2, Zenon DEF TypeInv, RequestTypes
<1>4. \/ pc'[a] = "paying"
      \/ pc'[a] = "settle" /\ result'[a] = "failed" /\ htlc'[a] \in {"none", "failed"}
  BY <1>1, <1>2, Zenon DEF TypeInv, RequestTypes
<1>5. \A b \in Attempts : Refunded(b)' = Refunded(b)
  BY <1>1, Zenon DEF Refunded
<1>6. RequestKnows'
  BY <1>1, <1>3, <1>4, ZenonT(60) DEF RequestKnows, Early, Flipping
<1>7. RefundSound'
  BY <1>1, <1>3, <1>5, ZenonT(60) DEF RefundSound
<1> QED
  BY <1>6, <1>7

\* lnd's answer to the sender, and lnd's result.
LEMMA ReturnsKnows ==
  ASSUME TypeInv, RequestKnows, RefundSound, NEW a \in Attempts, PayReturns(a)
  PROVE  RequestKnows' /\ RefundSound'
<1>1. /\ pc[a] = "paying" /\ pc' = [pc EXCEPT ![a] = "settle"]
      /\ htlc[a] \in {"settled", "failed"}
      /\ result' = [result EXCEPT ![a] = IF htlc[a] = "settled" THEN "paid" ELSE "failed"]
      /\ UNCHANGED <<journal, voided, credits, htlc>>
  BY ZenonT(60) DEF PayReturns, Goto, ledgerVars, lndVars
<1>2. \A b \in Attempts : b # a => pc'[b] = pc[b] /\ result'[b] = result[b]
  BY <1>1, ZenonT(60) DEF TypeInv, RequestTypes
<1>3. /\ pc'[a] = "settle" /\ pc[a] # "done"
      /\ result'[a] = "paid" \/ (result'[a] = "failed" /\ htlc[a] \in {"none", "failed"})
  BY <1>1, Zenon DEF TypeInv, RequestTypes
<1>4. \A b \in Attempts : Refunded(b)' = Refunded(b)
  BY <1>1, Zenon DEF Refunded
<1>5. RequestKnows'
  <2>1. \A b \in Attempts : pc'[b] \in Early \cup {"pay"} => pc'[b] = pc[b]
    BY <1>2, <1>3, ZenonT(60) DEF Early
  <2>2. \A b \in Attempts : pc'[b] \in Flipping =>
          result'[b] = "paid" \/ (result'[b] = "failed" /\ htlc[b] \in {"none", "failed"})
    BY <1>2, <1>3, ZenonT(60) DEF RequestKnows
  <2>3. /\ \A b \in Attempts : pc'[b] \in Early => journal[b] = "none"
        /\ \A b \in Attempts : pc'[b] \in Early \cup {"pay"} => htlc[b] = "none"
        /\ \A b \in Attempts : htlc[b] # "none" \/ pc'[b] = "pay" => journal[b] # "none"
    BY <2>1, ZenonT(60) DEF RequestKnows
  <2>4. UNCHANGED <<journal, htlc>>
    BY <1>1, Zenon
  <2> QED
    BY <2>2, <2>3, <2>4, ZenonT(60) DEF RequestKnows
<1>6. RefundSound'
  BY <1>1, <1>2, <1>3, <1>4, ZenonT(60) DEF RefundSound
<1> QED
  BY <1>5, <1>6

\* lnd resolves a payment that is in flight, so neither given back nor thought failed.
LEMMA LndKnows ==
  ASSUME TypeInv, RequestKnows, RefundSound, NEW a \in Attempts, LndSettles(a) \/ LndFails(a)
  PROVE  RequestKnows' /\ RefundSound'
<1>1. /\ htlc[a] = "inflight" /\ \E s \in {"settled", "failed"} : htlc' = [htlc EXCEPT ![a] = s]
      /\ UNCHANGED <<journal, voided, credits, pc, result>>
  BY ZenonT(60) DEF LndSettles, LndFails, ledgerVars, requestVars
<1>2. /\ htlc'[a] \in {"settled", "failed"}
      /\ \A b \in Attempts : b # a => htlc'[b] = htlc[b]
  BY <1>1, Zenon DEF TypeInv, RequestTypes
<1>3. /\ pc[a] \notin Early \cup {"pay"} /\ journal[a] # "none" /\ ~Refunded(a)
      /\ pc[a] \in Flipping => result[a] = "paid"
  <2>1. htlc[a] \notin {"none", "failed"}
    BY <1>1, Zenon
  <2> QED
    BY <2>1, ZenonT(60) DEF RequestKnows, RefundSound
<1>4. \A b \in Attempts : Refunded(b)' = Refunded(b)
  BY <1>1, Zenon DEF Refunded
<1>5. RequestKnows'
  <2>1. /\ \A b \in Attempts : pc[b] \in Early => journal[b] = "none"
        /\ \A b \in Attempts : pc[b] \in Early \cup {"pay"} => htlc'[b] = "none"
    BY <1>2, <1>3, ZenonT(60) DEF RequestKnows
  <2>2. \A b \in Attempts : htlc'[b] # "none" \/ pc[b] = "pay" => journal[b] # "none"
    BY <1>2, <1>3, ZenonT(60) DEF RequestKnows
  <2>3. \A b \in Attempts : pc[b] \in Flipping =>
          result[b] = "paid" \/ (result[b] = "failed" /\ htlc'[b] \in {"none", "failed"})
    BY <1>2, <1>3, ZenonT(60) DEF RequestKnows
  <2> QED
    BY <1>1, <2>1, <2>2, <2>3, ZenonT(60) DEF RequestKnows
<1>6. RefundSound'
  BY <1>1, <1>2, <1>3, <1>4, ZenonT(60) DEF RefundSound
<1> QED
  BY <1>5, <1>6, Zenon

\* The sender settles its entries.
LEMMA SettleKnows ==
  ASSUME TypeInv, RequestKnows, RefundSound, NEW a \in Attempts,
         SettlePendingLnSend(a) \/ SettleRest(a)
  PROVE  RequestKnows' /\ RefundSound'
<1>1. /\ pc[a] \in Flipping /\ \E point \in Flipping \cup {"done"} : pc' = [pc EXCEPT ![a] = point]
      /\ \E h : FlipAll(h) \/ FlipFirst(h) \/ UNCHANGED journal
      /\ UNCHANGED <<voided, credits, htlc, result>>
  BY ZenonT(60) DEF SettlePendingLnSend, SettleRest, Return, Goto, Flipping, lndVars
<1>2. /\ pc'[a] \in Flipping \cup {"done"}
      /\ \A b \in Attempts : b # a => pc'[b] = pc[b]
  BY <1>1, ZenonT(60) DEF TypeInv, RequestTypes
<1>3. \A b \in Attempts : journal'[b] = "none" <=> journal[b] = "none"
  BY <1>1, FlipKeeps, ZenonT(60)
<1>4. \A b \in Attempts : /\ pc'[b] \in Early \cup {"pay"} => pc'[b] = pc[b]
                          /\ pc'[b] \in Flipping => pc[b] \in Flipping
                          /\ pc[b] = "done" => pc'[b] = "done"
  <2>1. pc'[a] \notin Early \cup {"pay"} /\ pc[a] # "done"
    BY <1>1, <1>2, Zenon DEF Early, Flipping
  <2> QED
    BY <1>1, <1>2, <2>1, ZenonT(60)
<1>5. \A b \in Attempts : Refunded(b)' = Refunded(b)
  BY <1>1, Zenon DEF Refunded
<1>6. RequestKnows'
  <2>1. /\ \A b \in Attempts : pc'[b] \in Early => journal'[b] = "none"
        /\ \A b \in Attempts : pc'[b] \in Early \cup {"pay"} => htlc[b] = "none"
    BY <1>3, <1>4, ZenonT(60) DEF RequestKnows
  <2>2. \A b \in Attempts : htlc[b] # "none" \/ pc'[b] = "pay" => journal'[b] # "none"
    <3>1. \A b \in Attempts : pc'[b] = "pay" => pc[b] = "pay"
      BY <1>4, Zenon
    <3> QED
      BY <1>3, <3>1, ZenonT(60) DEF RequestKnows
  <2>3. \A b \in Attempts : pc'[b] \in Flipping =>
          result[b] = "paid" \/ (result[b] = "failed" /\ htlc[b] \in {"none", "failed"})
    BY <1>4, ZenonT(60) DEF RequestKnows
  <2> QED
    BY <1>1, <2>1, <2>2, <2>3, ZenonT(60) DEF RequestKnows
<1>7. RefundSound'
  BY <1>1, <1>4, <1>5, ZenonT(60) DEF RefundSound
<1> QED
  BY <1>6, <1>7

\* The sender closes its journal.
LEMMA ResolveKnows ==
  ASSUME TypeInv, RequestKnows, RefundSound, NEW a \in Attempts, ResolveSend(a)
  PROVE  RequestKnows' /\ RefundSound'
<1>1. /\ pc[a] = "resolve" /\ pc' = [pc EXCEPT ![a] = "done"]
      /\ UNCHANGED <<journal, credits, htlc, result>>
      /\ \/ UNCHANGED voided
         \/ result[a] = "failed" /\ voided' = voided \cup {a}
  BY ZenonT(60) DEF ResolveSend, Return, Goto, Void, lndVars
<1>2. voided' # voided => htlc[a] \in {"none", "failed"}
  <2>1. result[a] = "paid" => result[a] # "failed"
    OBVIOUS
  <2> QED
    BY <1>1, <2>1, ZenonT(60) DEF RequestKnows, Flipping
<1>3. pc'[a] = "done" /\ \A b \in Attempts : b # a => pc'[b] = pc[b]
  BY <1>1, ZenonT(60) DEF TypeInv, RequestTypes
<1>4. RequestKnows'
  <2>1. \A b \in Attempts : pc'[b] \in Early \cup Flipping \cup {"pay"} => pc'[b] = pc[b]
    BY <1>3, ZenonT(60) DEF Early, Flipping
  <2>2. /\ \A b \in Attempts : pc'[b] \in Early => journal[b] = "none"
        /\ \A b \in Attempts : pc'[b] \in Early \cup {"pay"} => htlc[b] = "none"
    BY <2>1, ZenonT(60) DEF RequestKnows
  <2>3. \A b \in Attempts : htlc[b] # "none" \/ pc'[b] = "pay" => journal[b] # "none"
    <3>1. \A b \in Attempts : pc'[b] = "pay" => pc[b] = "pay"
      BY <2>1, Zenon
    <3> QED
      BY <3>1, ZenonT(60) DEF RequestKnows
  <2>4. \A b \in Attempts : pc'[b] \in Flipping =>
          result[b] = "paid" \/ (result[b] = "failed" /\ htlc[b] \in {"none", "failed"})
    BY <2>1, ZenonT(60) DEF RequestKnows
  <2> QED
    BY <1>1, <2>2, <2>3, <2>4, ZenonT(60) DEF RequestKnows
<1>5. RefundSound'
  <2>1. \A b \in Attempts : Refunded(b)' => Refunded(b) \/ (b = a /\ voided' # voided)
    <3>1. CASE UNCHANGED voided
      BY <1>1, <3>1, Zenon DEF Refunded
    <3>2. CASE voided' # voided
      BY <1>1, <3>2 DEF Refunded
    <3> QED
      BY <3>1, <3>2, Zenon
  <2>2. \A b \in Attempts : pc[b] = "done" => pc'[b] = "done"
    BY <1>3, Zenon
  <2>3. \A b \in Attempts :
          Refunded(b) => htlc[b] = "failed" \/ (htlc[b] = "none" /\ pc'[b] = "done")
    BY <2>2, ZenonT(60) DEF RefundSound
  <2>4. voided' # voided => htlc[a] = "failed" \/ (htlc[a] = "none" /\ pc'[a] = "done")
    BY <1>2, <1>3, Zenon
  <2>5. \A b \in Attempts :
          Refunded(b)' => htlc[b] = "failed" \/ (htlc[b] = "none" /\ pc'[b] = "done")
    BY <2>1, <2>3, <2>4, ZenonT(60)
  <2> QED
    BY <1>1, <2>5, Zenon DEF RefundSound
<1> QED
  BY <1>4, <1>5

\* Steps of a request, of lnd and of the lock it holds.
LEMMA RequestRetryStep ==
  ASSUME ~LostReply, RetryInv, NEW a \in Attempts,
         \/ CheckLimits(a) \/ RequestStep(a) \/ FlowWriteLands(a)
         \/ LndSettles(a) \/ LndFails(a) \/ ReplyLost(a)
         \/ LoseWalletLock(a) \/ StopRequest(a)
  PROVE  RequestKnows' /\ WorkerKnows' /\ RefundSound'
<1> USE DEF RetryInv, TransitInv, lockVars, ledgerVars, lndVars, requestVars, flowVars
<1>1. UNCHANGED workerVars
  BY ZenonT(60) DEF RequestStep, CheckLimits, LockWalletId, CheckInTransit, CheckBalance, CheckSignal,
     RecordSend, Pay, PayReturns, ReplyLost, PayTimesOut, SettlePendingLnSend, SettleRest,
     ResolveSend, FlowWriteLands, LndSettles, LndFails, LoseWalletLock, StopRequest
<1>2. ASSUME RequestKnows', RefundSound',
             UNCHANGED journal \/ \E h : FlipAll(h) \/ FlipFirst(h) \/ UNCHANGED journal,
             UNCHANGED htlc
      PROVE  RequestKnows' /\ WorkerKnows' /\ RefundSound'
  BY <1>1, <1>2, FlipKeeps, WorkerKnowsFrame, ZenonT(60)
<1>3. CASE CheckLimits(a) \/ LockWalletId(a) \/ CheckSignal(a)
  BY <1>2, <1>3, KnowsFrame, ZenonT(60) DEF CheckLimits, LockWalletId, CheckSignal, Early
<1>4. CASE CheckInTransit(a) \/ CheckBalance(a)
  BY <1>2, <1>4, KnowsFrame, ZenonT(60) DEF CheckInTransit, CheckBalance, Return, Early
<1>5. CASE PayTimesOut(a) \/ StopRequest(a) \/ FlowWriteLands(a) \/ LoseWalletLock(a)
  BY <1>2, <1>5, KnowsFrame, ZenonT(60) DEF PayTimesOut, StopRequest, FlowWriteLands, LoseWalletLock, Return
<1>6. CASE RecordSend(a)
  <2>1. \A b \in Attempts : journal[b] # "none" => journal'[b] # "none"
    BY <1>6, ZenonT(60) DEF RecordSend, TypeInv, LedgerTypes
  <2>2. UNCHANGED htlc
    BY <1>6, Zenon DEF RecordSend
  <2> QED
    BY <1>1, <1>6, <2>1, <2>2, RecordKnows, WorkerKnowsFrame, ZenonT(60)
<1>7. CASE Pay(a)
  <2>1. htlc[a] = "none" /\ UNCHANGED journal
    BY <1>7, ZenonT(60) DEF Pay, RequestKnows
  <2>2. \A b \in Attempts : b # a => htlc'[b] = htlc[b]
    BY <1>7, ZenonT(60) DEF Pay, TypeInv, RequestTypes
  <2>3. \A b \in Attempts : htlc[b] \in {"settled", "failed"} => htlc'[b] = htlc[b]
    BY <2>1, <2>2, ZenonT(60)
  <2> QED
    BY <1>1, <1>7, <2>1, <2>3, PayKnows, WorkerKnowsFrame, ZenonT(60)
<1>8. CASE LndSettles(a) \/ LndFails(a)
  <2>1. htlc[a] = "inflight" /\ UNCHANGED journal
    BY <1>8, Zenon DEF LndSettles, LndFails
  <2>2. \A b \in Attempts : b # a => htlc'[b] = htlc[b]
    BY <1>8, ZenonT(60) DEF LndSettles, LndFails, TypeInv, RequestTypes
  <2>3. \A b \in Attempts : htlc[b] \in {"settled", "failed"} => htlc'[b] = htlc[b]
    BY <2>1, <2>2, ZenonT(60)
  <2> QED
    BY <1>1, <1>8, <2>1, <2>3, LndKnows, WorkerKnowsFrame, ZenonT(60)
<1>9. CASE PayReturns(a)
  BY <1>2, <1>9, ReturnsKnows, ZenonT(60) DEF PayReturns
<1>10. CASE SettlePendingLnSend(a) \/ SettleRest(a)
  BY <1>2, <1>10, SettleKnows, ZenonT(60) DEF SettlePendingLnSend, SettleRest
<1>11. CASE ResolveSend(a)
  BY <1>2, <1>11, ResolveKnows, ZenonT(60) DEF ResolveSend
<1> QED
  BY <1>3, <1>4, <1>5, <1>6, <1>7, <1>8, <1>9, <1>10, <1>11, Zenon DEF RequestStep, ReplyLost

\* A reconciler that moves knows of its own payment what the others know of theirs.
LEMMA WorkerKnowsMove ==
  ASSUME TypeInv, WorkerKnows, NEW k \in Workers, UNCHANGED htlc,
         \A b \in Attempts : journal'[b] = "none" <=> journal[b] = "none",
         \A l \in Workers \ {k} : /\ wpc'[l] = wpc[l] /\ todo'[l] = todo[l]
                                  /\ job'[l] = job[l] /\ seen'[l] = seen[l],
         todo'[k] \subseteq Attempts /\ \A a \in todo'[k] : journal[a] # "none",
         wpc'[k] \in Visiting => job'[k] \in Attempts /\ journal[job'[k]] # "none",
         wpc'[k] \in Judged =>
           seen'[k] # "none" /\ \E b \in SameHash(HashOf[job'[k]]) : htlc[b] = seen'[k],
         wpc'[k] \in Bound => htlc[job'[k]] = seen'[k]
  PROVE  WorkerKnows'
<1>1. \A l \in Workers : todo[l] \subseteq Attempts /\ (wpc[l] \in Visiting => job[l] \in Attempts)
  BY Zenon DEF TypeInv, WorkerTypes
<1>2. \A l \in Workers : \A a \in todo'[l] : journal'[a] # "none"
  <2>1. ASSUME NEW l \in Workers, NEW a \in todo'[l], l # k PROVE journal'[a] # "none"
    BY <1>1, <2>1, ZenonT(60) DEF WorkerKnows
  <2> QED
    BY <2>1, ZenonT(60)
<1>3. \A l \in Workers : wpc'[l] \in Visiting => journal'[job'[l]] # "none"
  <2>1. ASSUME NEW l \in Workers, wpc'[l] \in Visiting, l # k PROVE journal'[job'[l]] # "none"
    <3>1. wpc[l] \in Visiting /\ job'[l] = job[l]
      BY <2>1, Zenon
    <3>2. journal[job[l]] # "none" /\ job[l] \in Attempts
      BY <1>1, <3>1, Zenon DEF WorkerKnows
    <3> QED
      BY <3>1, <3>2, Zenon
  <2> QED
    BY <2>1, ZenonT(60)
<1>4. \A l \in Workers : wpc'[l] \in Judged =>
        seen'[l] # "none" /\ \E b \in SameHash(HashOf[job'[l]]) : htlc[b] = seen'[l]
  <2>1. ASSUME NEW l \in Workers, wpc'[l] \in Judged, l # k
        PROVE  seen'[l] # "none" /\ \E b \in SameHash(HashOf[job'[l]]) : htlc[b] = seen'[l]
    <3>1. wpc[l] \in Judged /\ job'[l] = job[l] /\ seen'[l] = seen[l]
      BY <2>1, Zenon
    <3>2. seen[l] # "none" /\ \E b \in SameHash(HashOf[job[l]]) : htlc[b] = seen[l]
      BY <3>1, Zenon DEF WorkerKnows
    <3> QED
      BY <3>1, <3>2, Zenon
  <2> QED
    BY <2>1, ZenonT(60)
<1>5. \A l \in Workers : wpc'[l] \in Bound => htlc[job'[l]] = seen'[l]
  <2>1. ASSUME NEW l \in Workers, wpc'[l] \in Bound, l # k PROVE htlc[job'[l]] = seen'[l]
    BY <2>1, Zenon DEF WorkerKnows
  <2> QED
    BY <2>1, ZenonT(60)
<1> QED
  BY <1>2, <1>3, <1>4, <1>5, ZenonT(60) DEF WorkerKnows, SameHash

\* Leaving a payment.
LEMMA LeaveKnows ==
  ASSUME TypeInv, WorkerKnows, NEW k \in Workers, NextJob(k), UNCHANGED htlc,
         \A b \in Attempts : journal'[b] = "none" <=> journal[b] = "none"
  PROVE  WorkerKnows'
<1>1. \A l \in Workers \ {k} : /\ wpc'[l] = wpc[l] /\ todo'[l] = todo[l]
                               /\ job'[l] = job[l] /\ seen'[l] = seen[l]
  BY ZenonT(60) DEF NextJob, WGoto, TypeInv, WorkerTypes
<1>2. wpc'[k] \in {"idle", "next"} /\ todo'[k] = todo[k]
  BY ZenonT(60) DEF NextJob, WGoto, TypeInv, WorkerTypes
<1>3. wpc'[k] \notin Visiting /\ wpc'[k] \notin Judged /\ wpc'[k] \notin Bound
  BY <1>2, Zenon DEF Visiting, Judged, Bound
<1>4. todo'[k] \subseteq Attempts /\ \A a \in todo'[k] : journal[a] # "none"
  BY <1>2, ZenonT(60) DEF TypeInv, WorkerTypes, WorkerKnows
<1> QED
  BY <1>1, <1>3, <1>4, WorkerKnowsMove, ZenonT(60)

\* When no entry of the hash is settled, lnd's answer for the hash is about the payment
\* the reconciler is at.
LEMMA AnswerIsOwn ==
  ASSUME OneSender, RetryInv, NEW k \in Workers, wpc[k] = "checkRecorded",
         ~IsLnTxRecorded(HashOf[job[k]])
  PROVE  htlc[job[k]] = seen[k]
<1>1. wpc[k] \in Visiting /\ wpc[k] \in Judged
  BY Zenon DEF Visiting, Judged, WorkerPoints
<1>2. job[k] \in Attempts /\ journal[job[k]] # "none"
  BY <1>1, ZenonT(60) DEF RetryInv, TransitInv, TypeInv, WorkerTypes, WorkerKnows
<1>3. PICK b \in SameHash(HashOf[job[k]]) : htlc[b] = seen[k]
  BY <1>1, ZenonT(60) DEF RetryInv, WorkerKnows
<1>4. b \in Attempts /\ HashOf[b] = HashOf[job[k]] /\ htlc[b] # "none"
  BY <1>1, <1>3, ZenonT(60) DEF RetryInv, WorkerKnows, SameHash
<1>5. journal[b] # "none"
  BY <1>4, ZenonT(60) DEF RetryInv, RequestKnows
<1>6. journal[b] = "pending" /\ journal[job[k]] = "pending"
  BY <1>2, <1>4, <1>5, Zenon DEF IsLnTxRecorded, SameHash, RetryInv, TransitInv, TypeInv, LedgerTypes
<1>7. KeyOf(b) = KeyOf(job[k])
  BY <1>2, <1>4, ZenonT(60) DEF OneSender, KeyOf
<1>8. b = job[k]
  BY <1>2, <1>4, <1>6, <1>7, ZenonT(60) DEF RetryInv, TransitInv, OneInTransit
<1> QED
  BY <1>3, <1>8, Zenon

\* Steps of a reconciler.
LEMMA WorkerRetryStep ==
  ASSUME OneSender, RetryInv, NEW k \in Workers,
         \/ \E w \in Wallets \cup {Dealer} : ListPendingPayments(k, w)
         \/ WorkerStep(k) \/ LoseHashLock(k) \/ StopWorker(k)
  PROVE  RequestKnows' /\ WorkerKnows' /\ RefundSound'
<1> USE DEF RetryInv, TransitInv, lockVars, ledgerVars, lndVars, requestVars
<1>1. /\ UNCHANGED <<pc, result, htlc>>
      /\ \A b \in Attempts : journal'[b] = "none" <=> journal[b] = "none"
  <2>1. /\ UNCHANGED <<pc, result, htlc>>
        /\ \E h : FlipAll(h) \/ FlipFirst(h) \/ UNCHANGED journal
    BY ZenonT(60) DEF WorkerStep, ListPendingPayments, TakePayment, LookupPayment, LockPaymentHash,
       LockPaymentHashFails, CheckRecorded, MarkFlow, SettlePendingLnPayment, WSettleRest,
       ResolvePending, LoseHashLock, StopWorker
  <2> QED
    BY <2>1, FlipKeeps, ZenonT(60)
<1>2. RequestKnows'
  BY <1>1, RequestKnowsFrame, Zenon
<1>3. ASSUME UNCHANGED <<voided, credits>> PROVE RefundSound'
  BY <1>1, <1>3, ZenonT(60) DEF RefundSound, Refunded
<1>4. ASSUME UNCHANGED <<voided, credits>>, NextJob(k) \/ UNCHANGED workerVars
      PROVE  RefundSound' /\ WorkerKnows'
  <2>1. CASE NextJob(k)
    BY <1>1, <1>3, <1>4, <2>1, LeaveKnows, Zenon
  <2>2. CASE UNCHANGED workerVars
    BY <1>1, <1>3, <1>4, <2>2, WorkerKnowsFrame, Zenon
  <2> QED
    BY <1>4, <2>1, <2>2, Zenon
<1>5. ASSUME UNCHANGED <<voided, credits, todo, job, seen>>, wpc[k] \in Judged,
             NEW point \in Judged, WGoto(k, point), point \in Bound => htlc[job[k]] = seen[k]
      PROVE  RefundSound' /\ WorkerKnows'
  <2>1. wpc'[k] = point /\ \A l \in Workers \ {k} : wpc'[l] = wpc[l]
    BY <1>5, ZenonT(60) DEF WGoto, TypeInv, WorkerTypes
  <2>2. wpc[k] \in Visiting /\ job[k] \in Attempts /\ todo[k] \subseteq Attempts
    BY <1>5, ZenonT(60) DEF Judged, TypeInv, WorkerTypes
  <2>3. WorkerKnows'
    BY <1>1, <1>5, <2>1, <2>2, WorkerKnowsMove, ZenonT(60) DEF WorkerKnows
  <2> QED
    BY <1>3, <1>5, <2>3, Zenon
<1>6. ASSUME NEW w \in Wallets \cup {Dealer}, ListPendingPayments(k, w)
      PROVE  RefundSound' /\ WorkerKnows'
  <2>1. /\ wpc'[k] = "next" /\ todo'[k] = PendingOf(w)
        /\ \A l \in Workers \ {k} : wpc'[l] = wpc[l] /\ todo'[l] = todo[l]
        /\ UNCHANGED <<job, seen, voided, credits>>
    BY <1>6, ZenonT(60) DEF ListPendingPayments, WGoto, TypeInv, WorkerTypes
  <2>2. PendingOf(w) \subseteq Attempts /\ \A a \in PendingOf(w) : journal[a] # "none"
    BY ZenonT(60) DEF PendingOf
  <2>3. "next" \notin Visiting /\ "next" \notin Judged /\ "next" \notin Bound
    BY Zenon DEF Visiting, Judged, Bound
  <2>4. WorkerKnows'
    BY <1>1, <2>1, <2>2, <2>3, WorkerKnowsMove, ZenonT(60)
  <2> QED
    BY <1>3, <2>1, <2>4, Zenon
<1>7. CASE TakePayment(k)
  <2>1. PICK a \in todo[k] : job' = [job EXCEPT ![k] = a] /\ todo' = [todo EXCEPT ![k] = @ \ {a}]
    BY <1>7, Zenon DEF TakePayment
  <2>2. /\ wpc'[k] = "lookup" /\ job'[k] = a /\ todo'[k] \subseteq todo[k]
        /\ \A l \in Workers \ {k} : wpc'[l] = wpc[l] /\ todo'[l] = todo[l] /\ job'[l] = job[l]
        /\ UNCHANGED <<seen, voided, credits>>
    BY <1>7, <2>1, ZenonT(60) DEF TakePayment, WGoto, TypeInv, WorkerTypes
  <2>3. todo[k] \subseteq Attempts /\ \A b \in todo[k] : journal[b] # "none"
    BY ZenonT(60) DEF TypeInv, WorkerTypes, WorkerKnows
  <2>4. "lookup" \notin Judged /\ "lookup" \notin Bound
    BY Zenon DEF Judged, Bound
  <2>5. todo'[k] \subseteq Attempts /\ (\A b \in todo'[k] : journal[b] # "none")
        /\ a \in Attempts /\ journal[a] # "none"
    BY <2>1, <2>2, <2>3, Zenon
  <2>6. WorkerKnows'
    BY <1>1, <2>2, <2>4, <2>5, WorkerKnowsMove, ZenonT(60)
  <2> QED
    BY <1>2, <1>3, <2>2, <2>6, Zenon
<1>8. CASE LookupPayment(k)
  <2> DEFINE s == LnStatus(HashOf[job[k]])
  <2>1. CASE s \in {"settled", "failed"}
    <3>1. /\ wpc[k] = "lookup" /\ WGoto(k, "wantLock") /\ seen' = [seen EXCEPT ![k] = s]
          /\ UNCHANGED <<job, todo, voided, credits>>
      BY <1>8, <2>1, ZenonT(60) DEF LookupPayment
    <3>2. /\ wpc'[k] = "wantLock" /\ seen'[k] = s
          /\ \A l \in Workers \ {k} : wpc'[l] = wpc[l] /\ seen'[l] = seen[l]
      BY <3>1, ZenonT(60) DEF WGoto, TypeInv, WorkerTypes
    <3>3. "wantLock" \notin Bound /\ wpc[k] \in Visiting /\ s # "none"
      BY <2>1, <3>1, Zenon DEF Bound, Visiting, WorkerPoints
    <3>4. /\ job[k] \in Attempts /\ journal[job[k]] # "none" /\ todo[k] \subseteq Attempts
          /\ \A a \in todo[k] : journal[a] # "none"
      BY <3>3, ZenonT(60) DEF TypeInv, WorkerTypes, WorkerKnows
    <3>5. \E b \in SameHash(HashOf[job[k]]) : htlc[b] = s
      BY <2>1, Zenon DEF LnStatus
    <3> HIDE DEF s
    <3>6. WorkerKnows'
      BY <1>1, <3>1, <3>2, <3>3, <3>4, <3>5, WorkerKnowsMove, ZenonT(60)
    <3> QED
      BY <1>2, <1>3, <3>1, <3>6, Zenon
  <2>2. CASE s \notin {"settled", "failed"}
    BY <1>2, <1>4, <1>8, <2>2, ZenonT(60) DEF LookupPayment
  <2> QED
    BY <2>1, <2>2, Zenon
<1>9. CASE LockPaymentHash(k)
  BY <1>2, <1>5, <1>9, ZenonT(60) DEF LockPaymentHash, Judged, Bound, Visiting, WorkerPoints
<1>10. CASE LockPaymentHashFails(k) \/ StopWorker(k) \/ LoseHashLock(k)
  BY <1>2, <1>4, <1>10, ZenonT(60) DEF LockPaymentHashFails, StopWorker, LoseHashLock
<1>11. CASE CheckRecorded(k)
  <2>1. CASE IsLnTxRecorded(HashOf[job[k]])
    BY <1>2, <1>4, <1>11, <2>1, ZenonT(60) DEF CheckRecorded
  <2>2. CASE ~IsLnTxRecorded(HashOf[job[k]])
    <3>1. htlc[job[k]] = seen[k]
      BY <1>11, <2>2, AnswerIsOwn, Zenon DEF CheckRecorded
    <3>2. wpc[k] \in Judged /\ "markFlow" \in Judged
      BY <1>11, ZenonT(60) DEF CheckRecorded, Judged, Visiting, WorkerPoints
    <3> QED
      BY <1>2, <1>5, <1>11, <2>2, <3>1, <3>2, ZenonT(60) DEF CheckRecorded
  <2> QED
    BY <2>1, <2>2, Zenon
<1>12. CASE MarkFlow(k) \/ SettlePendingLnPayment(k) \/ WSettleRest(k)
  <2>1. /\ UNCHANGED <<voided, credits>>
        /\ \/ NextJob(k)
           \/ /\ UNCHANGED <<todo, job, seen>>
              /\ \E point \in {"settle", "settleRest", "settleWon", "resolve"} : WGoto(k, point)
    BY <1>12, ZenonT(60) DEF MarkFlow, SettlePendingLnPayment, WSettleRest
  <2>2. wpc[k] \in Bound
    BY <1>12, ZenonT(60) DEF MarkFlow, SettlePendingLnPayment, WSettleRest, Bound, Judged, Visiting,
       WorkerPoints
  <2>3. /\ wpc[k] \in Judged /\ htlc[job[k]] = seen[k]
        /\ {"settle", "settleRest", "settleWon", "resolve"} \subseteq Judged
    BY <2>2, ZenonT(60) DEF WorkerKnows, Bound, Judged, Visiting, WorkerPoints
  <2> QED
    BY <1>2, <1>4, <1>5, <2>1, <2>3, ZenonT(60)
<1>13. CASE ResolvePending(k)
  <2>1. wpc[k] \in Bound /\ NextJob(k)
    BY <1>13, ZenonT(60) DEF ResolvePending, Bound, Judged, Visiting, WorkerPoints
  <2>2. htlc[job[k]] = seen[k]
    BY <2>1, Zenon DEF WorkerKnows
  <2>3. WorkerKnows'
    BY <1>1, <2>1, LeaveKnows, Zenon
  <2>4. CASE seen[k] # "failed"
    BY <1>2, <1>3, <1>13, <2>3, <2>4, ZenonT(60) DEF ResolvePending
  <2>5. CASE seen[k] = "failed"
    <3>1. /\ voided' = voided \/ voided' = voided \cup {job[k]}
          /\ credits' = credits \/ credits' = [credits EXCEPT ![job[k]] = @ + 1]
      BY <1>13, <2>5, ZenonT(60) DEF ResolvePending, Void, ReimburseFailedUsdPayment
    <3>2. \A b \in Attempts : Refunded(b)' => Refunded(b) \/ b = job[k]
      BY <3>1, ZenonT(60) DEF Refunded, TypeInv, LedgerTypes
    <3>3. RefundSound'
      BY <1>1, <2>2, <2>5, <3>2, ZenonT(60) DEF RefundSound
    <3> QED
      BY <1>2, <2>3, <3>3, Zenon
  <2> QED
    BY <2>4, <2>5, Zenon
<1> QED
  BY <1>2, <1>6, <1>7, <1>8, <1>9, <1>10, <1>11, <1>12, <1>13, ZenonT(60) DEF WorkerStep

\* Every step keeps the invariant.
LEMMA RetryStep ==
  ASSUME OneSender, ~WalletLockExpires, ~LostReply, RetryInv, [Next]_vars
  PROVE  RetryInv'
<1>1. TransitInv'
  BY TransitStep, Zenon DEF RetryInv
<1>2. CASE UNCHANGED vars
  <2>1. UNCHANGED <<journal, voided, credits, htlc, pc, result, workerVars>>
    BY <1>2, Zenon DEF vars, ledgerVars, lndVars, requestVars
  <2>2. RequestKnows' /\ WorkerKnows'
    BY <2>1, RequestKnowsFrame, WorkerKnowsFrame, Zenon DEF RetryInv, TransitInv
  <2>3. RefundSound'
    BY <2>1, ZenonT(60) DEF RetryInv, RefundSound, Refunded
  <2> QED
    BY <1>1, <2>2, <2>3, Zenon DEF RetryInv
<1> QED
  BY <1>1, <1>2, RequestRetryStep, WorkerRetryStep, Zenon DEF Next, Done, RetryInv

\* A sender is given back only what lnd can no longer deliver, also when a hash is paid
\* again after a failure, with reconcilers racing the retry, crashes, locks of hashes that
\* expire and an updateMany that is not atomic.  It takes the lock of the wallet, replies
\* of lnd that are not lost, and hashes that are each paid from one wallet.
THEOREM RefundsAreSafe ==
  ASSUME OneSender, ~WalletLockExpires, ~LostReply
  PROVE  Spec => []RefundedOnlyIfFailed
<1>1. Init => RetryInv
  <2> SUFFICES ASSUME Init PROVE RetryInv
    OBVIOUS
  <2>1. TypeInv
    BY TypeInvInductive, Zenon
  <2>2. LockHeld /\ Clear /\ OneInTransit
    BY Zenon DEF Init, LockHeld, Clear, Clearing, OneInTransit, Holding, RequestPoints
  <2>3. RequestKnows /\ RefundSound
    BY DEF Init, RequestKnows, RefundSound, Refunded, Early, Flipping
  <2>4. WorkerKnows
    BY Zenon DEF Init, WorkerKnows, Bound, Judged, Visiting, WorkerPoints
  <2> QED
    BY <2>1, <2>2, <2>3, <2>4, Zenon DEF RetryInv, TransitInv
<1>2. RetryInv /\ [Next]_vars => RetryInv'
  BY RetryStep, Zenon
<1>3. RetryInv => RefundedOnlyIfFailed
  BY ZenonT(60) DEF RetryInv, RefundSound, RefundedOnlyIfFailed
<1> QED
  BY <1>1, <1>2, <1>3, PTL DEF Spec

-----------------------------------------------------------------------------
(***************************************************************************)
(* LnSend implements LnSendContract, for any number of requests,           *)
(* reconcilers and crashes and with locks that expire, provided that no    *)
(* two requests pay one hash, updateMany is atomic and lnd's replies are   *)
(* not lost.  LnSend has a constant for each of the last two, and TLC      *)
(* finds counterexamples without any of the three.                         *)
(***************************************************************************)

OnePayer == \A a, b \in Attempts : HashOf[a] = HashOf[b] => a = b

-----------------------------------------------------------------------------
(* The inductive invariant: who settles a journal closes it alone, and     *)
(* what the sender and the reconcilers believe of lnd is so.               *)

Fresh(a) == a \notin voided /\ credits[a] = 0 /\ feeBacks[a] = 0
Closing(k, a) == wpc[k] = "resolve" /\ job[k] = a

SoleCloser ==
  /\ \A a \in Attempts : journal[a] # "half" /\ pc[a] \notin {"settleRest", "settleWon"}
  /\ \A k \in Workers : wpc[k] \notin {"settleRest", "settleWon"}
  /\ \A a \in Attempts : journal[a] # "settled" \/ pc[a] = "resolve" =>
       Fresh(a) /\ \A k \in Workers : ~Closing(k, a)
  /\ \A a \in Attempts : journal[a] # "settled" => pc[a] # "resolve"
  /\ \A a \in Attempts, k \in Workers : Closing(k, a) => Fresh(a)
  /\ \A a \in Attempts, k, l \in Workers : Closing(k, a) /\ Closing(l, a) => k = l

LndAgrees ==
  /\ \A a \in Attempts : pc[a] \in Early => journal[a] = "none"
  /\ \A a \in Attempts : pc[a] \in Early \cup {"pay"} => htlc[a] = "none"
  /\ \A a \in Attempts : htlc[a] # "none" \/ pc[a] = "pay" => journal[a] # "none"
  /\ \A a \in Attempts : pc[a] \in {"settle", "resolve"} =>
       \/ result[a] = "paid"
       \/ result[a] = "failed" /\ htlc[a] \in {"none", "failed"}
  /\ \A k \in Workers : wpc[k] \in Judged => seen[k] # "none" /\ htlc[job[k]] = seen[k]
  /\ \A a \in Attempts : Refunded(a) =>
       \/ htlc[a] = "failed"
       \/ htlc[a] = "none" /\ pc[a] = "done"
  /\ \A a \in Attempts : feeBacks[a] # 0 => htlc[a] = "settled"

ContractInv == TypeInv /\ SoleCloser /\ LndAgrees

\* With one payer per hash, lnd's status of a hash is that of its only payment.
LEMMA OnePayerStatus ==
  ASSUME OnePayer, TypeInv, NEW a \in Attempts
  PROVE  /\ SameHash(HashOf[a]) = {a}
         /\ LnStatus(HashOf[a]) = htlc[a]
         /\ (htlc[a] = "settled" => PaidFee(HashOf[a]) = fee[a])
<1>1. SameHash(HashOf[a]) = {a}
  BY Zenon DEF OnePayer, SameHash
<1> QED
  BY <1>1, Zenon DEF LnStatus, PaidFee, TypeInv, RequestTypes

\* A step that leaves the ledger and the reconcilers alone, and takes no request to the
\* point where it closes its journal, keeps the closers apart.
LEMMA SoleFrame ==
  ASSUME TypeInv, SoleCloser, NEW a \in Attempts,
         UNCHANGED <<journal, voided, credits, feeBacks, wpc, job>>,
         \/ UNCHANGED pc
         \/ \E point \in RequestPoints \ {"resolve", "settleRest", "settleWon"} : Goto(a, point)
  PROVE  SoleCloser'
BY DEF TypeInv, RequestTypes, SoleCloser, Fresh, Closing, Goto, RequestPoints

\* So does a step before the payment is recorded, or a return, with what is believed of lnd.
LEMMA AgreeFrame ==
  ASSUME TypeInv, LndAgrees, NEW a \in Attempts,
         UNCHANGED <<journal, voided, credits, feeBacks, htlc, result, wpc, job, seen>>,
         \/ UNCHANGED pc
         \/ Goto(a, "done")
         \/ pc[a] \in Early /\ \E point \in Early : Goto(a, point)
  PROVE  LndAgrees'
BY DEF TypeInv, RequestTypes, LndAgrees, Refunded, Goto, Early

\* A reconciler that has asked lnd holds a payment lnd has finished with.
LEMMA JudgedJob ==
  ASSUME TypeInv, LndAgrees, NEW a \in Attempts, htlc[a] \in {"none", "inflight"}
  PROVE  \A k \in Workers : wpc[k] \in Judged => job[k] \in Attempts /\ job[k] # a
<1>1. ASSUME NEW k \in Workers, wpc[k] \in Judged PROVE job[k] \in Attempts /\ job[k] # a
  <2>1. job[k] \in Attempts
    BY <1>1, Zenon DEF TypeInv, WorkerTypes, Judged
  <2>2. htlc[job[k]] = seen[k] /\ seen[k] # "none"
    BY <1>1, ZenonT(60) DEF LndAgrees
  <2>3. seen[k] # "inflight"
    BY Zenon DEF TypeInv, WorkerTypes
  <2> QED
    BY <2>1, <2>2, <2>3, Zenon
<1> QED
  BY <1>1, Zenon

\* Steps of a request, of lnd and of the lock it holds.
LEMMA RequestContractStep ==
  ASSUME OnePayer, AtomicSettle, ~LostReply, ContractInv, NEW a \in Attempts,
         \/ CheckLimits(a) \/ RequestStep(a) \/ FlowWriteLands(a)
         \/ LndSettles(a) \/ LndFails(a) \/ ReplyLost(a)
         \/ LoseWalletLock(a) \/ StopRequest(a)
  PROVE  SoleCloser' /\ LndAgrees'
<1> USE SendAssumption DEF ContractInv, lockVars, ledgerVars, lndVars, requestVars, workerVars, flowVars
<1>1. CASE CheckLimits(a) \/ LockWalletId(a) \/ CheckSignal(a)
  BY <1>1, SoleFrame, AgreeFrame, ZenonT(60) DEF CheckLimits, LockWalletId, CheckSignal, Early,
     RequestPoints
<1>2. CASE CheckInTransit(a) \/ CheckBalance(a)
  BY <1>2, SoleFrame, AgreeFrame, Zenon DEF CheckInTransit, CheckBalance, Return, Early, RequestPoints
<1>3. CASE PayTimesOut(a) \/ StopRequest(a)
  BY <1>3, SoleFrame, AgreeFrame, ZenonT(60) DEF PayTimesOut, StopRequest, Return, RequestPoints
<1>4. CASE FlowWriteLands(a) \/ LoseWalletLock(a)
  BY <1>4, SoleFrame, AgreeFrame, ZenonT(60) DEF FlowWriteLands, LoseWalletLock
<1>5. CASE RecordSend(a)
  <2>1. /\ pc[a] = "record" /\ pc' = [pc EXCEPT ![a] = "pay"]
        /\ journal' = [journal EXCEPT ![a] = "pending"]
        /\ UNCHANGED <<voided, credits, feeBacks, htlc, result, wpc, job, seen>>
    BY <1>5, Zenon DEF RecordSend, Goto
  <2>2. journal[a] = "none"
    BY <2>1, Zenon DEF LndAgrees, Early
  <2>3. SoleCloser'
    BY <2>1, <2>2, SMTT(60) DEF TypeInv, LedgerTypes, RequestTypes, SoleCloser, Fresh, Closing
  <2>4. LndAgrees'
    BY <2>1, <2>2, SMTT(60) DEF TypeInv, LedgerTypes, RequestTypes, LndAgrees, Refunded, Early
  <2> QED
    BY <2>3, <2>4, Zenon
<1>6. CASE Pay(a)
  <2>1. /\ pc[a] = "pay" /\ UNCHANGED <<journal, voided, credits, feeBacks, wpc, job, seen>>
        /\ htlc[a] = "none" /\ journal[a] # "none"
    BY <1>6, ZenonT(60) DEF Pay, LndAgrees
  <2>2. LnStatus(HashOf[a]) = "none"
    BY <2>1, OnePayerStatus, Zenon
  <2>3. \/ htlc' = [htlc EXCEPT ![a] = "inflight"] /\ Goto(a, "paying") /\ UNCHANGED result
        \/ /\ \E s \in {"none", "failed"} : htlc' = [htlc EXCEPT ![a] = s]
           /\ Goto(a, "settle") /\ result' = [result EXCEPT ![a] = "failed"]
    BY <1>6, <2>2, Zenon DEF Pay
  <2>4. SoleCloser'
    BY <2>1, <2>3, SoleFrame, Zenon DEF RequestPoints
  <2>5. \A k \in Workers : wpc[k] \in Judged => job[k] \in Attempts /\ job[k] # a
    BY <2>1, JudgedJob, Zenon
  <2>6. LndAgrees'
    BY <2>1, <2>3, <2>5, SMTT(60) DEF TypeInv, RequestTypes, LndAgrees, Refunded, Goto, Early
  <2> QED
    BY <2>4, <2>6
<1>7. CASE PayReturns(a)
  <2>1. /\ pc[a] = "paying" /\ UNCHANGED <<journal, voided, credits, feeBacks, htlc, wpc, job, seen>>
        /\ Goto(a, "settle") /\ htlc[a] \in {"settled", "failed"}
        /\ result' = [result EXCEPT ![a] = IF htlc[a] = "settled" THEN "paid" ELSE "failed"]
    BY <1>7, ZenonT(60) DEF PayReturns
  <2>2. SoleCloser'
    BY <2>1, SoleFrame, ZenonT(60) DEF RequestPoints
  <2>3. LndAgrees'
    <3>1. /\ pc'[a] = "settle" /\ \A b \in Attempts : b # a => pc'[b] = pc[b]
          /\ result'[a] = "paid" \/ (result'[a] = "failed" /\ htlc[a] \in {"none", "failed"})
          /\ \A b \in Attempts : b # a => result'[b] = result[b]
      BY <2>1, Zenon DEF TypeInv, RequestTypes, Goto
    <3>2. \A b \in Attempts : /\ Refunded(b)' = Refunded(b)
                              /\ pc'[b] \in Early \cup {"pay"} => pc'[b] = pc[b]
                              /\ pc[b] = "done" => pc'[b] = "done"
      BY <2>1, <3>1, ZenonT(60) DEF Refunded, Early
    <3>3. /\ \A b \in Attempts : pc'[b] \in Early => journal[b] = "none"
          /\ \A b \in Attempts : pc'[b] \in Early \cup {"pay"} => htlc[b] = "none"
      BY <3>2, ZenonT(60) DEF LndAgrees
    <3>4. \A b \in Attempts : htlc[b] # "none" \/ pc'[b] = "pay" => journal[b] # "none"
      <4>1. \A b \in Attempts : pc'[b] = "pay" => pc[b] = "pay"
        BY <3>2, ZenonT(60)
      <4>2. \A b \in Attempts : htlc[b] # "none" \/ pc[b] = "pay" => journal[b] # "none"
        BY ZenonT(60) DEF LndAgrees
      <4> QED
        BY <4>1, <4>2, ZenonT(60)
    <3>5. \A b \in Attempts : pc'[b] \in {"settle", "resolve"} =>
            result'[b] = "paid" \/ (result'[b] = "failed" /\ htlc[b] \in {"none", "failed"})
      BY <3>1, ZenonT(60) DEF LndAgrees
    <3>6. /\ \A b \in Attempts : Refunded(b)' =>
               htlc[b] = "failed" \/ (htlc[b] = "none" /\ pc'[b] = "done")
          /\ \A b \in Attempts : feeBacks[b] # 0 => htlc[b] = "settled"
      BY <3>2, ZenonT(60) DEF LndAgrees
    <3>7. \A l \in Workers : wpc[l] \in Judged => seen[l] # "none" /\ htlc[job[l]] = seen[l]
      BY ZenonT(60) DEF LndAgrees
    <3>8. UNCHANGED <<journal, feeBacks, htlc, wpc, job, seen>>
      BY <2>1, Zenon
    <3> HIDE <2>1
    <3> QED
      BY <3>3, <3>4, <3>5, <3>6, <3>7, <3>8, ZenonT(60) DEF LndAgrees
  <2> QED
    BY <2>2, <2>3
<1>8. CASE SettlePendingLnSend(a)
  <2>1. CASE PendingIn(HashOf[a]) = {}
    BY <1>8, <2>1, SoleFrame, AgreeFrame, Zenon DEF SettlePendingLnSend, Return, RequestPoints
  <2>2. CASE PendingIn(HashOf[a]) # {}
    <3>1. PendingIn(HashOf[a]) = {a} /\ journal[a] # "settled" /\ journal[a] # "none"
      BY <2>2, OnePayerStatus DEF PendingIn
    <3>2. /\ pc[a] = "settle" /\ pc' = [pc EXCEPT ![a] = "resolve"]
          /\ journal' = [journal EXCEPT ![a] = "settled"]
          /\ UNCHANGED <<voided, credits, feeBacks, htlc, result, wpc, job, seen>>
      BY <1>8, <2>2, <3>1, Zenon DEF SettlePendingLnSend, FlipAll, Goto, TypeInv, LedgerTypes
    <3>3. SoleCloser'
      BY <3>1, <3>2, SMTT(60) DEF TypeInv, LedgerTypes, RequestTypes, SoleCloser, Fresh, Closing
    <3>4. LndAgrees'
      BY <3>1, <3>2, SMTT(60) DEF TypeInv, LedgerTypes, RequestTypes, LndAgrees, Refunded, Early
    <3> QED
      BY <3>3, <3>4
  <2> QED
    BY <2>1, <2>2, Zenon
<1>9. CASE ResolveSend(a)
  <2>1. /\ pc[a] = "resolve" /\ pc' = [pc EXCEPT ![a] = "done"]
        /\ Fresh(a) /\ \A k \in Workers : ~Closing(k, a)
        /\ journal[a] = "settled"
        /\ UNCHANGED <<journal, htlc, result, credits, wpc, job, seen>>
    BY <1>9, ZenonT(60) DEF ResolveSend, Return, Goto, SoleCloser
  <2>2. \/ /\ result[a] = "failed" /\ htlc[a] \in {"none", "failed"}
           /\ voided' = voided \cup {a} /\ UNCHANGED feeBacks
        \/ /\ result[a] = "paid" /\ htlc[a] = "settled" /\ UNCHANGED voided
           /\ feeBacks' = feeBacks \/ feeBacks' = [feeBacks EXCEPT ![a] = @ + 1]
    BY <1>9, <2>1, ZenonT(60) DEF ResolveSend, Void, ReimburseFee, Fresh, LndAgrees, TypeInv, RequestTypes
  <2>3. SoleCloser'
    <3>1. \A b \in Attempts : b # a /\ Fresh(b) => Fresh(b)'
      BY <2>1, <2>2 DEF Fresh, TypeInv, LedgerTypes
    <3>2. \A k \in Workers, b \in Attempts : /\ Closing(k, b)' = Closing(k, b)
                                             /\ Closing(k, b) => b # a
      BY <2>1, Zenon DEF Closing
    <3>3. pc'[a] = "done" /\ \A b \in Attempts : b # a => pc'[b] = pc[b]
      BY <2>1, Zenon DEF TypeInv, RequestTypes
    <3>4. \A b \in Attempts : journal[b] # "settled" \/ pc'[b] = "resolve" =>
            Fresh(b)' /\ \A k \in Workers : ~Closing(k, b)'
      BY <2>1, <3>1, <3>2, <3>3, ZenonT(60) DEF SoleCloser
    <3>5. /\ \A b \in Attempts : pc'[b] \notin {"settleRest", "settleWon"}
          /\ \A b \in Attempts : journal[b] # "settled" => pc'[b] # "resolve"
      BY <3>3, Zenon DEF SoleCloser
    <3>6. \A b \in Attempts, k \in Workers : Closing(k, b)' => Fresh(b)'
      BY <3>1, <3>2, Zenon DEF SoleCloser
    <3>7. \A b \in Attempts, k, l \in Workers : Closing(k, b)' /\ Closing(l, b)' => k = l
      BY <3>2, Zenon DEF SoleCloser
    <3>8. /\ \A b \in Attempts : journal[b] # "half"
          /\ \A k \in Workers : wpc[k] \notin {"settleRest", "settleWon"}
      BY Zenon DEF SoleCloser
    <3>9. UNCHANGED <<journal, wpc>>
      BY <2>1, Zenon
    <3> HIDE <2>1, <2>2
    <3> QED
      BY <3>4, <3>5, <3>6, <3>7, <3>8, <3>9, ZenonT(60) DEF SoleCloser
  <2>4. LndAgrees'
    <3>1. pc'[a] = "done" /\ \A b \in Attempts : b # a => pc'[b] = pc[b]
      BY <2>1 DEF TypeInv, RequestTypes
    <3>2. \A b \in Attempts :
            /\ Refunded(b)' => Refunded(b) \/ (b = a /\ htlc[b] \in {"none", "failed"})
            /\ feeBacks'[b] # 0 => feeBacks[b] # 0 \/ htlc[b] = "settled"
      BY <2>1, <2>2 DEF TypeInv, LedgerTypes, Refunded
    <3>3. \A b \in Attempts :
            /\ pc'[b] \in Early \cup {"pay", "settle", "resolve"} => pc'[b] = pc[b]
            /\ pc[b] = "done" => pc'[b] = "done"
      BY <3>1, Zenon DEF Early
    <3>4. \A b \in Attempts :
            Refunded(b)' => htlc[b] = "failed" \/ (htlc[b] = "none" /\ pc'[b] = "done")
      BY <3>1, <3>2, <3>3, ZenonT(60) DEF LndAgrees
    <3>5. \A b \in Attempts : feeBacks'[b] # 0 => htlc[b] = "settled"
      BY <3>2, Zenon DEF LndAgrees
    <3>6. /\ \A b \in Attempts : pc'[b] \in Early => journal[b] = "none"
          /\ \A b \in Attempts : pc'[b] \in Early \cup {"pay"} => htlc[b] = "none"
          /\ \A b \in Attempts : htlc[b] # "none" \/ pc'[b] = "pay" => journal[b] # "none"
      <4>1. \A b \in Attempts : pc'[b] \in Early => journal[b] = "none"
        BY <3>3, ZenonT(60) DEF LndAgrees
      <4>2. \A b \in Attempts : pc'[b] \in Early \cup {"pay"} => htlc[b] = "none"
        BY <3>3, ZenonT(60) DEF LndAgrees
      <4>3. \A b \in Attempts : pc'[b] = "pay" => pc[b] = "pay"
        BY <3>3, ZenonT(60)
      <4>4. \A b \in Attempts : htlc[b] # "none" \/ pc'[b] = "pay" => journal[b] # "none"
        BY <4>3, ZenonT(60) DEF LndAgrees
      <4> QED
        BY <4>1, <4>2, <4>4, ZenonT(60)
    <3>7. \A b \in Attempts : pc'[b] \in {"settle", "resolve"} =>
            result[b] = "paid" \/ (result[b] = "failed" /\ htlc[b] \in {"none", "failed"})
      BY <3>3, ZenonT(60) DEF LndAgrees
    <3>8. \A l \in Workers : wpc[l] \in Judged => seen[l] # "none" /\ htlc[job[l]] = seen[l]
      BY ZenonT(60) DEF LndAgrees
    <3>9. UNCHANGED <<journal, htlc, result, wpc, job, seen>>
      BY <2>1, Zenon
    <3> HIDE <2>1, <2>2
    <3> QED
      BY <3>4, <3>5, <3>6, <3>7, <3>8, <3>9, ZenonT(60) DEF LndAgrees
  <2> QED
    BY <2>3, <2>4
<1>10. CASE LndSettles(a) \/ LndFails(a)
  <2>1. /\ htlc[a] = "inflight" /\ \E s \in {"settled", "failed"} : htlc' = [htlc EXCEPT ![a] = s]
        /\ UNCHANGED <<journal, voided, credits, feeBacks, pc, result, wpc, job, seen>>
    BY <1>10, ZenonT(60) DEF LndSettles, LndFails
  <2>2. SoleCloser'
    BY <2>1, SoleFrame, Zenon
  <2>3. \A k \in Workers : wpc[k] \in Judged => job[k] \in Attempts /\ job[k] # a
    BY <2>1, JudgedJob, ZenonT(60)
  <2>4. LndAgrees'
    <3>1. /\ htlc'[a] \in {"settled", "failed"}
          /\ \A b \in Attempts : b # a => htlc'[b] = htlc[b]
      BY <2>1, Zenon DEF TypeInv, RequestTypes
    <3>2. \A b \in Attempts : /\ Refunded(b)' = Refunded(b)
                              /\ Refunded(b) \/ feeBacks[b] # 0 => b # a
      BY <2>1, ZenonT(60) DEF LndAgrees, Refunded
    <3>3. pc[a] \notin Early \cup {"pay"} /\ journal[a] # "none"
      BY <2>1, ZenonT(60) DEF LndAgrees
    <3>4. /\ \A b \in Attempts : pc[b] \in Early => journal[b] = "none"
          /\ \A b \in Attempts : pc[b] \in Early \cup {"pay"} => htlc'[b] = "none"
      BY <3>1, <3>3, ZenonT(60) DEF LndAgrees
    <3>5. \A b \in Attempts : htlc'[b] # "none" \/ pc[b] = "pay" => journal[b] # "none"
      BY <3>1, <3>3, ZenonT(60) DEF LndAgrees
    <3>6. \A b \in Attempts : pc[b] \in {"settle", "resolve"} =>
            result[b] = "paid" \/ (result[b] = "failed" /\ htlc'[b] \in {"none", "failed"})
      <4>1. \A b \in Attempts : pc[b] \in {"settle", "resolve"} =>
              result[b] = "paid" \/ (result[b] = "failed" /\ htlc[b] \in {"none", "failed"})
        BY ZenonT(60) DEF LndAgrees
      <4>2. htlc[a] \notin {"none", "failed"}
        BY <2>1, Zenon
      <4> QED
        BY <3>1, <4>1, <4>2, ZenonT(60)
    <3>7. \A l \in Workers : wpc[l] \in Judged => seen[l] # "none" /\ htlc'[job[l]] = seen[l]
      BY <2>3, <3>1, ZenonT(60) DEF LndAgrees
    <3>8. /\ \A b \in Attempts : Refunded(b)' =>
               htlc'[b] = "failed" \/ (htlc'[b] = "none" /\ pc[b] = "done")
          /\ \A b \in Attempts : feeBacks[b] # 0 => htlc'[b] = "settled"
      BY <3>1, <3>2, ZenonT(60) DEF LndAgrees
    <3>9. UNCHANGED <<journal, feeBacks, pc, result, wpc, job, seen>>
      BY <2>1, Zenon
    <3> HIDE <2>1
    <3> QED
      BY <3>4, <3>5, <3>6, <3>7, <3>8, <3>9, ZenonT(60) DEF LndAgrees
  <2> QED
    BY <2>2, <2>4
<1> QED
  BY <1>1, <1>2, <1>3, <1>4, <1>5, <1>6, <1>7, <1>8, <1>9, <1>10, Zenon
  DEF RequestStep, ReplyLost, SettleRest, SoleCloser

\* A step that takes no reconciler to the point where it closes a journal keeps the
\* closers apart.
LEMMA CloserFrame ==
  ASSUME SoleCloser, UNCHANGED <<journal, voided, credits, feeBacks, pc>>,
         \A l \in Workers :
           wpc'[l] \notin {"settleRest", "settleWon"}
           /\ (wpc'[l] = "resolve" => wpc[l] = "resolve" /\ job'[l] = job[l])
  PROVE  SoleCloser'
<1>1. \A b : Fresh(b)' = Fresh(b)
  BY Zenon DEF Fresh
<1>2. \A l \in Workers, b \in Attempts : Closing(l, b)' => Closing(l, b)
  BY Zenon DEF Closing
<1> QED
  BY <1>1, <1>2, ZenonT(60) DEF SoleCloser

\* What the reconcilers believe of lnd is all a step of theirs can make wrong, unless it
\* closes a journal.
LEMMA BeliefFrame ==
  ASSUME LndAgrees, UNCHANGED <<journal, voided, credits, feeBacks, htlc, pc, result>>,
         \A l \in Workers : wpc'[l] \in Judged => seen'[l] # "none" /\ htlc[job'[l]] = seen'[l]
  PROVE  LndAgrees'
<1>1. \A b : Refunded(b)' = Refunded(b)
  BY Zenon DEF Refunded
<1> QED
  BY <1>1, ZenonT(60) DEF LndAgrees

\* A reconciler that leaves its payment, or goes on to the next point before it settles,
\* keeps both.
LEMMA WorkerFrames ==
  ASSUME ContractInv, NEW k \in Workers,
         UNCHANGED <<journal, voided, credits, feeBacks, htlc, pc, result>>,
         NextJob(k)
  PROVE  SoleCloser' /\ LndAgrees'
<1>1. /\ \E point \in {"idle", "next"} : wpc' = [wpc EXCEPT ![k] = point]
      /\ job' = [job EXCEPT ![k] = None] /\ seen' = [seen EXCEPT ![k] = "none"]
  BY Zenon DEF NextJob, WGoto
<1>2. SoleCloser'
  <2>1. \A l \in Workers :
          wpc'[l] \notin {"settleRest", "settleWon"}
          /\ (wpc'[l] = "resolve" => wpc[l] = "resolve" /\ job'[l] = job[l])
    BY <1>1, ZenonT(60) DEF ContractInv, TypeInv, WorkerTypes, SoleCloser
  <2> QED
    BY <2>1, CloserFrame, Zenon DEF ContractInv
<1>3. LndAgrees'
  <2>1. \A l \in Workers : wpc'[l] \in Judged => seen'[l] # "none" /\ htlc[job'[l]] = seen'[l]
    <3>1. \A l \in Workers :
            /\ l = k => wpc'[l] \in {"idle", "next"}
            /\ l # k => wpc'[l] = wpc[l] /\ job'[l] = job[l] /\ seen'[l] = seen[l]
      BY <1>1, ZenonT(60) DEF ContractInv, TypeInv, WorkerTypes
    <3>2. \A l \in Workers : wpc[l] \in Judged => seen[l] # "none" /\ htlc[job[l]] = seen[l]
      BY Zenon DEF ContractInv, LndAgrees
    <3>3. "idle" \notin Judged /\ "next" \notin Judged
      BY Zenon DEF Judged, Visiting
    <3> QED
      BY <3>1, <3>2, <3>3, ZenonT(60)
  <2> QED
    BY <2>1, BeliefFrame, Zenon DEF ContractInv
<1> QED
  BY <1>2, <1>3, Zenon

\* Steps of a reconciler.
LEMMA WorkerContractStep ==
  ASSUME OnePayer, AtomicSettle, ContractInv, NEW k \in Workers,
         \/ \E w \in Wallets \cup {Dealer} : ListPendingPayments(k, w)
         \/ WorkerStep(k) \/ LoseHashLock(k) \/ StopWorker(k)
  PROVE  SoleCloser' /\ LndAgrees'
<1> USE SendAssumption DEF ContractInv, lockVars, ledgerVars, lndVars, requestVars
<1>1. ASSUME UNCHANGED <<journal, voided, credits, feeBacks, htlc, pc, result, seen>>,
             \/ UNCHANGED <<wpc, job>>
             \/ /\ \E point \in {"next", "lookup"} : wpc' = [wpc EXCEPT ![k] = point]
                /\ \A l \in Workers \ {k} : job'[l] = job[l]
             \/ /\ wpc[k] \in Judged
                /\ \E point \in Judged \ {"resolve", "settleRest", "settleWon"} :
                     wpc' = [wpc EXCEPT ![k] = point]
                /\ UNCHANGED job
      PROVE  SoleCloser' /\ LndAgrees'
  <2>1. SoleCloser'
    <3>1. \A l \in Workers :
            wpc'[l] \notin {"settleRest", "settleWon"}
            /\ (wpc'[l] = "resolve" => wpc[l] = "resolve" /\ job'[l] = job[l])
      BY <1>1, ZenonT(60) DEF TypeInv, WorkerTypes, SoleCloser
    <3> QED
      BY <1>1, <3>1, CloserFrame, Zenon
  <2>2. LndAgrees'
    <3>1. \A l \in Workers : wpc'[l] \in Judged => seen'[l] # "none" /\ htlc[job'[l]] = seen'[l]
      BY <1>1, SMTT(60) DEF TypeInv, WorkerTypes, LndAgrees, Judged, Visiting, WorkerPoints
    <3> QED
      BY <1>1, <3>1, BeliefFrame, Zenon
  <2> QED
    BY <2>1, <2>2, Zenon
<1>2. ASSUME NEW w \in Wallets \cup {Dealer}, ListPendingPayments(k, w)
      PROVE  SoleCloser' /\ LndAgrees'
  BY <1>1, <1>2, Zenon DEF ListPendingPayments, WGoto
<1>3. CASE TakePayment(k)
  BY <1>1, <1>3, ZenonT(60) DEF TakePayment, WGoto, TypeInv, WorkerTypes
<1>4. CASE LookupPayment(k)
  <2>1. job[k] \in Attempts /\ wpc[k] = "lookup"
    BY <1>4, ZenonT(60) DEF LookupPayment, TypeInv, WorkerTypes, Visiting, WorkerPoints
  <2>2. LnStatus(HashOf[job[k]]) = htlc[job[k]]
    BY <2>1, OnePayerStatus, Zenon
  <2>3. CASE htlc[job[k]] \in {"settled", "failed"}
    <3>1. /\ seen' = [seen EXCEPT ![k] = htlc[job[k]]] /\ wpc' = [wpc EXCEPT ![k] = "wantLock"]
          /\ UNCHANGED <<journal, voided, credits, feeBacks, htlc, pc, result, job>>
      BY <1>4, <2>2, <2>3, Zenon DEF LookupPayment, WGoto
    <3>2. SoleCloser'
      <4>1. \A l \in Workers :
              wpc'[l] \notin {"settleRest", "settleWon"}
              /\ (wpc'[l] = "resolve" => wpc[l] = "resolve" /\ job'[l] = job[l])
        BY <3>1, ZenonT(60) DEF TypeInv, WorkerTypes, SoleCloser
      <4> QED
        BY <3>1, <4>1, CloserFrame, Zenon
    <3>3. LndAgrees'
      <4>1. \A l \in Workers : wpc'[l] \in Judged => seen'[l] # "none" /\ htlc[job'[l]] = seen'[l]
        BY <2>3, <3>1, SMTT(60) DEF TypeInv, WorkerTypes, LndAgrees, Judged, Visiting, WorkerPoints
      <4> QED
        BY <3>1, <4>1, BeliefFrame, Zenon
    <3> QED
      BY <3>2, <3>3
  <2>4. CASE htlc[job[k]] \notin {"settled", "failed"}
    BY <1>4, <2>2, <2>4, WorkerFrames, Zenon DEF LookupPayment
  <2> QED
    BY <2>3, <2>4, ZenonT(60)
<1>5. CASE LockPaymentHash(k)
  BY <1>1, <1>5, Zenon DEF LockPaymentHash, WGoto, Judged, Visiting, WorkerPoints
<1>6. CASE LockPaymentHashFails(k) \/ StopWorker(k)
  BY <1>6, WorkerFrames, Zenon DEF LockPaymentHashFails, StopWorker
<1>7. CASE CheckRecorded(k) \/ MarkFlow(k)
  <2>1. /\ UNCHANGED <<journal, voided, credits, feeBacks, htlc, pc, result>>
        /\ \/ NextJob(k)
           \/ /\ wpc[k] \in {"checkRecorded", "markFlow"} /\ UNCHANGED <<job, seen>>
              /\ \E point \in {"markFlow", "settle"} : wpc' = [wpc EXCEPT ![k] = point]
    BY <1>7, Zenon DEF CheckRecorded, MarkFlow, WGoto
  <2> QED
    BY <1>1, <2>1, WorkerFrames, Zenon DEF Judged, Visiting, WorkerPoints
<1>9. CASE LoseHashLock(k)
  BY <1>1, <1>9, Zenon DEF LoseHashLock, workerVars
<1>10. CASE SettlePendingLnPayment(k)
  <2>1. job[k] \in Attempts /\ wpc[k] = "settle"
    BY <1>10, ZenonT(60) DEF SettlePendingLnPayment, TypeInv, WorkerTypes, Visiting, WorkerPoints
  <2>2. CASE PendingIn(HashOf[job[k]]) = {}
    BY <1>10, <2>2, WorkerFrames, Zenon DEF SettlePendingLnPayment
  <2>3. CASE PendingIn(HashOf[job[k]]) # {}
    <3>1. PendingIn(HashOf[job[k]]) = {job[k]} /\ journal[job[k]] # "settled" /\ journal[job[k]] # "none"
      BY <2>1, <2>3, OnePayerStatus, ZenonT(60) DEF PendingIn
    <3>2. /\ journal' = [journal EXCEPT ![job[k]] = "settled"] /\ wpc' = [wpc EXCEPT ![k] = "resolve"]
          /\ UNCHANGED <<voided, credits, feeBacks, htlc, pc, result, job, seen>>
      BY <1>10, <2>1, <2>3, <3>1, ZenonT(60) DEF SettlePendingLnPayment, FlipAll, WGoto, TypeInv,
         LedgerTypes
    <3>3. SoleCloser'
      <4>1. \A b \in Attempts : Fresh(b)' = Fresh(b)
        BY <3>2, Zenon DEF Fresh
      <4>2. Fresh(job[k]) /\ pc[job[k]] # "resolve" /\ \A l \in Workers : ~Closing(l, job[k])
        BY <2>1, <3>1, Zenon DEF SoleCloser
      <4>3. /\ \A b \in Attempts : journal'[b] # "settled" => b # job[k] /\ journal[b] # "settled"
            /\ \A b \in Attempts : journal'[b] # "half"
        BY <2>1, <3>2, Zenon DEF TypeInv, LedgerTypes, SoleCloser
      <4>4. /\ \A l \in Workers : wpc'[l] \notin {"settleRest", "settleWon"}
            /\ \A l \in Workers, b \in Attempts :
                 Closing(l, b)' => (l = k /\ b = job[k]) \/ (b # job[k] /\ Closing(l, b))
        BY <3>2, <4>2, ZenonT(60) DEF TypeInv, WorkerTypes, SoleCloser, Closing
      <4>5. \A b \in Attempts : journal'[b] # "settled" \/ pc[b] = "resolve" =>
              Fresh(b) /\ \A l \in Workers : ~Closing(l, b)'
        BY <4>2, <4>3, <4>4, ZenonT(60) DEF SoleCloser
      <4>6. \A b \in Attempts, l \in Workers : Closing(l, b)' => Fresh(b)
        BY <4>2, <4>4, ZenonT(60) DEF SoleCloser
      <4>7. \A b \in Attempts, l, m \in Workers : Closing(l, b)' /\ Closing(m, b)' => l = m
        BY <4>4, Zenon DEF SoleCloser
      <4> QED
        BY <3>2, <4>1, <4>3, <4>4, <4>5, <4>6, <4>7, ZenonT(60) DEF SoleCloser
    <3>4. LndAgrees'
      <4>1. \A b \in Attempts : /\ journal'[b] = "none" <=> journal[b] = "none"
                                /\ Refunded(b)' = Refunded(b)
        BY <2>1, <3>1, <3>2, ZenonT(60) DEF Refunded, TypeInv, LedgerTypes
      <4>2. \A l \in Workers : wpc'[l] \in Judged <=> wpc[l] \in Judged
        BY <2>1, <3>2, ZenonT(60) DEF TypeInv, WorkerTypes, Judged, Visiting, WorkerPoints
      <4> QED
        BY <3>2, <4>1, <4>2, ZenonT(60) DEF LndAgrees
    <3> QED
      BY <3>3, <3>4
  <2> QED
    BY <2>2, <2>3, Zenon
<1>11. CASE ResolvePending(k)
  <2> DEFINE a == job[k]
  <2>1. a \in Attempts /\ wpc[k] = "resolve" /\ htlc[a] = seen[k] /\ Fresh(a)
    <3>1. a \in Attempts /\ wpc[k] = "resolve" /\ htlc[a] = seen[k]
      BY <1>11, Zenon DEF ResolvePending, TypeInv, WorkerTypes, Judged, Visiting, WorkerPoints, LndAgrees
    <3> QED
      BY <3>1, Zenon DEF SoleCloser, Closing
  <2>2. /\ journal[a] = "settled" /\ pc[a] # "resolve"
        /\ \A l \in Workers \ {k} : ~Closing(l, a)
    BY <2>1, ZenonT(60) DEF SoleCloser, Closing
  <2>3. /\ \E point \in {"idle", "next"} : wpc' = [wpc EXCEPT ![k] = point]
        /\ job' = [job EXCEPT ![k] = None] /\ seen' = [seen EXCEPT ![k] = "none"]
        /\ UNCHANGED <<journal, htlc, pc, result>>
    BY <1>11, Zenon DEF ResolvePending, NextJob, WGoto
  <2>4. \/ /\ htlc[a] = "settled" /\ UNCHANGED <<voided, credits>>
           /\ feeBacks' = feeBacks \/ feeBacks' = [feeBacks EXCEPT ![a] = @ + 1]
        \/ /\ htlc[a] = "failed" /\ UNCHANGED <<feeBacks, credits>>
           /\ voided' = voided \cup {a}
        \/ /\ htlc[a] = "failed" /\ UNCHANGED <<feeBacks, voided>>
           /\ credits' = [credits EXCEPT ![a] = @ + 1]
    BY <1>11, <2>1, Zenon DEF ResolvePending, ReimburseFee, Void, ReimburseFailedUsdPayment, Fresh
  <2>5. SoleCloser'
    <3>1. \A b \in Attempts : b # a /\ Fresh(b) => Fresh(b)'
      BY <2>1, <2>4, ZenonT(60) DEF Fresh, TypeInv, LedgerTypes
    <3>2. \A l \in Workers, b \in Attempts : Closing(l, b)' => b # a /\ Closing(l, b)
      BY <2>2, <2>3, ZenonT(60) DEF Closing, TypeInv, WorkerTypes
    <3>3. \A l \in Workers : wpc'[l] \notin {"settleRest", "settleWon"}
      BY <2>3, ZenonT(60) DEF SoleCloser, TypeInv, WorkerTypes
    <3>4. \A b \in Attempts : journal[b] # "settled" \/ pc[b] = "resolve" =>
            b # a /\ Fresh(b)' /\ \A l \in Workers : ~Closing(l, b)'
      BY <2>2, <3>1, <3>2, ZenonT(60) DEF SoleCloser
    <3>5. /\ \A b \in Attempts, l \in Workers : Closing(l, b)' => Fresh(b)'
          /\ \A b \in Attempts, l, m \in Workers : Closing(l, b)' /\ Closing(m, b)' => l = m
      BY <3>1, <3>2, Zenon DEF SoleCloser
    <3> QED
      BY <2>3, <3>3, <3>4, <3>5, Zenon DEF SoleCloser
  <2>6. LndAgrees'
    <3>1. \A l \in Workers : wpc'[l] \in Judged =>
            wpc[l] \in Judged /\ job'[l] = job[l] /\ seen'[l] = seen[l]
      BY <2>3, ZenonT(60) DEF TypeInv, WorkerTypes, Judged, Visiting, WorkerPoints
    <3>2. \A b \in Attempts : (Refunded(b)' => Refunded(b) \/ htlc[b] = "failed")
                              /\ (feeBacks'[b] # 0 => feeBacks[b] # 0 \/ htlc[b] = "settled")
      BY <2>1, <2>4, ZenonT(60) DEF Refunded, TypeInv, LedgerTypes
    <3>3. \A l \in Workers : wpc'[l] \in Judged => seen'[l] # "none" /\ htlc[job'[l]] = seen'[l]
      BY <3>1, ZenonT(60) DEF LndAgrees
    <3>4. \A b \in Attempts : Refunded(b)' => htlc[b] = "failed" \/ (htlc[b] = "none" /\ pc[b] = "done")
      BY <3>2, Zenon DEF LndAgrees
    <3>5. \A b \in Attempts : feeBacks'[b] # 0 => htlc[b] = "settled"
      BY <3>2, Zenon DEF LndAgrees
    <3> QED
      BY <2>3, <3>3, <3>4, <3>5, ZenonT(60) DEF LndAgrees
  <2> QED
    BY <2>5, <2>6
<1> QED
  BY <1>2, <1>3, <1>4, <1>5, <1>6, <1>7, <1>9, <1>10, <1>11, Zenon
  DEF WorkerStep, WSettleRest, SoleCloser

-----------------------------------------------------------------------------
(* The refinement mapping *)

\* A payment is held when it is recorded.
LEMMA RecordHolds ==
  ASSUME ContractInv, NEW a \in Attempts, RecordSend(a)
  PROVE  C!Hold(a)
<1>1. /\ journal[a] = "none" /\ htlc[a] = "none" /\ Fresh(a)
      /\ journal' = [journal EXCEPT ![a] = "pending"]
      /\ UNCHANGED <<voided, credits, feeBacks, htlc, fee>>
  BY Zenon DEF RecordSend, ContractInv, LndAgrees, SoleCloser, Early, lndVars
<1>2. /\ StageOf(a) = "idle" /\ StageOf(a)' = "held"
      /\ \A b \in Attempts : b # a => StageOf(b)' = StageOf(b)
  BY <1>1 DEF StageOf, Refunded, Fresh, ContractInv, TypeInv, LedgerTypes
<1>3. /\ ChargeOf(a)' = Amount + MaxFee
      /\ \A b \in Attempts : b # a => ChargeOf(b)' = ChargeOf(b)
  <2>1. ChargeOf(a)' = Cost - 0 - 0 * Cost - 0 * (MaxFee - fee[a])
    BY <1>1, ZenonT(60) DEF ChargeOf, Fresh, ContractInv, TypeInv, LedgerTypes
  <2>2. fee[a] \in Int
    BY DEF ContractInv, TypeInv, RequestTypes
  <2>3. ChargeOf(a)' = Amount + MaxFee
    BY <2>1, <2>2, SendAssumption DEF Cost
  <2> QED
    BY <1>1, <2>3, ZenonT(60) DEF ChargeOf, ContractInv, TypeInv, LedgerTypes
<1> QED
  BY <1>2, <1>3, Zenon DEF C!Hold

\* lnd settles a payment that is held and has not been given back.
LEMMA SettleDelivers ==
  ASSUME ContractInv, NEW a \in Attempts, LndSettles(a)
  PROVE  C!Deliver(a)
<1>1. /\ htlc[a] = "inflight" /\ htlc' = [htlc EXCEPT ![a] = "settled"]
      /\ journal[a] # "none" /\ ~Refunded(a) /\ feeBacks[a] = 0
      /\ UNCHANGED <<journal, voided, credits, feeBacks>>
  BY ZenonT(60) DEF LndSettles, ContractInv, LndAgrees, ledgerVars
<1>2. fee' \in [Attempts -> 0..MaxFee] /\ fee \in [Attempts -> 0..MaxFee]
      /\ \A b \in Attempts : b # a => fee'[b] = fee[b]
  BY SendAssumption DEF LndSettles, ContractInv, TypeInv, RequestTypes
<1>3. /\ StageOf(a) = "held" /\ StageOf(a)' = "delivered"
      /\ \A b \in Attempts : b # a => StageOf(b)' = StageOf(b)
  BY <1>1, ZenonT(60) DEF StageOf, Refunded, ContractInv, TypeInv, RequestTypes
<1>4. \A b \in Attempts : ChargeOf(b)' = ChargeOf(b)
  <2>1. 0 * (MaxFee - fee'[a]) = 0 * (MaxFee - fee[a])
    BY <1>2, SendAssumption
  <2> QED
    BY <1>1, <1>2, <2>1, Zenon DEF ChargeOf
<1> QED
  BY <1>3, <1>4, Zenon DEF C!Deliver

\* Voiding or crediting a journal that nobody closed gives the payment back.
LEMMA GivesBack ==
  ASSUME ContractInv, NEW a \in Attempts, Fresh(a), journal[a] = "settled",
         htlc[a] \in {"none", "failed"}, UNCHANGED <<journal, htlc, fee, feeBacks>>,
         \/ voided' = voided \cup {a} /\ UNCHANGED credits
         \/ credits' = [credits EXCEPT ![a] = @ + 1] /\ UNCHANGED voided
  PROVE  C!Refund(a)
<1>1. /\ StageOf(a) = "held" /\ StageOf(a)' = "refunded"
      /\ \A b \in Attempts : b # a => StageOf(b)' = StageOf(b)
  BY DEF StageOf, Refunded, Fresh, ContractInv, TypeInv, LedgerTypes
<1>2. fee[a] \in Int /\ Cost \in Int
  BY SendAssumption DEF Cost, ContractInv, TypeInv, RequestTypes
<1>3. \/ ChargeOf(a)' = Cost - Cost - 0 * Cost - 0 * (MaxFee - fee[a])
      \/ ChargeOf(a)' = Cost - 0 - 1 * Cost - 0 * (MaxFee - fee[a])
  BY DEF ChargeOf, Fresh, ContractInv, TypeInv, LedgerTypes
<1>4. ChargeOf(a)' = 0
  BY <1>2, <1>3, SendAssumption
<1>5. \A b \in Attempts : b # a => ChargeOf(b)' = ChargeOf(b)
  BY ZenonT(60) DEF ChargeOf, ContractInv, TypeInv, LedgerTypes
<1> QED
  BY <1>1, <1>4, <1>5, Zenon DEF C!Refund

\* Reimbursing the fee of a journal that nobody closed leaves the amount and what was spent.
LEMMA FeeBackCharge ==
  ASSUME ContractInv, NEW a \in Attempts, Fresh(a), journal[a] = "settled",
         MaxFee - fee[a] > 0, UNCHANGED <<journal, fee, voided, credits>>,
         feeBacks' = [feeBacks EXCEPT ![a] = @ + 1]
  PROVE  /\ ChargeOf(a) = Amount + MaxFee /\ ChargeOf(a)' = Amount + fee[a]
         /\ fee[a] \in 0..(MaxFee - 1)
         /\ \A b \in Attempts : b # a => ChargeOf(b)' = ChargeOf(b)
<1>1. fee[a] \in 0..MaxFee /\ MaxFee \in Int /\ Amount \in Int
  BY SendAssumption DEF ContractInv, TypeInv, RequestTypes
<1>2. /\ ChargeOf(a) = Cost - 0 - 0 * Cost - 0 * (MaxFee - fee[a])
      /\ ChargeOf(a)' = Cost - 0 - 0 * Cost - 1 * (MaxFee - fee[a])
  BY DEF ChargeOf, Fresh, ContractInv, TypeInv, LedgerTypes
<1>3. ChargeOf(a) = Amount + MaxFee /\ ChargeOf(a)' = Amount + fee[a] /\ fee[a] \in 0..(MaxFee - 1)
  BY <1>1, <1>2 DEF Cost
<1>4. \A b \in Attempts : b # a => ChargeOf(b)' = ChargeOf(b)
  BY ZenonT(60) DEF ChargeOf, ContractInv, TypeInv, LedgerTypes
<1> QED
  BY <1>3, <1>4, Zenon

\* That is how the contract gives a fee back.
LEMMA GivesFeeBack ==
  ASSUME ContractInv, NEW a \in Attempts, Fresh(a), journal[a] = "settled",
         htlc[a] = "settled", MaxFee - fee[a] > 0,
         UNCHANGED <<journal, htlc, fee, voided, credits>>,
         feeBacks' = [feeBacks EXCEPT ![a] = @ + 1]
  PROVE  C!FeeBack(a)
<1>1. /\ StageOf(a) = "delivered"
      /\ \A b \in Attempts : StageOf(b)' = StageOf(b)
  BY DEF StageOf, Refunded, Fresh
<1>2. /\ ChargeOf(a) = Amount + MaxFee /\ ChargeOf(a)' = Amount + fee[a]
      /\ fee[a] \in 0..(MaxFee - 1)
      /\ \A b \in Attempts : b # a => ChargeOf(b)' = ChargeOf(b)
  BY FeeBackCharge, Zenon
<1>3. [b \in Attempts |-> ChargeOf(b)]' = [[b \in Attempts |-> ChargeOf(b)] EXCEPT ![a] = Amount + fee[a]]
  BY <1>2, Zenon
<1> QED
  BY <1>1, <1>2, <1>3, Zenon DEF C!FeeBack

\* Everything else is invisible to the sender.
LEMMA Invisible ==
  ASSUME UNCHANGED <<voided, credits, feeBacks, fee>>,
         \A b \in Attempts : /\ journal'[b] = "none" <=> journal[b] = "none"
                             /\ htlc'[b] = "settled" <=> htlc[b] = "settled"
  PROVE  UNCHANGED C!vars
<1>1. \A b \in Attempts : StageOf(b)' = StageOf(b) /\ ChargeOf(b)' = ChargeOf(b)
  BY Zenon DEF StageOf, ChargeOf, Refunded
<1> QED
  BY <1>1, ZenonT(60) DEF C!vars

\* Every step is a step of the contract or changes nothing it shows.
LEMMA ContractStep ==
  ASSUME OnePayer, AtomicSettle, ContractInv, Next, ~LostReply
  PROVE  C!Next \/ UNCHANGED C!vars
<1> USE DEF lockVars, ledgerVars, lndVars, requestVars, workerVars, flowVars
<1>1. ASSUME NEW a \in Attempts, RecordSend(a) PROVE C!Next
  BY <1>1, RecordHolds, ZenonT(60) DEF C!Next
<1>2. ASSUME NEW a \in Attempts, LndSettles(a) PROVE C!Next
  BY <1>2, SettleDelivers, Zenon DEF C!Next
<1>3. ASSUME NEW a \in Attempts, ResolveSend(a) PROVE C!Next \/ UNCHANGED C!vars
  <2>1. /\ Fresh(a) /\ journal[a] = "settled"
        /\ UNCHANGED <<journal, htlc, fee, credits>>
    BY <1>3, ZenonT(60) DEF ResolveSend, ContractInv, SoleCloser
  <2>2. CASE result[a] = "failed"
    <3>1. voided' = voided \cup {a} /\ UNCHANGED feeBacks /\ htlc[a] \in {"none", "failed"}
      BY <1>3, <2>1, <2>2, ZenonT(60) DEF ResolveSend, Void, Fresh, ContractInv, LndAgrees
    <3> QED
      BY <2>1, <3>1, GivesBack, ZenonT(60) DEF C!Next
  <2>3. CASE result[a] = "paid"
    <3>1. htlc[a] = "settled" /\ PaidFee(HashOf[a]) = fee[a]
      BY <2>3, OnePayerStatus, Zenon DEF ContractInv, TypeInv, RequestTypes
    <3>2. /\ UNCHANGED voided
          /\ \/ UNCHANGED feeBacks
             \/ MaxFee - fee[a] > 0 /\ feeBacks' = [feeBacks EXCEPT ![a] = @ + 1]
      BY <1>3, <2>3, <3>1, Zenon DEF ResolveSend, ReimburseFee
    <3> QED
      BY <2>1, <3>1, <3>2, GivesFeeBack, Invisible, Zenon DEF C!Next
  <2> QED
    BY <1>3, <2>2, <2>3, ZenonT(60) DEF ResolveSend
<1>4. ASSUME NEW k \in Workers, ResolvePending(k) PROVE C!Next \/ UNCHANGED C!vars
  <2> DEFINE a == job[k]
  <2>1. /\ a \in Attempts /\ wpc[k] = "resolve" /\ htlc[a] = seen[k] /\ Fresh(a)
        /\ payer[k] \in Attempts /\ HashOf[payer[k]] = HashOf[a]
    <3>1. /\ a \in Attempts /\ wpc[k] = "resolve" /\ htlc[a] = seen[k]
          /\ payer[k] \in Attempts /\ HashOf[payer[k]] = HashOf[a]
      BY <1>4, ZenonT(60) DEF ResolvePending, ContractInv, TypeInv, WorkerTypes, Judged, Visiting, Flipping,
         WorkerPoints, LndAgrees
    <3> QED
      BY <3>1, Zenon DEF ContractInv, SoleCloser, Closing
  <2>2. journal[a] = "settled" /\ UNCHANGED <<journal, htlc, fee>> /\ payer[k] = a
    BY <1>4, <2>1, Zenon DEF ResolvePending, ContractInv, SoleCloser, Closing, OnePayer
  <2>3. CASE seen[k] = "failed"
    <3>1. /\ UNCHANGED feeBacks
          /\ \/ voided' = voided \cup {a} /\ UNCHANGED credits
             \/ credits' = [credits EXCEPT ![a] = @ + 1] /\ UNCHANGED voided
      BY <1>4, <2>1, <2>3, Zenon DEF ResolvePending, Void, ReimburseFailedUsdPayment, Fresh
    <3> QED
      BY <2>1, <2>2, <2>3, <3>1, GivesBack, Zenon DEF C!Next
  <2>4. CASE seen[k] = "settled"
    <3>1. PaidFee(HashOf[payer[k]]) = fee[a]
      BY <2>1, <2>2, <2>4, OnePayerStatus, Zenon DEF ContractInv
    <3>2. /\ UNCHANGED <<voided, credits>>
          /\ \/ UNCHANGED feeBacks
             \/ MaxFee - fee[a] > 0 /\ feeBacks' = [feeBacks EXCEPT ![a] = @ + 1]
      BY <1>4, <2>4, <3>1, Zenon DEF ResolvePending, ReimburseFee
    <3> QED
      BY <2>1, <2>2, <2>4, <3>2, GivesFeeBack, Invisible, Zenon DEF C!Next
  <2> QED
    BY <1>4, <2>3, <2>4, Zenon DEF ResolvePending
<1>5. ASSUME NEW a \in Attempts, Pay(a) \/ LndFails(a) PROVE UNCHANGED C!vars
  <2>1. /\ \E s \in {"none", "inflight", "failed"} : htlc' = htlc \/ htlc' = [htlc EXCEPT ![a] = s]
        /\ htlc[a] # "settled"
        /\ UNCHANGED <<journal, voided, credits, feeBacks, fee>>
    BY <1>5, Zenon DEF Pay, LndFails, ContractInv, LndAgrees
  <2> QED
    BY <2>1, Invisible, ZenonT(60) DEF ContractInv, TypeInv, RequestTypes
<1>6. ASSUME NEW a \in Attempts, SettlePendingLnSend(a) PROVE UNCHANGED C!vars
  <2>1. \A b \in Attempts : journal'[b] = "none" <=> journal[b] = "none"
    BY <1>6, ZenonT(60) DEF SettlePendingLnSend, FlipAll, PendingIn, ContractInv, TypeInv, LedgerTypes
  <2> QED
    BY <1>6, <2>1, Invisible, ZenonT(60) DEF SettlePendingLnSend
<1>7. ASSUME NEW k \in Workers, SettlePendingLnPayment(k) PROVE UNCHANGED C!vars
  <2>1. \A b \in Attempts : journal'[b] = "none" <=> journal[b] = "none"
    BY <1>7, ZenonT(60) DEF SettlePendingLnPayment, FlipAll, PendingIn, ContractInv, TypeInv, LedgerTypes
  <2> QED
    BY <1>7, <2>1, Invisible, Zenon DEF SettlePendingLnPayment
<1>8. CASE UNCHANGED <<journal, voided, credits, feeBacks, htlc, fee>>
  BY <1>8, Invisible, Zenon
<1>9. ASSUME NEW a \in Attempts,
             \/ CheckLimits(a) \/ FlowWriteLands(a) \/ ReplyLost(a) \/ LoseWalletLock(a) \/ StopRequest(a)
      PROVE  UNCHANGED <<journal, voided, credits, feeBacks, htlc, fee>>
  BY <1>9, Zenon DEF CheckLimits, FlowWriteLands, ReplyLost, LoseWalletLock, StopRequest
<1>10. ASSUME NEW a \in Attempts,
              \/ LockWalletId(a) \/ CheckInTransit(a) \/ CheckBalance(a) \/ CheckSignal(a)
              \/ PayReturns(a) \/ PayTimesOut(a) \/ SettleRest(a)
       PROVE  UNCHANGED <<journal, voided, credits, feeBacks, htlc, fee>>
  BY <1>10, Zenon DEF LockWalletId, CheckInTransit, CheckBalance, CheckSignal, PayReturns,
     PayTimesOut, SettleRest, ContractInv, SoleCloser
<1>11. ASSUME NEW k \in Workers,
              \/ \E w \in Wallets \cup {Dealer} : ListPendingPayments(k, w)
              \/ TakePayment(k) \/ LookupPayment(k) \/ LockPaymentHash(k) \/ LockPaymentHashFails(k)
              \/ CheckRecorded(k) \/ MarkFlow(k) \/ WSettleRest(k) \/ LoseHashLock(k) \/ StopWorker(k)
       PROVE  UNCHANGED <<journal, voided, credits, feeBacks, htlc, fee>>
  BY <1>11, Zenon DEF ListPendingPayments, TakePayment, LookupPayment, LockPaymentHash,
     LockPaymentHashFails, CheckRecorded, MarkFlow, WSettleRest, LoseHashLock, StopWorker,
     ContractInv, SoleCloser
<1>12. CASE Done
  BY <1>8, <1>12, Zenon DEF Done, vars
<1> QED
  BY <1>1, <1>2, <1>3, <1>4, <1>5, <1>6, <1>7, <1>8, <1>9, <1>10, <1>11, <1>12, ZenonT(60)
  DEF Next, RequestStep, WorkerStep

\* The invariant holds at first.
LEMMA ContractInvInit == Init => ContractInv
BY TypeInvInductive, SendAssumption
DEF Init, ContractInv, SoleCloser, LndAgrees, Fresh, Closing, Refunded, Early, Judged,
    Visiting, WorkerPoints

\* Every step keeps the invariant.
LEMMA ContractInvStep ==
  ASSUME OnePayer, AtomicSettle, ~LostReply, ContractInv, [Next]_vars
  PROVE  ContractInv'
<1>1. TypeInv'
  BY TypeInvStep, Zenon DEF ContractInv
<1>2. CASE UNCHANGED vars
  <2>1. UNCHANGED <<journal, voided, credits, feeBacks, htlc, pc, result, wpc, job, seen>>
    BY <1>2, Zenon DEF vars, ledgerVars, lndVars, requestVars, workerVars
  <2>2. SoleCloser'
    BY <2>1, ZenonT(60) DEF ContractInv, SoleCloser, Fresh, Closing
  <2>3. LndAgrees'
    BY <2>1, ZenonT(60) DEF ContractInv, LndAgrees, Refunded
  <2> QED
    BY <1>1, <2>2, <2>3, Zenon DEF ContractInv
<1> QED
  BY <1>1, <1>2, RequestContractStep, WorkerContractStep, Zenon DEF Next, Done, ContractInv

\* The sender and the reconcilers keep the promise of LnSendContract together: a payment
\* that is not delivered is given back at most once and never after lnd delivered it, a
\* fee is given back at most once, whatever they interleave, crash or lose locks.
THEOREM SendImplementsContract ==
  ASSUME OnePayer, AtomicSettle, ~LostReply
  PROVE  Spec => ImplementsContract
<1>1. Init => ContractInv
  BY ContractInvInit, Zenon
<1>2. ContractInv /\ [Next]_vars => ContractInv'
  BY ContractInvStep, Zenon
<1>3. Init => C!Init
  BY DEF Init, C!Init, StageOf, ChargeOf, Refunded
<1>4. ContractInv /\ [Next]_vars => [C!Next]_(C!vars)
  <2>1. UNCHANGED vars => UNCHANGED C!vars
    BY Zenon DEF vars, ledgerVars, lndVars, C!vars, StageOf, ChargeOf, Refunded
  <2> QED
    BY <2>1, ContractStep, Zenon
<1> QED
  BY <1>1, <1>2, <1>3, <1>4, PTL DEF Spec, ImplementsContract, C!Spec

-----------------------------------------------------------------------------
(* A journal is closed once.                                               *)

\* A step closes no journal, or closes in one way a journal that nobody has closed.
LEMMA ClosesFresh ==
  ASSUME ContractInv, Next
  PROVE  \/ UNCHANGED <<voided, credits, feeBacks>>
         \/ \E a \in Attempts :
              /\ Fresh(a) /\ journal[a] = "settled" /\ UNCHANGED <<journal, htlc, fee>>
              /\ \/ voided' = voided \cup {a} /\ UNCHANGED <<credits, feeBacks>>
                 \/ credits' = [credits EXCEPT ![a] = @ + 1] /\ UNCHANGED <<voided, feeBacks>>
                 \/ feeBacks' = [feeBacks EXCEPT ![a] = @ + 1] /\ UNCHANGED <<voided, credits>>
<1> USE DEF lockVars, ledgerVars, lndVars, requestVars, workerVars, flowVars
<1>1. ASSUME NEW a \in Attempts, ResolveSend(a)
      PROVE  \/ UNCHANGED <<voided, credits, feeBacks>>
             \/ /\ Fresh(a) /\ journal[a] = "settled" /\ UNCHANGED <<journal, htlc, fee>>
                /\ \/ voided' = voided \cup {a} /\ UNCHANGED <<credits, feeBacks>>
                   \/ feeBacks' = [feeBacks EXCEPT ![a] = @ + 1] /\ UNCHANGED <<voided, credits>>
  <2>1. Fresh(a) /\ journal[a] = "settled" /\ UNCHANGED <<journal, htlc, fee, credits>>
    BY <1>1, ZenonT(60) DEF ResolveSend, ContractInv, SoleCloser
  <2> QED
    BY <1>1, <2>1, ZenonT(60) DEF ResolveSend, Void, ReimburseFee, Fresh
<1>2. ASSUME NEW k \in Workers, ResolvePending(k)
      PROVE  /\ job[k] \in Attempts
             /\ \/ UNCHANGED <<voided, credits, feeBacks>>
                \/ /\ Fresh(job[k]) /\ journal[job[k]] = "settled" /\ UNCHANGED <<journal, htlc, fee>>
                   /\ \/ voided' = voided \cup {job[k]} /\ UNCHANGED <<credits, feeBacks>>
                      \/ credits' = [credits EXCEPT ![job[k]] = @ + 1] /\ UNCHANGED <<voided, feeBacks>>
                      \/ feeBacks' = [feeBacks EXCEPT ![job[k]] = @ + 1] /\ UNCHANGED <<voided, credits>>
  <2>1. job[k] \in Attempts /\ wpc[k] = "resolve"
    BY <1>2, ZenonT(60) DEF ResolvePending, ContractInv, TypeInv, WorkerTypes, Visiting, WorkerPoints
  <2>2. Fresh(job[k]) /\ journal[job[k]] = "settled" /\ UNCHANGED <<journal, htlc, fee>>
    BY <1>2, <2>1, ZenonT(60) DEF ResolvePending, ContractInv, SoleCloser, Closing
  <2> QED
    BY <1>2, <2>1, <2>2, ZenonT(60) DEF ResolvePending, Void, ReimburseFee, ReimburseFailedUsdPayment, Fresh
<1>3. ASSUME NEW a \in Attempts, CheckLimits(a) \/ RequestStep(a) \/ ReplyLost(a) \/ StopRequest(a)
      PROVE  ResolveSend(a) \/ UNCHANGED <<voided, credits, feeBacks>>
  BY <1>3, ZenonT(60) DEF RequestStep, CheckLimits, LockWalletId, CheckInTransit, CheckBalance, CheckSignal,
     RecordSend, Pay, PayReturns, ReplyLost, PayTimesOut, SettlePendingLnSend, SettleRest, StopRequest
<1>4. ASSUME NEW a \in Attempts, FlowWriteLands(a) \/ LndSettles(a) \/ LndFails(a) \/ LoseWalletLock(a)
      PROVE  UNCHANGED <<voided, credits, feeBacks>>
  BY <1>4, Zenon DEF FlowWriteLands, LndSettles, LndFails, LoseWalletLock
<1>5. ASSUME NEW k \in Workers,
             \/ \E w \in Wallets \cup {Dealer} : ListPendingPayments(k, w)
             \/ WorkerStep(k) \/ LoseHashLock(k) \/ StopWorker(k)
      PROVE  ResolvePending(k) \/ UNCHANGED <<voided, credits, feeBacks>>
  BY <1>5, ZenonT(60) DEF WorkerStep, ListPendingPayments, TakePayment, LookupPayment, LockPaymentHash,
     LockPaymentHashFails, CheckRecorded, MarkFlow, SettlePendingLnPayment, WSettleRest,
     LoseHashLock, StopWorker
<1>6. Done => UNCHANGED <<voided, credits, feeBacks>>
  BY Zenon DEF Done, vars
<1> QED
  BY <1>1, <1>2, <1>3, <1>4, <1>5, <1>6, ZenonT(60) DEF Next

\* No journal is voided and credited, credited twice or given back its fee twice,
\* whatever the sender and the reconcilers interleave, and with crashes and locks that
\* expire at any point.
THEOREM ClosedOnce ==
  ASSUME OnePayer, AtomicSettle, ~LostReply
  PROVE  Spec => []ResolvedOnce
<1>1. Init => ResolvedOnce
  BY DEF Init, ResolvedOnce
<1>2. ASSUME ContractInv, ResolvedOnce, [Next]_vars PROVE ResolvedOnce'
  <2>1. CASE UNCHANGED <<voided, credits, feeBacks>>
    BY <1>2, <2>1, Zenon DEF ResolvedOnce
  <2>2. ASSUME NEW a \in Attempts, Fresh(a),
               \/ voided' = voided \cup {a} /\ UNCHANGED <<credits, feeBacks>>
               \/ credits' = [credits EXCEPT ![a] = @ + 1] /\ UNCHANGED <<voided, feeBacks>>
               \/ feeBacks' = [feeBacks EXCEPT ![a] = @ + 1] /\ UNCHANGED <<voided, credits>>
        PROVE  ResolvedOnce'
    BY <1>2, <2>2 DEF ResolvedOnce, Fresh, ContractInv, TypeInv, LedgerTypes
  <2>3. CASE Next
    BY <1>2, <2>1, <2>2, <2>3, ClosesFresh, ZenonT(60)
  <2>4. CASE UNCHANGED vars
    BY <2>1, <2>4, Zenon DEF vars, ledgerVars
  <2> QED
    BY <1>2, <2>3, <2>4, Zenon
<1>3. ContractInv /\ [Next]_vars => ContractInv'
  BY ContractInvStep
<1> QED
  BY <1>1, <1>2, <1>3, ContractInvInit, PTL DEF Spec

-----------------------------------------------------------------------------
(* Money moves with the charges: what a wallet of an account is debited or *)
(* credited is charged to, or taken off, a payment of the account.         *)

\* The charge of a payment that nobody closed.
LEMMA FreshCharge ==
  ASSUME ContractInv, NEW a \in Attempts, Fresh(a)
  PROVE  ChargeOf(a) = IF journal[a] = "none" THEN 0 ELSE Cost
<1>1. fee[a] \in Int /\ Cost \in Int /\ MaxFee \in Int
  BY SendAssumption DEF Cost, ContractInv, TypeInv, RequestTypes
<1>2. journal[a] # "none" => ChargeOf(a) = Cost - 0 - 0 * Cost - 0 * (MaxFee - fee[a])
  BY Zenon DEF ChargeOf, Fresh, ContractInv, TypeInv, LedgerTypes
<1>3. Cost - 0 - 0 * Cost - 0 * (MaxFee - fee[a]) = Cost
  BY <1>1
<1> QED
  BY <1>2, <1>3, Zenon DEF ChargeOf

\* The charge of one payment changes with the mapped variable.
LEMMA ChargeExcept ==
  ASSUME NEW a \in Attempts, NEW n,
         [b \in Attempts |-> ChargeOf(b)]' = [[b \in Attempts |-> ChargeOf(b)] EXCEPT ![a] = n]
  PROVE  ChargeOf(a)' = n /\ \A b \in Attempts \ {a} : ChargeOf(b)' = ChargeOf(b)
<1> DEFINE now == [b \in Attempts |-> ChargeOf(b)]
           later == [b \in Attempts |-> ChargeOf(b)']
<1>1. later = [now EXCEPT ![a] = n]
  OBVIOUS
<1>2. /\ \A b \in Attempts : now[b] = ChargeOf(b) /\ later[b] = ChargeOf(b)'
      /\ DOMAIN now = Attempts
  BY Zenon
<1> HIDE DEF now, later
<1>3. later[a] = n /\ \A b \in Attempts \ {a} : later[b] = now[b]
  BY <1>1, <1>2, Zenon
<1> QED
  BY <1>2, <1>3, Zenon

Moves(a, w, n) ==
  /\ AccountOf(w) = AccountOf(WalletOf[a]) /\ Credit(w, n)
  /\ ChargeOf(a)' = ChargeOf(a) - n
  /\ \A b \in Attempts \ {a} : ChargeOf(b)' = ChargeOf(b)

\* The record of a payment moves money so.
LEMMA RecordMoves ==
  ASSUME ContractInv, NEW a \in Attempts, RecordSend(a)
  PROVE  Moves(a, WalletOf[a], -Cost)
<1>1. C!Hold(a)
  BY RecordHolds, Zenon
<1>2. ChargeOf(a)' = Amount + MaxFee /\ \A b \in Attempts \ {a} : ChargeOf(b)' = ChargeOf(b)
  BY <1>1, ChargeExcept, Zenon DEF C!Hold
<1>3. Fresh(a) /\ journal[a] = "none" /\ Credit(WalletOf[a], -Cost)
  BY ZenonT(60) DEF RecordSend, ContractInv, SoleCloser, LndAgrees, Early
<1>4. ChargeOf(a) = 0
  BY <1>3, FreshCharge, Zenon
<1>5. ChargeOf(a)' = ChargeOf(a) - (-Cost)
  BY <1>2, <1>4, SendAssumption DEF Cost
<1> QED
  BY <1>2, <1>3, <1>5, Zenon DEF Moves

\* So does a refund, to whichever wallet of the account it goes.
LEMMA RefundMoves ==
  ASSUME ContractInv, NEW a \in Attempts, Fresh(a), journal[a] = "settled",
         htlc[a] \in {"none", "failed"}, UNCHANGED <<journal, htlc, fee, feeBacks>>,
         NEW w \in Wallets, AccountOf(w) = AccountOf(WalletOf[a]), Credit(w, Cost),
         \/ voided' = voided \cup {a} /\ UNCHANGED credits
         \/ credits' = [credits EXCEPT ![a] = @ + 1] /\ UNCHANGED voided
  PROVE  Moves(a, w, Cost)
<1>1. C!Refund(a)
  BY GivesBack, Zenon
<1>2. ChargeOf(a)' = 0 /\ \A b \in Attempts \ {a} : ChargeOf(b)' = ChargeOf(b)
  BY <1>1, ChargeExcept, Zenon DEF C!Refund
<1>3. ChargeOf(a) = Cost
  BY FreshCharge, Zenon
<1>4. ChargeOf(a)' = ChargeOf(a) - Cost
  BY <1>2, <1>3, SendAssumption DEF Cost
<1> QED
  BY <1>2, <1>4, Zenon DEF Moves

\* So does the reimbursement of the fee.
LEMMA FeeMoves ==
  ASSUME ContractInv, NEW a \in Attempts, Fresh(a), journal[a] = "settled",
         UNCHANGED <<journal, fee, voided, credits>>,
         MaxFee - fee[a] > 0, Credit(WalletOf[a], MaxFee - fee[a]),
         feeBacks' = [feeBacks EXCEPT ![a] = @ + 1]
  PROVE  Moves(a, WalletOf[a], MaxFee - fee[a])
<1>1. /\ ChargeOf(a) = Amount + MaxFee /\ ChargeOf(a)' = Amount + fee[a]
      /\ fee[a] \in 0..(MaxFee - 1)
      /\ \A b \in Attempts : b # a => ChargeOf(b)' = ChargeOf(b)
  BY FeeBackCharge, Zenon
<1>2. ChargeOf(a)' = ChargeOf(a) - (MaxFee - fee[a])
  BY <1>1, SendAssumption
<1> QED
  BY <1>1, <1>2, Zenon DEF Moves

\* A step moves no money and changes no charge, or does both for one payment.
LEMMA MoneyMoves ==
  ASSUME OnePayer, AtomicSettle, ~LostReply, ContractInv, Next
  PROVE  \/ UNCHANGED balance /\ \A b \in Attempts : ChargeOf(b)' = ChargeOf(b)
         \/ \E a \in Attempts, w \in Wallets, n \in Int : Moves(a, w, n)
<1> USE DEF ledgerVars, lndVars
<1>0. Cost \in Int /\ -Cost \in Int
  BY SendAssumption DEF Cost
<1>1. ASSUME NEW a \in Attempts, RecordSend(a)
      PROVE  \E b \in Attempts, w \in Wallets, n \in Int : Moves(b, w, n)
  BY <1>0, <1>1, RecordMoves, SendAssumption, ZenonT(60)
<1>2. ASSUME UNCHANGED <<voided, credits, feeBacks, fee>>,
             \A b \in Attempts : journal'[b] = "none" <=> journal[b] = "none"
      PROVE  \A b \in Attempts : ChargeOf(b)' = ChargeOf(b)
  BY <1>2, ZenonT(60) DEF ChargeOf
<1>3. ASSUME NEW a \in Attempts, LndSettles(a)
      PROVE  UNCHANGED balance /\ \A b \in Attempts : ChargeOf(b)' = ChargeOf(b)
  <2>1. C!Deliver(a) /\ UNCHANGED balance
    BY <1>3, SettleDelivers, Zenon DEF LndSettles
  <2>2. [b \in Attempts |-> ChargeOf(b)]' = [b \in Attempts |-> ChargeOf(b)]
    BY <2>1, Zenon DEF C!Deliver
  <2> DEFINE now == [b \in Attempts |-> ChargeOf(b)]
             later == [b \in Attempts |-> ChargeOf(b)']
  <2>3. later = now /\ \A b \in Attempts : now[b] = ChargeOf(b) /\ later[b] = ChargeOf(b)'
    BY <2>2, Zenon
  <2> HIDE DEF now, later
  <2> QED
    BY <2>1, <2>3, Zenon
<1>4. ASSUME NEW a \in Attempts, ResolveSend(a)
      PROVE  \/ UNCHANGED balance /\ \A b \in Attempts : ChargeOf(b)' = ChargeOf(b)
             \/ \E w \in Wallets, n \in Int : Moves(a, w, n)
  <2>1. /\ Fresh(a) /\ journal[a] = "settled" /\ WalletOf[a] \in Wallets
        /\ UNCHANGED <<journal, htlc, fee, credits>>
    BY <1>4, SendAssumption, ZenonT(60) DEF ResolveSend, ContractInv, SoleCloser
  <2>2. CASE result[a] = "failed"
    <3>1. /\ voided' = voided \cup {a} /\ Credit(WalletOf[a], Cost) /\ UNCHANGED feeBacks
          /\ htlc[a] \in {"none", "failed"}
      BY <1>4, <2>1, <2>2, ZenonT(60) DEF ResolveSend, Void, Fresh, ContractInv, LndAgrees
    <3>2. Moves(a, WalletOf[a], Cost)
      BY <2>1, <3>1, RefundMoves, ZenonT(60)
    <3> QED
      BY <1>0, <2>1, <3>2, Zenon
  <2>3. CASE result[a] = "paid"
    <3>1. htlc[a] = "settled" /\ PaidFee(HashOf[a]) = fee[a]
      BY <2>3, OnePayerStatus, Zenon DEF ContractInv, TypeInv, RequestTypes
    <3>2. /\ UNCHANGED voided
          /\ \/ UNCHANGED <<balance, feeBacks>>
             \/ /\ MaxFee - fee[a] > 0 /\ feeBacks' = [feeBacks EXCEPT ![a] = @ + 1]
                /\ Credit(WalletOf[a], MaxFee - fee[a])
      BY <1>4, <2>3, <3>1, Zenon DEF ResolveSend, ReimburseFee
    <3>3. MaxFee - fee[a] \in Int
      BY SendAssumption DEF ContractInv, TypeInv, RequestTypes
    <3>4. CASE UNCHANGED <<balance, feeBacks>>
      BY <1>2, <2>1, <3>2, <3>4, Zenon
    <3>5. CASE ~UNCHANGED <<balance, feeBacks>>
      <4>1. Moves(a, WalletOf[a], MaxFee - fee[a])
        BY <2>1, <3>2, <3>5, FeeMoves, ZenonT(60)
      <4> QED
        BY <2>1, <3>3, <4>1, Zenon
    <3> QED
      BY <3>4, <3>5, Zenon
  <2> QED
    BY <1>4, <2>2, <2>3, ZenonT(60) DEF ResolveSend
<1>5. ASSUME NEW k \in Workers, ResolvePending(k)
      PROVE  \/ UNCHANGED balance /\ \A b \in Attempts : ChargeOf(b)' = ChargeOf(b)
             \/ \E b \in Attempts, w \in Wallets, n \in Int : Moves(b, w, n)
  <2>0. PICK a \in Attempts : a = job[k]
    BY <1>5, ZenonT(60) DEF ResolvePending, ContractInv, TypeInv, WorkerTypes, Visiting, WorkerPoints
  <2>1. /\ a \in Attempts /\ wpc[k] = "resolve" /\ htlc[a] = seen[k]
        /\ payer[k] \in Attempts /\ HashOf[payer[k]] = HashOf[a]
    BY <1>5, <2>0, ZenonT(60) DEF ResolvePending, ContractInv, TypeInv, WorkerTypes, Judged, Visiting,
       Flipping,
       WorkerPoints, LndAgrees
  <2>2. /\ Fresh(a) /\ journal[a] = "settled" /\ UNCHANGED <<journal, htlc, fee>> /\ payer[k] = a
    BY <1>5, <2>0, <2>1, ZenonT(60) DEF ResolvePending, ContractInv, SoleCloser, Closing, OnePayer
  <2>3. /\ WalletOf[a] \in Wallets /\ BtcWalletOf[WalletOf[a]] \in Wallets
        /\ AccountOf(BtcWalletOf[WalletOf[a]]) = AccountOf(WalletOf[a])
    BY <2>1, SendAssumption, AccountAssumption, ZenonT(60) DEF AccountOf
  <2>4. CASE seen[k] = "failed"
    <3>1. PICK w \in Wallets :
             /\ AccountOf(w) = AccountOf(WalletOf[a]) /\ Credit(w, Cost) /\ UNCHANGED feeBacks
             /\ \/ voided' = voided \cup {a} /\ UNCHANGED credits
                \/ credits' = [credits EXCEPT ![a] = @ + 1] /\ UNCHANGED voided
      BY <1>5, <2>0, <2>2, <2>3, <2>4, ZenonT(60) DEF ResolvePending, Void, ReimburseFailedUsdPayment, Fresh
    <3>2. Moves(a, w, Cost)
      BY <2>1, <2>2, <2>4, <3>1, RefundMoves, ZenonT(60)
    <3> QED
      BY <1>0, <2>1, <3>2, Zenon
  <2>5. CASE seen[k] = "settled"
    <3>1. PaidFee(HashOf[payer[k]]) = fee[a]
      BY <2>1, <2>2, <2>5, OnePayerStatus, Zenon DEF ContractInv
    <3>2. /\ UNCHANGED <<voided, credits>>
          /\ \/ UNCHANGED <<balance, feeBacks>>
             \/ /\ MaxFee - fee[a] > 0 /\ feeBacks' = [feeBacks EXCEPT ![a] = @ + 1]
                /\ Credit(WalletOf[a], MaxFee - fee[a])
      BY <1>5, <2>0, <2>2, <2>5, <3>1, Zenon DEF ResolvePending, ReimburseFee
    <3>3. MaxFee - fee[a] \in Int
      BY <2>1, SendAssumption DEF ContractInv, TypeInv, RequestTypes
    <3>4. CASE UNCHANGED <<balance, feeBacks>>
      BY <1>2, <2>2, <3>2, <3>4, Zenon
    <3>5. CASE ~UNCHANGED <<balance, feeBacks>>
      <4>1. Moves(a, WalletOf[a], MaxFee - fee[a])
        BY <2>1, <2>2, <3>2, <3>5, FeeMoves, ZenonT(60)
      <4> QED
        BY <2>1, <2>3, <3>3, <4>1, Zenon
    <3> QED
      BY <3>4, <3>5, Zenon
  <2> QED
    BY <1>5, <2>4, <2>5, Zenon DEF ResolvePending
<1>6. ASSUME NEW a \in Attempts,
             \/ CheckLimits(a) \/ FlowWriteLands(a) \/ LndFails(a) \/ ReplyLost(a)
             \/ LoseWalletLock(a) \/ StopRequest(a)
      PROVE  UNCHANGED <<balance, voided, credits, feeBacks, fee, journal>>
  BY <1>6, ZenonT(60) DEF CheckLimits, FlowWriteLands, LndFails, ReplyLost, LoseWalletLock, StopRequest
<1>7. ASSUME NEW a \in Attempts, RequestStep(a)
      PROVE  \/ RecordSend(a) \/ ResolveSend(a)
             \/ /\ UNCHANGED <<balance, voided, credits, feeBacks, fee>>
                /\ \E h : FlipAll(h) \/ FlipFirst(h) \/ UNCHANGED journal
  BY <1>7, ZenonT(60) DEF RequestStep, LockWalletId, CheckInTransit, CheckBalance, CheckSignal, Pay,
     PayReturns, PayTimesOut, SettlePendingLnSend, SettleRest
<1>8. ASSUME NEW k \in Workers,
             \/ \E w \in Wallets \cup {Dealer} : ListPendingPayments(k, w)
             \/ WorkerStep(k) \/ LoseHashLock(k) \/ StopWorker(k)
      PROVE  \/ ResolvePending(k)
             \/ /\ UNCHANGED <<balance, voided, credits, feeBacks, fee>>
                /\ \E h : FlipAll(h) \/ FlipFirst(h) \/ UNCHANGED journal
  BY <1>8, ZenonT(60) DEF WorkerStep, ListPendingPayments, TakePayment, LookupPayment, LockPaymentHash,
     LockPaymentHashFails, CheckRecorded, MarkFlow, SettlePendingLnPayment, WSettleRest,
     LoseHashLock, StopWorker
<1>9. ASSUME UNCHANGED <<balance, voided, credits, feeBacks, fee>>,
             \E h : FlipAll(h) \/ FlipFirst(h) \/ UNCHANGED journal
      PROVE  UNCHANGED balance /\ \A b \in Attempts : ChargeOf(b)' = ChargeOf(b)
  BY <1>2, <1>9, FlipKeeps, Zenon
<1>10. Done => UNCHANGED <<balance, voided, credits, feeBacks, fee, journal>>
  BY Zenon DEF Done, vars
<1> QED
  BY <1>1, <1>3, <1>4, <1>5, <1>6, <1>7, <1>8, <1>9, <1>10, ZenonT(60) DEF Next

\* What a sender is out of pocket covers what lnd spent and may still spend.
LEMMA Charged ==
  ASSUME ContractInv, ResolvedOnce, NEW a \in Attempts
  PROVE  /\ ChargeOf(a) \in Nat
         /\ htlc[a] = "settled" => ChargeOf(a) >= Amount + fee[a]
         /\ htlc[a] = "settled" /\ feeBacks[a] = 1 => ChargeOf(a) = Amount + fee[a]
         /\ htlc[a] = "inflight" => ChargeOf(a) = Cost
         /\ Refunded(a) => ChargeOf(a) = 0
<1>1. /\ fee[a] \in 0..MaxFee /\ Amount \in Nat /\ MaxFee \in Nat
      /\ credits[a] \in Nat /\ feeBacks[a] \in Nat
  BY SendAssumption, Zenon DEF ContractInv, TypeInv, RequestTypes, LedgerTypes
<1>2. (IF a \in voided THEN 1 ELSE 0) + credits[a] + feeBacks[a] <= 1
  BY Zenon DEF ResolvedOnce
<1>3. \/ a \in voided /\ credits[a] = 0 /\ feeBacks[a] = 0
      \/ a \notin voided /\ credits[a] = 1 /\ feeBacks[a] = 0
      \/ a \notin voided /\ credits[a] = 0 /\ feeBacks[a] \in {0, 1}
  BY <1>1, <1>2
<1>4. /\ htlc[a] # "none" => journal[a] # "none"
      /\ Refunded(a) => htlc[a] \in {"none", "failed"}
      /\ feeBacks[a] # 0 => htlc[a] = "settled"
  BY ZenonT(60) DEF ContractInv, LndAgrees
<1>5. CASE journal[a] = "none"
  BY <1>4, <1>5, ZenonT(60) DEF ChargeOf
<1>6. CASE journal[a] # "none" /\ Refunded(a)
  <2>1. ChargeOf(a) = Cost - Cost - 0 * Cost - 0 * (MaxFee - fee[a])
        \/ ChargeOf(a) = Cost - 0 - 1 * Cost - 0 * (MaxFee - fee[a])
    BY <1>1, <1>3, <1>6 DEF Refunded, ChargeOf
  <2>2. ChargeOf(a) = 0
    BY <1>1, <2>1 DEF Cost
  <2> QED
    BY <1>4, <1>6, <2>2
<1>7. CASE journal[a] # "none" /\ ~Refunded(a)
  <2>1. a \notin voided /\ credits[a] = 0 /\ feeBacks[a] \in {0, 1}
    BY <1>1, <1>3, <1>7 DEF Refunded
  <2>2. /\ feeBacks[a] = 0 => ChargeOf(a) = Cost - 0 - 0 * Cost - 0 * (MaxFee - fee[a])
        /\ feeBacks[a] = 1 => ChargeOf(a) = Cost - 0 - 0 * Cost - 1 * (MaxFee - fee[a])
    BY <1>7, <2>1, Zenon DEF ChargeOf
  <2>3. /\ feeBacks[a] = 0 => ChargeOf(a) = Cost
        /\ feeBacks[a] = 1 => ChargeOf(a) = Amount + fee[a]
    BY <1>1, <2>2 DEF Cost
  <2> QED
    BY <1>1, <1>4, <1>7, <2>1, <2>3 DEF Cost
<1> QED
  BY <1>5, <1>6, <1>7, Zenon

-----------------------------------------------------------------------------
(* A payment that is left alone is settled up: once nobody is to close its *)
(* journal, the sender is charged what lnd spent on it and no more.        *)

RoutedFee == \A a \in Routed : htlc[a] = "settled" => fee[a] = MaxFee

ToClose(a) == journal[a] # "settled" \/ pc[a] = "resolve" \/ \E k \in Workers : Closing(k, a)

SettledUp(a) ==
  IF htlc[a] = "settled" THEN feeBacks[a] = 1 \/ fee[a] = MaxFee ELSE Refunded(a)

Finished == RoutedFee /\ \A a \in Attempts : ToClose(a) \/ SettledUp(a)

\* Only lnd settles a payment and sets its fee, and it does so to a payment in flight.
LEMMA LndMoves ==
  ASSUME ContractInv, Next
  PROVE  \/ UNCHANGED <<htlc, fee>>
         \/ \E a \in Attempts : LndSettles(a)
         \/ \E a \in Attempts, s \in {"none", "inflight", "failed"} :
              /\ htlc[a] # "settled" /\ htlc' = [htlc EXCEPT ![a] = s]
              /\ UNCHANGED fee
<1> USE DEF lndVars
<1>1. ASSUME NEW a \in Attempts, Pay(a) \/ LndFails(a)
      PROVE  \/ UNCHANGED <<htlc, fee>>
             \/ \E s \in {"none", "inflight", "failed"} :
                  htlc[a] # "settled" /\ htlc' = [htlc EXCEPT ![a] = s] /\ UNCHANGED fee
  <2>1. htlc[a] # "settled"
    BY <1>1, ZenonT(60) DEF Pay, LndFails, ContractInv, LndAgrees
  <2>2. UNCHANGED fee
    BY <1>1, ZenonT(60) DEF Pay, LndFails
  <2>3. \/ UNCHANGED htlc
        \/ \E s \in {"none", "inflight", "failed"} : htlc' = [htlc EXCEPT ![a] = s]
    BY <1>1, ZenonT(60) DEF Pay, LndFails
  <2> QED
    BY <2>1, <2>2, <2>3, ZenonT(60)
<1>2. ASSUME NEW a \in Attempts,
             \/ CheckLimits(a) \/ RequestStep(a) \/ FlowWriteLands(a) \/ ReplyLost(a)
             \/ LoseWalletLock(a) \/ StopRequest(a)
      PROVE  Pay(a) \/ UNCHANGED <<htlc, fee>>
  BY <1>2, ZenonT(60) DEF RequestStep, CheckLimits, LockWalletId, CheckInTransit, CheckBalance, CheckSignal,
     RecordSend, PayReturns, ReplyLost, PayTimesOut, SettlePendingLnSend, SettleRest, ResolveSend,
     FlowWriteLands, LoseWalletLock, StopRequest
<1>3. ASSUME NEW k \in Workers,
             \/ \E w \in Wallets \cup {Dealer} : ListPendingPayments(k, w)
             \/ WorkerStep(k) \/ LoseHashLock(k) \/ StopWorker(k)
      PROVE  UNCHANGED <<htlc, fee>>
  BY <1>3, ZenonT(60) DEF WorkerStep, ListPendingPayments, TakePayment, LookupPayment, LockPaymentHash,
     LockPaymentHashFails, CheckRecorded, MarkFlow, SettlePendingLnPayment, WSettleRest,
     ResolvePending, LoseHashLock, StopWorker
<1>4. Done => UNCHANGED <<htlc, fee>>
  BY Zenon DEF Done, vars
<1> QED
  BY <1>1, <1>2, <1>3, <1>4, ZenonT(60) DEF Next

\* What lnd settled stays as it is, it settles nothing that was given back, and the fee of
\* a probed route is the fee that was charged.
LEMMA LndKeeps ==
  ASSUME ContractInv, Next
  PROVE  /\ \A b \in Attempts : htlc[b] = "settled" => htlc'[b] = "settled" /\ fee'[b] = fee[b]
         /\ \A b \in Attempts : Refunded(b) => htlc'[b] # "settled"
         /\ RoutedFee => RoutedFee'
<1>1. \A b \in Attempts : Refunded(b) => htlc[b] \in {"none", "failed"}
  BY ZenonT(60) DEF ContractInv, LndAgrees
<1>2. CASE UNCHANGED <<htlc, fee>>
  BY <1>1, <1>2, ZenonT(60) DEF RoutedFee
<1>3. ASSUME NEW a \in Attempts, NEW s \in {"none", "inflight", "failed"}, htlc[a] # "settled",
             htlc' = [htlc EXCEPT ![a] = s], UNCHANGED fee
      PROVE  \A b \in Attempts : fee'[b] = fee[b] /\ (htlc'[b] = "settled" <=> htlc[b] = "settled")
  BY <1>3, ZenonT(60) DEF ContractInv, TypeInv, RequestTypes
<1>4. ASSUME NEW a \in Attempts, LndSettles(a)
      PROVE  /\ htlc[a] = "inflight" /\ htlc'[a] = "settled" /\ (a \in Routed => fee'[a] = MaxFee)
             /\ \A b \in Attempts : b # a => fee'[b] = fee[b] /\ htlc'[b] = htlc[b]
  BY <1>4, ZenonT(60) DEF LndSettles, ContractInv, TypeInv, RequestTypes
<1>5. CASE \E a \in Attempts : LndSettles(a)
  <2>1. PICK a \in Attempts : LndSettles(a)
    BY <1>5, Zenon
  <2>2. /\ htlc[a] = "inflight" /\ htlc'[a] = "settled" /\ (a \in Routed => fee'[a] = MaxFee)
        /\ \A b \in Attempts : b # a => fee'[b] = fee[b] /\ htlc'[b] = htlc[b]
    BY <1>4, <2>1, Zenon
  <2>3. ~Refunded(a)
    BY <1>1, <2>2, ZenonT(60)
  <2>4. Routed \subseteq Attempts
    BY SendAssumption, Zenon
  <2>5. \A b \in Attempts : Refunded(b) => htlc'[b] # "settled"
    BY <1>1, <2>2, <2>3, ZenonT(60)
  <2>6. RoutedFee => RoutedFee'
    BY <2>2, <2>4, ZenonT(60) DEF RoutedFee
  <2>7. \A b \in Attempts : htlc[b] = "settled" => htlc'[b] = "settled" /\ fee'[b] = fee[b]
    BY <2>2, ZenonT(60)
  <2> QED
    BY <2>5, <2>6, <2>7, Zenon
<1>6. CASE \A b \in Attempts : fee'[b] = fee[b] /\ (htlc'[b] = "settled" <=> htlc[b] = "settled")
  <2>1. Routed \subseteq Attempts
    BY SendAssumption, Zenon
  <2> QED
    BY <1>1, <1>6, <2>1, ZenonT(60) DEF RoutedFee
<1> QED
  BY <1>2, <1>3, <1>5, <1>6, LndMoves, ZenonT(60)

\* What is settled up stays so.
LEMMA SettledUpStays ==
  ASSUME ContractInv, Next, NEW b \in Attempts, SettledUp(b)
  PROVE  SettledUp(b)'
<1>1. Refunded(b) => Refunded(b)'
  <2>1. ASSUME NEW a \in Attempts, Fresh(a),
               \/ voided' = voided \cup {a} /\ UNCHANGED <<credits, feeBacks>>
               \/ credits' = [credits EXCEPT ![a] = @ + 1] /\ UNCHANGED <<voided, feeBacks>>
               \/ feeBacks' = [feeBacks EXCEPT ![a] = @ + 1] /\ UNCHANGED <<voided, credits>>
        PROVE  Refunded(b) => Refunded(b)'
    BY <2>1 DEF Refunded, Fresh, ContractInv, TypeInv, LedgerTypes
  <2> QED
    BY <2>1, ClosesFresh, ZenonT(60) DEF Refunded
<1>2. feeBacks[b] = 1 => feeBacks'[b] = 1
  <2>1. ASSUME NEW a \in Attempts, Fresh(a),
               \/ voided' = voided \cup {a} /\ UNCHANGED <<credits, feeBacks>>
               \/ credits' = [credits EXCEPT ![a] = @ + 1] /\ UNCHANGED <<voided, feeBacks>>
               \/ feeBacks' = [feeBacks EXCEPT ![a] = @ + 1] /\ UNCHANGED <<voided, credits>>
        PROVE  feeBacks[b] = 1 => feeBacks'[b] = 1
    BY <2>1 DEF Fresh, ContractInv, TypeInv, LedgerTypes
  <2> QED
    BY <2>1, ClosesFresh, ZenonT(60)
<1>3. CASE htlc[b] = "settled"
  BY <1>2, <1>3, LndKeeps, ZenonT(60) DEF SettledUp
<1>4. CASE htlc[b] # "settled"
  BY <1>1, <1>4, LndKeeps, ZenonT(60) DEF SettledUp
<1> QED
  BY <1>3, <1>4, Zenon

\* A sender that closes its journal settles the payment up.
LEMMA ResolveSettlesUp ==
  ASSUME OnePayer, ContractInv, RoutedFee, NEW a \in Attempts, ResolveSend(a)
  PROVE  SettledUp(a)'
<1>1. /\ Fresh(a) /\ UNCHANGED <<htlc, fee, credits>>
  BY ZenonT(60) DEF ResolveSend, ContractInv, SoleCloser, lndVars
<1>2. CASE result[a] = "failed"
  <2>1. voided' = voided \cup {a} /\ htlc[a] # "settled"
    BY <1>1, <1>2, ZenonT(60) DEF ResolveSend, Void, Fresh, ContractInv, LndAgrees
  <2> QED
    BY <1>1, <2>1, ZenonT(60) DEF SettledUp, Refunded
<1>3. CASE result[a] = "paid"
  <2>1. htlc[a] = "settled" /\ PaidFee(HashOf[a]) = fee[a] /\ fee[a] \in 0..MaxFee /\ MaxFee \in Nat
    BY <1>3, OnePayerStatus, SendAssumption, Zenon DEF ContractInv, TypeInv, RequestTypes
  <2>2. \/ a \in Routed
        \/ ~(MaxFee - fee[a] > 0)
        \/ feeBacks' = [feeBacks EXCEPT ![a] = @ + 1]
    BY <1>3, <2>1, ZenonT(60) DEF ResolveSend, ReimburseFee
  <2>3. ~(MaxFee - fee[a] > 0) => fee[a] = MaxFee
    BY <2>1
  <2>4. feeBacks' = [feeBacks EXCEPT ![a] = @ + 1] => feeBacks'[a] = 1
    BY <1>1 DEF Fresh, ContractInv, TypeInv, LedgerTypes
  <2> QED
    BY <1>1, <2>1, <2>2, <2>3, <2>4, ZenonT(60) DEF SettledUp, RoutedFee
<1> QED
  BY <1>2, <1>3, ZenonT(60) DEF ResolveSend

\* So does a reconciler.
LEMMA WorkerSettlesUp ==
  ASSUME OnePayer, ContractInv, RoutedFee, NEW k \in Workers, ResolvePending(k),
         NEW a \in Attempts, job[k] = a
  PROVE  SettledUp(a)'
<1>1. /\ wpc[k] = "resolve" /\ htlc[a] = seen[k]
      /\ payer[k] \in Attempts /\ HashOf[payer[k]] = HashOf[a]
  BY ZenonT(60) DEF ResolvePending, ContractInv, TypeInv, WorkerTypes, Judged, Visiting, Flipping,
     WorkerPoints, LndAgrees
<1>2. Fresh(a) /\ payer[k] = a /\ UNCHANGED <<htlc, fee>>
  BY <1>1, ZenonT(60) DEF ResolvePending, ContractInv, SoleCloser, Closing, OnePayer, lndVars
<1>3. CASE seen[k] = "failed"
  <2>1. a \in voided' \/ credits' = [credits EXCEPT ![a] = @ + 1]
    BY <1>2, <1>3, ZenonT(60) DEF ResolvePending, Void, ReimburseFailedUsdPayment, Fresh
  <2>2. credits' = [credits EXCEPT ![a] = @ + 1] => credits'[a] > 0
    BY <1>1, <1>2 DEF Fresh, ContractInv, TypeInv, LedgerTypes
  <2>3. htlc'[a] # "settled"
    BY <1>1, <1>2, <1>3, Zenon
  <2> QED
    BY <1>1, <2>1, <2>2, <2>3, ZenonT(60) DEF SettledUp, Refunded
<1>4. CASE seen[k] = "settled"
  <2>1. htlc[a] = "settled" /\ PaidFee(HashOf[a]) = fee[a] /\ fee[a] \in 0..MaxFee /\ MaxFee \in Nat
    BY <1>1, <1>4, OnePayerStatus, SendAssumption, Zenon DEF ContractInv, TypeInv, RequestTypes
  <2>2. \/ a \in Routed
        \/ ~(MaxFee - fee[a] > 0)
        \/ feeBacks' = [feeBacks EXCEPT ![a] = @ + 1]
    BY <1>2, <1>4, <2>1, ZenonT(60) DEF ResolvePending, ReimburseFee
  <2>3. ~(MaxFee - fee[a] > 0) => fee[a] = MaxFee
    BY <2>1
  <2>4. feeBacks' = [feeBacks EXCEPT ![a] = @ + 1] => feeBacks'[a] = 1
    BY <1>1, <1>2 DEF Fresh, ContractInv, TypeInv, LedgerTypes
  <2> QED
    BY <1>1, <1>2, <2>1, <2>2, <2>3, <2>4, ZenonT(60) DEF SettledUp, RoutedFee
<1> QED
  BY <1>1, <1>3, <1>4, ZenonT(60) DEF ResolvePending

\* A request that moves on closes its own journal only.
LEMMA RequestToClose ==
  ASSUME ContractInv, AtomicSettle, OnePayer, "resolve" \notin StopAt,
         NEW a \in Attempts, NEW b \in Attempts, ToClose(b),
         \/ CheckLimits(a) \/ RequestStep(a) \/ FlowWriteLands(a)
         \/ LndSettles(a) \/ LndFails(a) \/ ReplyLost(a)
         \/ LoseWalletLock(a) \/ StopRequest(a)
  PROVE  ToClose(b)' \/ (ResolveSend(a) /\ a = b)
<1> USE DEF lockVars, ledgerVars, lndVars, requestVars, workerVars, flowVars
<1>1. UNCHANGED <<wpc, job>>
  BY ZenonT(60) DEF RequestStep, CheckLimits, LockWalletId, CheckInTransit, CheckBalance, CheckSignal,
     RecordSend, Pay, PayReturns, ReplyLost, PayTimesOut, SettlePendingLnSend, SettleRest, ResolveSend,
     FlowWriteLands, LndSettles, LndFails, LoseWalletLock, StopRequest
<1>2. CASE \E k \in Workers : Closing(k, b)
  BY <1>1, <1>2, ZenonT(60) DEF ToClose, Closing
<1>3. CASE pc[b] = "resolve"
  <2>1. b # a => pc'[b] = pc[b]
    BY ZenonT(60) DEF RequestStep, CheckLimits, LockWalletId, CheckInTransit, CheckBalance, CheckSignal,
     RecordSend, Pay, PayReturns, ReplyLost, PayTimesOut, SettlePendingLnSend, SettleRest, ResolveSend,
     FlowWriteLands, LndSettles, LndFails, LoseWalletLock, StopRequest, Return, Goto,
     ContractInv, TypeInv, RequestTypes
  <2>2. b = a => ResolveSend(a) \/ UNCHANGED pc
    BY <1>3, ZenonT(60) DEF RequestStep, CheckLimits, LockWalletId, CheckInTransit, CheckBalance,
       CheckSignal,
     RecordSend, Pay, PayReturns, ReplyLost, PayTimesOut, SettlePendingLnSend, SettleRest,
     FlowWriteLands, LndSettles, LndFails, LoseWalletLock, StopRequest
  <2> QED
    BY <1>3, <2>1, <2>2, ZenonT(60) DEF ToClose
<1>4. CASE journal[b] # "settled"
  <2>1. ASSUME SettlePendingLnSend(a) PROVE ToClose(b)'
    <3>1. CASE PendingIn(HashOf[a]) = {}
      BY <1>4, <2>1, <3>1, ZenonT(60) DEF SettlePendingLnSend, ToClose
    <3>2. CASE PendingIn(HashOf[a]) # {}
      <4>1. PendingIn(HashOf[a]) = {a}
        BY <3>2, OnePayerStatus, Zenon DEF PendingIn, ContractInv
      <4>2. FlipAll(HashOf[a]) /\ Goto(a, "resolve")
        BY <2>1, <3>2, ZenonT(60) DEF SettlePendingLnSend
      <4>3. b # a => journal'[b] = journal[b]
        BY <4>1, <4>2, ZenonT(60) DEF FlipAll
      <4>4. pc'[a] = "resolve"
        BY <4>2, ZenonT(60) DEF Goto, ContractInv, TypeInv, RequestTypes
      <4> QED
        BY <1>4, <4>3, <4>4, ZenonT(60) DEF ToClose
    <3> QED
      BY <3>1, <3>2, Zenon
  <2>2. ASSUME RecordSend(a) PROVE journal'[b] # "settled"
    BY <1>4, <2>2, ZenonT(60) DEF RecordSend, ContractInv, TypeInv, LedgerTypes
  <2>3. RecordSend(a) \/ SettlePendingLnSend(a) \/ UNCHANGED journal
    BY ZenonT(60) DEF RequestStep, CheckLimits, LockWalletId, CheckInTransit, CheckBalance, CheckSignal,
     Pay, PayReturns, ReplyLost, PayTimesOut, SettleRest, ResolveSend,
     FlowWriteLands, LndSettles, LndFails, LoseWalletLock, StopRequest, ContractInv, SoleCloser
  <2> QED
    BY <1>4, <2>1, <2>2, <2>3, ZenonT(60) DEF ToClose
<1> QED
  BY <1>2, <1>3, <1>4, Zenon DEF ToClose

\* A reconciler that moves on closes the journal it is at.
LEMMA WorkerToClose ==
  ASSUME ContractInv, AtomicSettle, OnePayer, "resolve" \notin StopAt,
         NEW k \in Workers, NEW b \in Attempts, ToClose(b),
         \/ \E w \in Wallets \cup {Dealer} : ListPendingPayments(k, w)
         \/ WorkerStep(k) \/ LoseHashLock(k) \/ StopWorker(k)
  PROVE  ToClose(b)' \/ (ResolvePending(k) /\ job[k] = b)
<1> USE DEF lockVars, ledgerVars, lndVars, requestVars, workerVars, flowVars
<1>1. UNCHANGED pc
  BY ZenonT(60) DEF WorkerStep, ListPendingPayments, TakePayment, LookupPayment, LockPaymentHash,
     LockPaymentHashFails, CheckRecorded, MarkFlow, SettlePendingLnPayment, WSettleRest,
     ResolvePending, LoseHashLock, StopWorker
<1>2. CASE pc[b] = "resolve"
  BY <1>1, <1>2, ZenonT(60) DEF ToClose
<1>3. CASE \E l \in Workers : Closing(l, b)
  <2>1. PICK l \in Workers : wpc[l] = "resolve" /\ job[l] = b
    BY <1>3, Zenon DEF Closing
  <2>2. l # k => wpc'[l] = wpc[l] /\ job'[l] = job[l]
    BY ZenonT(60) DEF WorkerStep, ListPendingPayments, TakePayment, LookupPayment, LockPaymentHash,
     LockPaymentHashFails, CheckRecorded, MarkFlow, SettlePendingLnPayment, WSettleRest,
     ResolvePending, LoseHashLock, StopWorker, NextJob, WGoto, ContractInv, TypeInv, WorkerTypes
  <2>3. l = k => ResolvePending(k) \/ UNCHANGED <<wpc, job>>
    BY <2>1, ZenonT(60) DEF WorkerStep, ListPendingPayments, TakePayment, LookupPayment, LockPaymentHash,
     LockPaymentHashFails, CheckRecorded, MarkFlow, SettlePendingLnPayment, WSettleRest,
     LoseHashLock, StopWorker
  <2> QED
    BY <2>1, <2>2, <2>3, ZenonT(60) DEF ToClose, Closing
<1>4. CASE journal[b] # "settled"
  <2>1. ASSUME SettlePendingLnPayment(k) PROVE ToClose(b)'
    <3>1. CASE PendingIn(HashOf[job[k]]) = {}
      BY <1>4, <2>1, <3>1, ZenonT(60) DEF SettlePendingLnPayment, ToClose
    <3>2. CASE PendingIn(HashOf[job[k]]) # {}
      <4>0. job[k] \in Attempts
        BY <2>1, ZenonT(60) DEF SettlePendingLnPayment, ContractInv, TypeInv, WorkerTypes, Visiting,
           WorkerPoints
      <4>1. PendingIn(HashOf[job[k]]) = {job[k]}
        BY <3>2, <4>0, OnePayerStatus, ZenonT(60) DEF PendingIn, ContractInv
      <4>2. FlipAll(HashOf[job[k]]) /\ WGoto(k, "resolve") /\ UNCHANGED job
        BY <2>1, <3>2, ZenonT(60) DEF SettlePendingLnPayment
      <4>3. b # job[k] => journal'[b] = journal[b]
        BY <4>1, <4>2, ZenonT(60) DEF FlipAll
      <4>4. wpc'[k] = "resolve"
        BY <4>2, ZenonT(60) DEF WGoto, ContractInv, TypeInv, WorkerTypes
      <4> QED
        BY <1>4, <4>2, <4>3, <4>4, ZenonT(60) DEF ToClose, Closing
    <3> QED
      BY <3>1, <3>2, Zenon
  <2>2. SettlePendingLnPayment(k) \/ UNCHANGED journal
    BY ZenonT(60) DEF WorkerStep, ListPendingPayments, TakePayment, LookupPayment, LockPaymentHash,
     LockPaymentHashFails, CheckRecorded, MarkFlow, WSettleRest, ResolvePending,
     LoseHashLock, StopWorker, ContractInv, SoleCloser
  <2> QED
    BY <1>4, <2>1, <2>2, ZenonT(60) DEF ToClose
<1> QED
  BY <1>2, <1>3, <1>4, Zenon DEF ToClose

\* Nobody leaves a journal it has settled before it is settled up, if nobody crashes there.
LEMMA FinishedStep ==
  ASSUME OnePayer, AtomicSettle, "resolve" \notin StopAt, ContractInv, Finished, [Next]_vars
  PROVE  Finished'
<1>1. CASE UNCHANGED vars
  BY <1>1, ZenonT(60) DEF Finished, RoutedFee, ToClose, SettledUp, Closing, Refunded, vars, ledgerVars,
     lndVars, requestVars, workerVars
<1>2. CASE Next
  <2>1. RoutedFee'
    BY <1>2, LndKeeps, Zenon DEF Finished
  <2>2. ASSUME NEW b \in Attempts PROVE ToClose(b)' \/ SettledUp(b)'
    <3>1. CASE SettledUp(b)
      BY <1>2, <3>1, SettledUpStays, Zenon
    <3>2. CASE ToClose(b)
      <4>1. CASE Done
        BY <3>2, <4>1, ZenonT(60) DEF Done, ToClose, Closing, vars, ledgerVars, requestVars, workerVars
      <4> QED
        BY <1>2, <3>2, <4>1, RequestToClose, WorkerToClose, ResolveSettlesUp, WorkerSettlesUp, ZenonT(60)
        DEF Next, Finished
    <3> QED
      BY <3>1, <3>2, Zenon DEF Finished
  <2> QED
    BY <2>1, <2>2, Zenon DEF Finished
<1> QED
  BY <1>1, <1>2, Zenon

-----------------------------------------------------------------------------
(***************************************************************************)
(* The books of the accounts against what lnd spent: in every state an     *)
(* account holds its opening balance less what its payments are charged,   *)
(* and the charges cover what lnd delivered and may deliver.               *)
(***************************************************************************)
INSTANCE SetTheorems

Charges == [a \in Attempts |-> ChargeOf(a)]

Books ==
  \A c \in Accounts : Funds(c) + SumFunctionOnSet(Charges, SentBy(c)) = Opening(c)

BooksInv == ContractInv /\ ResolvedOnce /\ Books

\* An account has finitely many wallets and payments.
LEMMA AccountFinite ==
  ASSUME NEW c
  PROVE  /\ IsFiniteSet(WalletsOf(c)) /\ WalletsOf(c) \in SUBSET Wallets
         /\ IsFiniteSet(SentBy(c)) /\ SentBy(c) \in SUBSET Attempts
BY AccountAssumption, FS_Subset, ZenonT(60) DEF WalletsOf, SentBy

\* The types of what is summed.
LEMMA SummedTypes ==
  ASSUME ContractInv, ResolvedOnce
  PROVE  /\ \A w \in Wallets : balance[w] \in Int
         /\ \A a \in Attempts : Charges[a] = ChargeOf(a) /\ Charges[a] \in Int /\ 0 <= Charges[a]
<1>1. \A w \in Wallets : balance[w] \in Int
  BY ZenonT(60) DEF ContractInv, TypeInv, LedgerTypes
<1>2. \A a \in Attempts : ChargeOf(a) \in Int /\ 0 <= ChargeOf(a)
  <2>1. \A a \in Attempts : ChargeOf(a) \in Nat
    BY Charged, Zenon
  <2>2. \A n \in Nat : n \in Int /\ 0 <= n
    OBVIOUS
  <2> QED
    BY <2>1, <2>2, Zenon
<1> QED
  BY <1>1, <1>2, Zenon DEF Charges

\* Every sum is an integer.
LEMMA SumsTyped ==
  ASSUME ContractInv, ResolvedOnce, NEW c
  PROVE  /\ Funds(c) \in Int /\ SumFunctionOnSet(Charges, SentBy(c)) \in Int
         /\ Delivered(c) \in Int /\ InFlight(c) \in Int
<1>1. /\ IsFiniteSet(WalletsOf(c)) /\ WalletsOf(c) \in SUBSET Wallets
      /\ IsFiniteSet(SentBy(c)) /\ SentBy(c) \in SUBSET Attempts
  BY AccountFinite, Zenon
<1>2. Funds(c) \in Int /\ SumFunctionOnSet(Charges, SentBy(c)) \in Int
  <2>1. (\A w \in WalletsOf(c) : balance[w] \in Int) /\ (\A a \in SentBy(c) : Charges[a] \in Int)
    BY <1>1, SummedTypes, ZenonT(60)
  <2> QED
    BY <1>1, <2>1, SumType, ZenonT(60) DEF Funds
<1>3. Delivered(c) \in Int
  <2> DEFINE d == [a \in Attempts |-> Amount + fee[a]]
             A == {a \in SentBy(c) : htlc[a] = "settled"}
  <2>1. \A a \in Attempts : Amount + fee[a] \in Int
    BY SendAssumption DEF ContractInv, TypeInv, RequestTypes
  <2>2. IsFiniteSet(A) /\ \A a \in A : d[a] \in Int
    BY <1>1, <2>1, FS_Subset, ZenonT(60)
  <2> HIDE DEF d, A
  <2>3. SumFunctionOnSet(d, A) \in Int
    BY <2>2, SumType, Zenon
  <2> QED
    BY <2>3, Zenon DEF Delivered, d, A
<1>4. InFlight(c) \in Int
  <2> DEFINE B == {a \in SentBy(c) : htlc[a] = "inflight"}
  <2>1. IsFiniteSet(B)
    BY <1>1, FS_Subset, ZenonT(60)
  <2> HIDE DEF B
  <2>2. Cardinality(B) \in Nat
    BY <2>1, FS_CardinalityType, Zenon
  <2>3. \A i \in Nat : Cost * i \in Int
    BY SendAssumption, SMT DEF Cost
  <2>4. Cost * Cardinality(B) \in Int
    BY <2>2, <2>3, Zenon
  <2> QED
    BY <2>4, Zenon DEF InFlight, B
<1> QED
  BY <1>2, <1>3, <1>4, Zenon

\* At first nothing is charged.
LEMMA BooksInit == Init => Books
<1> SUFFICES ASSUME Init, NEW c \in Accounts
             PROVE  Funds(c) + SumFunctionOnSet(Charges, SentBy(c)) = Opening(c)
  BY Zenon DEF Books
<1>1. /\ IsFiniteSet(WalletsOf(c)) /\ WalletsOf(c) \in SUBSET Wallets
      /\ IsFiniteSet(SentBy(c)) /\ SentBy(c) \in SUBSET Attempts
  BY AccountFinite, Zenon
<1>2. InitBalance \in Int
  BY SendAssumption
<1>3. \A w \in WalletsOf(c) : balance[w] = InitBalance
  BY <1>1, Zenon DEF Init
<1>4. \A a \in SentBy(c) : Charges[a] = 0
  BY <1>1, Zenon DEF Init, Charges, ChargeOf
<1>5. Funds(c) = InitBalance * Cardinality(WalletsOf(c))
  BY <1>1, <1>2, <1>3, SumConst, Zenon DEF Funds
<1>6. SumFunctionOnSet(Charges, SentBy(c)) = 0 * Cardinality(SentBy(c))
  BY <1>1, <1>4, SumConst, SMT
<1>7. Cardinality(WalletsOf(c)) \in Nat /\ Cardinality(SentBy(c)) \in Nat
  BY <1>1, FS_CardinalityType, Zenon
<1>8. \A i, j \in Nat : InitBalance * i + 0 * j = InitBalance * i
  BY <1>2
<1> QED
  BY <1>5, <1>6, <1>7, <1>8, Zenon DEF Opening

\* What one of two sums gains and the other loses leaves their total alone.
LEMMA Offset ==
  ASSUME NEW x \in Int, NEW y \in Int, NEW n \in Int
  PROVE  (x + n) + (y + (-n)) = x + y
BY SMT

\* A movement keeps the books of every account.
LEMMA MovesKeepBooks ==
  ASSUME ContractInv, ResolvedOnce, Books, NEW a \in Attempts, NEW w \in Wallets, NEW n \in Int,
         Moves(a, w, n), NEW c \in Accounts
  PROVE  Funds(c)' + SumFunctionOnSet(Charges', SentBy(c)) = Opening(c)
<1>1. /\ IsFiniteSet(WalletsOf(c)) /\ WalletsOf(c) \in SUBSET Wallets
      /\ IsFiniteSet(SentBy(c)) /\ SentBy(c) \in SUBSET Attempts
  BY AccountFinite, Zenon
<1>2. /\ \A v \in Wallets : balance[v] \in Int
      /\ \A b \in Attempts : Charges[b] = ChargeOf(b) /\ Charges[b] \in Int
  BY SummedTypes, Zenon
<1>3. /\ balance' = [balance EXCEPT ![w] = @ + n] /\ balance \in [Wallets -> Int]
      /\ AccountOf(w) = AccountOf(WalletOf[a])
  BY Zenon DEF Moves, Credit, ContractInv, TypeInv, LedgerTypes
<1>4. /\ balance'[w] = balance[w] + n /\ balance'[w] \in Int
      /\ \A v \in Wallets \ {w} : balance'[v] = balance[v]
  BY <1>3, SMT
<1>5. \A b \in Attempts : Charges'[b] = ChargeOf(b)'
  BY Zenon DEF Charges
<1>6. Charges'[a] = Charges[a] - n /\ \A b \in Attempts \ {a} : Charges'[b] = Charges[b]
  BY <1>2, <1>5, Zenon DEF Moves
<1>7. Charges'[a] \in Int
  BY <1>2, <1>6, SMT
<1>8. /\ \A v \in Wallets : balance'[v] \in Int
      /\ \A b \in Attempts : Charges'[b] \in Int
  BY <1>2, <1>4, <1>6, <1>7, Zenon
<1>9. Funds(c) + SumFunctionOnSet(Charges, SentBy(c)) = Opening(c)
  BY Zenon DEF Books
<1>10. Funds(c) \in Int /\ SumFunctionOnSet(Charges, SentBy(c)) \in Int
  BY SumsTyped, Zenon
<1>11. Funds(c)' = SumFunctionOnSet(balance', WalletsOf(c))
  BY Zenon DEF Funds
<1>12. CASE AccountOf(w) = c
  <2>1. w \in WalletsOf(c) /\ a \in SentBy(c)
    BY <1>3, <1>12, Zenon DEF WalletsOf, SentBy
  <2>2. SumFunctionOnSet(balance', WalletsOf(c)) = Funds(c) + (balance'[w] - balance[w])
    <3>1. AgreeBut(balance, balance', WalletsOf(c), w)
      BY <1>1, <1>2, <1>4, <1>8, ZenonT(60) DEF AgreeBut
    <3>2. SumFunctionOnSet(balance', WalletsOf(c)) =
            SumFunctionOnSet(balance, WalletsOf(c)) + (balance'[w] - balance[w])
      BY <1>1, <2>1, <3>1, SumChange, ZenonT(60)
    <3> QED
      BY <3>2, Zenon DEF Funds
  <2>3. SumFunctionOnSet(Charges', SentBy(c)) =
          SumFunctionOnSet(Charges, SentBy(c)) + (Charges'[a] - Charges[a])
    <3>1. AgreeBut(Charges, Charges', SentBy(c), a)
      BY <1>1, <1>2, <1>6, <1>8, ZenonT(60) DEF AgreeBut
    <3> QED
      BY <1>1, <2>1, <3>1, SumChange, ZenonT(60)
  <2>4. balance[w] \in Int /\ Charges[a] \in Int
    BY <1>2, Zenon
  <2>5. balance'[w] - balance[w] = n /\ Charges'[a] - Charges[a] = -n
    BY <1>4, <1>6, <2>4, SMT
  <2>6. /\ Funds(c)' = Funds(c) + n
        /\ SumFunctionOnSet(Charges', SentBy(c)) = SumFunctionOnSet(Charges, SentBy(c)) + (-n)
    BY <1>11, <2>2, <2>3, <2>5, Zenon
  <2>7. (Funds(c) + n) + (SumFunctionOnSet(Charges, SentBy(c)) + (-n)) =
          Funds(c) + SumFunctionOnSet(Charges, SentBy(c))
    BY <1>10, Offset
  <2> QED
    BY <1>9, <2>6, <2>7, Zenon
<1>13. CASE AccountOf(w) # c
  <2>1. w \notin WalletsOf(c) /\ a \notin SentBy(c)
    BY <1>3, <1>13, Zenon DEF WalletsOf, SentBy
  <2>2. SumFunctionOnSet(balance', WalletsOf(c)) = Funds(c)
    <3>1. \A v \in WalletsOf(c) : balance[v] \in Int /\ balance'[v] = balance[v]
      BY <1>1, <1>2, <1>4, <2>1, ZenonT(60)
    <3> QED
      BY <1>1, <3>1, SumSame, Zenon DEF Funds
  <2>3. SumFunctionOnSet(Charges', SentBy(c)) = SumFunctionOnSet(Charges, SentBy(c))
    <3>1. \A b \in SentBy(c) : Charges[b] \in Int /\ Charges'[b] = Charges[b]
      BY <1>1, <1>2, <1>6, <2>1, ZenonT(60)
    <3> QED
      BY <1>1, <3>1, SumSame, Zenon
  <2> QED
    BY <1>9, <1>11, <2>2, <2>3, Zenon
<1> QED
  BY <1>12, <1>13, Zenon

\* So does every step.
LEMMA BooksStep ==
  ASSUME OnePayer, AtomicSettle, ~LostReply, ContractInv, ResolvedOnce, Books, [Next]_vars
  PROVE  Books'
<1> SUFFICES ASSUME NEW c \in Accounts
             PROVE  Funds(c)' + SumFunctionOnSet(Charges', SentBy(c)) = Opening(c)
  BY Zenon DEF Books
<1>1. ASSUME UNCHANGED balance, \A b \in Attempts : ChargeOf(b)' = ChargeOf(b)
      PROVE  Funds(c)' + SumFunctionOnSet(Charges', SentBy(c)) = Opening(c)
  <2>1. Charges' = Charges /\ Funds(c)' = Funds(c)
    BY <1>1, ZenonT(60) DEF Charges, Funds
  <2> QED
    BY <2>1, Zenon DEF Books
<1>2. CASE UNCHANGED vars
  <2>1. UNCHANGED balance /\ \A b \in Attempts : ChargeOf(b)' = ChargeOf(b)
    BY <1>2, ZenonT(60) DEF vars, ledgerVars, lndVars, ChargeOf
  <2> QED
    BY <1>1, <2>1, Zenon
<1>3. CASE Next
  BY <1>1, <1>3, MoneyMoves, MovesKeepBooks, ZenonT(60)
<1> QED
  BY <1>2, <1>3, Zenon

\* The charges of an account cover what lnd spent for it.
LEMMA ChargesCover ==
  ASSUME ContractInv, ResolvedOnce, NEW c \in Accounts
  PROVE  Delivered(c) + InFlight(c) <= SumFunctionOnSet(Charges, SentBy(c))
<1> DEFINE S == SentBy(c)
           A == {a \in S : htlc[a] = "settled"}
           B == {a \in S : htlc[a] = "inflight"}
           d == [a \in Attempts |-> Amount + fee[a]]
<1>1. IsFiniteSet(S) /\ S \in SUBSET Attempts
  BY AccountFinite, Zenon
<1>2. A \in SUBSET S /\ B \in SUBSET S /\ A \cap B = {}
  OBVIOUS
<1>3. \A a \in S : Charges[a] \in Int /\ 0 <= Charges[a]
  BY <1>1, SummedTypes, ZenonT(60)
<1>4. Cost \in Int /\ \A a \in Attempts : Amount + fee[a] \in Int /\ d[a] = Amount + fee[a]
  BY SendAssumption DEF Cost, ContractInv, TypeInv, RequestTypes
<1>5. \A a \in A : d[a] \in Int /\ d[a] <= Charges[a]
  <2> SUFFICES ASSUME NEW a \in A PROVE d[a] \in Int /\ d[a] <= Charges[a]
    BY Zenon
  <2>1. a \in Attempts /\ htlc[a] = "settled"
    BY <1>1, Zenon
  <2>2. ChargeOf(a) >= Amount + fee[a] /\ ChargeOf(a) \in Nat /\ Charges[a] = ChargeOf(a)
    BY <2>1, Charged, SummedTypes, Zenon
  <2>3. d[a] = Amount + fee[a] /\ Amount + fee[a] \in Int
    BY <1>4, <2>1, Zenon
  <2> HIDE DEF d
  <2> QED
    BY <2>2, <2>3, Zenon
<1>6. \A a \in B : Cost <= Charges[a]
  <2> SUFFICES ASSUME NEW a \in B PROVE Cost <= Charges[a]
    BY Zenon
  <2>1. a \in Attempts /\ htlc[a] = "inflight"
    BY <1>1, Zenon
  <2>2. Charges[a] = Cost
    BY <2>1, Charged, SummedTypes, ZenonT(60)
  <2>3. Cost <= Cost
    BY <1>4, SMT
  <2> QED
    BY <2>2, <2>3, Zenon
<1>7. Delivered(c) = SumFunctionOnSet(d, A) /\ InFlight(c) = Cost * Cardinality(B)
  BY Zenon DEF Delivered, InFlight
<1> HIDE DEF S, A, B, d
<1>8. SumFunctionOnSet(d, A) + Cost * Cardinality(B) <= SumFunctionOnSet(Charges, S)
  BY <1>1, <1>2, <1>3, <1>4, <1>5, <1>6, SumCovers, ZenonT(60)
<1> QED
  BY <1>7, <1>8, Zenon DEF S

\* The books always hold.
LEMMA BooksKept ==
  ASSUME OnePayer, AtomicSettle, ~LostReply
  PROVE  Spec => []BooksInv
<1>1. Init => Books
  BY BooksInit
<1>2. ContractInv /\ ResolvedOnce /\ Books /\ [Next]_vars => Books'
  BY BooksStep, Zenon
<1>3. Spec => []ResolvedOnce
  BY ClosedOnce, Zenon
<1>4. ContractInv /\ [Next]_vars => ContractInv'
  BY ContractInvStep
<1> QED
  BY <1>1, <1>2, <1>3, <1>4, ContractInvInit, PTL DEF Spec, BooksInv

\* No interleaving of senders, reconcilers, crashes and expiring locks makes the bank pay:
\* what lnd delivered and all it may still deliver has been taken from the account that
\* sent it, however many wallets, payments and reconcilers there are.
THEOREM BankIsCovered ==
  ASSUME OnePayer, AtomicSettle, ~LostReply
  PROVE  Spec => []BankCovered
<1>1. ASSUME BooksInv PROVE BankCovered
  <2> SUFFICES ASSUME NEW c \in Accounts PROVE Funds(c) + Delivered(c) + InFlight(c) <= Opening(c)
    BY Zenon DEF BankCovered
  <2>1. Funds(c) + SumFunctionOnSet(Charges, SentBy(c)) = Opening(c)
    BY <1>1, Zenon DEF BooksInv, Books
  <2>2. Delivered(c) + InFlight(c) <= SumFunctionOnSet(Charges, SentBy(c))
    BY <1>1, ChargesCover, Zenon DEF BooksInv
  <2>3. /\ Funds(c) \in Int /\ SumFunctionOnSet(Charges, SentBy(c)) \in Int
        /\ Delivered(c) \in Int /\ InFlight(c) \in Int
    BY <1>1, SumsTyped, Zenon DEF BooksInv
  <2> QED
    BY <2>1, <2>2, <2>3, SMT
<1> QED
  BY <1>1, BooksKept, PTL

\* Once nothing is left to do every payment is charged what lnd spent on it.
LEMMA QuietCharge ==
  ASSUME ContractInv, ResolvedOnce, Finished, Quiescent, NEW a \in Attempts
  PROVE  ChargeOf(a) = IF htlc[a] = "settled" THEN Amount + fee[a] ELSE 0
<1>1. /\ ChargeOf(a) \in Nat
      /\ htlc[a] = "settled" => ChargeOf(a) >= Amount + fee[a]
      /\ htlc[a] = "settled" /\ feeBacks[a] = 1 => ChargeOf(a) = Amount + fee[a]
      /\ Refunded(a) => ChargeOf(a) = 0
  BY Charged, Zenon
<1>2. CASE journal[a] = "none"
  <2>1. ChargeOf(a) = 0 /\ htlc[a] = "none"
    BY <1>2, ZenonT(60) DEF ChargeOf, ContractInv, LndAgrees
  <2> QED
    BY <2>1, Zenon
<1>3. CASE journal[a] # "none"
  <2>1. journal[a] = "settled" /\ pc[a] = "done" /\ \A k \in Workers : wpc[k] = "idle"
    BY <1>3, ZenonT(60) DEF Quiescent
  <2>2. ~ToClose(a)
    BY <2>1, ZenonT(60) DEF ToClose, Closing
  <2>3. SettledUp(a)
    BY <2>2, Zenon DEF Finished
  <2>4. CASE htlc[a] # "settled"
    BY <1>1, <2>3, <2>4, Zenon DEF SettledUp
  <2>5. CASE htlc[a] = "settled" /\ feeBacks[a] = 1
    BY <1>1, <2>5, Zenon
  <2>6. CASE htlc[a] = "settled" /\ feeBacks[a] # 1 /\ fee[a] = MaxFee
    <3>1. Fresh(a)
      <4>1. ~Refunded(a)
        BY <2>6, ZenonT(60) DEF ContractInv, LndAgrees
      <4> QED
        BY <2>6, <4>1, SMT DEF Fresh, Refunded, ResolvedOnce, ContractInv, TypeInv, LedgerTypes
    <3>2. ChargeOf(a) = Cost
      BY <1>3, <3>1, FreshCharge, Zenon
    <3> QED
      BY <2>6, <3>2, Zenon DEF Cost
  <2> QED
    BY <2>3, <2>4, <2>5, <2>6, Zenon DEF SettledUp
<1> QED
  BY <1>2, <1>3, Zenon

\* When every request has returned and no payment is pending the accounts hold exactly
\* what lnd did not spend, provided that no process dies between settling a journal and
\* reverting or reimbursing it: there the code leaves nothing for a reconciler to find.
THEOREM BooksMatchNetwork ==
  ASSUME OnePayer, AtomicSettle, ~LostReply, "resolve" \notin StopAt
  PROVE  Spec => []LedgerMatchesNetwork
<1>1. Init => Finished
  BY SendAssumption, ZenonT(60) DEF Init, Finished, RoutedFee, ToClose
<1>2. ContractInv /\ Finished /\ [Next]_vars => Finished'
  BY FinishedStep, Zenon
<1>3. ASSUME BooksInv, Finished PROVE LedgerMatchesNetwork
  <2> SUFFICES ASSUME Quiescent, NEW c \in Accounts PROVE Funds(c) + Delivered(c) = Opening(c)
    BY Zenon DEF LedgerMatchesNetwork
  <2> DEFINE d == [a \in Attempts |-> Amount + fee[a]]
             A == {a \in SentBy(c) : htlc[a] = "settled"}
  <2>1. Funds(c) + SumFunctionOnSet(Charges, SentBy(c)) = Opening(c)
    BY <1>3, Zenon DEF BooksInv, Books
  <2>2. IsFiniteSet(SentBy(c)) /\ SentBy(c) \in SUBSET Attempts /\ A \in SUBSET SentBy(c)
    BY AccountFinite, ZenonT(60)
  <2>3. \A a \in SentBy(c) : Charges[a] = IF a \in A THEN d[a] ELSE 0
    <3> SUFFICES ASSUME NEW a \in SentBy(c) PROVE Charges[a] = IF a \in A THEN d[a] ELSE 0
      BY Zenon
    <3>1. a \in Attempts
      BY <2>2, Zenon
    <3>2. Charges[a] = IF htlc[a] = "settled" THEN Amount + fee[a] ELSE 0
      BY <1>3, <3>1, QuietCharge, Zenon DEF BooksInv, Charges
    <3> QED
      BY <3>1, <3>2, Zenon
  <2>4. \A a \in A : d[a] \in Int
    <3>1. \A a \in Attempts : Amount + fee[a] \in Int
      BY <1>3, SendAssumption DEF BooksInv, ContractInv, TypeInv, RequestTypes
    <3> QED
      BY <2>2, <3>1, ZenonT(60)
  <2>5. Delivered(c) = SumFunctionOnSet(d, A)
    BY Zenon DEF Delivered
  <2> HIDE DEF d, A
  <2>6. SumFunctionOnSet(d, A) = SumFunctionOnSet(Charges, SentBy(c))
    BY <2>2, <2>3, <2>4, SumPart, SMT
  <2> QED
    BY <2>1, <2>5, <2>6, Zenon
<1>4. ContractInv /\ [Next]_vars => ContractInv'
  BY ContractInvStep, Zenon
<1> QED
  BY <1>1, <1>2, <1>3, <1>4, ContractInvInit, BooksKept, PTL DEF Spec
=============================================================================
