------------------------------- MODULE LnSend -------------------------------
(***************************************************************************)
(* Sending over the lightning network: executePaymentViaLn, one process    *)
(* per API request, and updatePendingPayment, the reconciler that cron and *)
(* every balance query run, over the medici ledger, the redlock locks and  *)
(* lnd.  A request is also the id of the journal it records.               *)
(*                                                                         *)
(* Amounts are in one unit (the price is constant), every payment has the  *)
(* same amount and the same protocol fee, and a balance is what            *)
(* getWalletBalanceAmount sums: every entry of the wallet, pending or not. *)
(***************************************************************************)
EXTENDS Integers, FiniteSets, Functions

CONSTANTS
  Wallets,        \* wallets of end users
  UsdWallets,     \* those in USD; their journals have legs of the dealer's wallets too
  Dealer,         \* the dealer's wallets, as one owner of pending ledger legs
  BtcWalletOf,    \* the BTC wallet of the account of a wallet
  Hashes,         \* payment hashes
  Attempts,       \* payment requests, and the journals they record
  WalletOf,       \* the sender wallet of a request
  HashOf,         \* the payment hash a request pays
  Routed,         \* requests with a probed route: feeKnownInAdvance
  Workers,        \* concurrent runs of updatePendingPaymentsByWalletId
  Amount, MaxFee, \* amount and protocol fee of a payment
  InitBalance,    \* balance of every wallet before the first request
  Limit,          \* withdrawalLimit of the account level
  StopAt,         \* control points where a process may crash or lose the database
  LostReply,      \* lnd's connection may drop while a payment is sent
  WalletLockExpires, HashLockExpires,  \* redlock may fail to extend a lock
  AtomicSettle,   \* updateMany flips all the legs of a journal at once
  None            \* no holder, no job

ASSUME SendAssumption ==
  /\ UsdWallets \subseteq Wallets
  /\ BtcWalletOf \in [Wallets -> Wallets]
  /\ WalletOf \in [Attempts -> Wallets]
  /\ HashOf \in [Attempts -> Hashes]
  /\ Routed \subseteq Attempts
  /\ Dealer \notin Wallets
  /\ None \notin Attempts \cup Workers \cup Wallets \cup {Dealer}
  /\ Amount \in Nat /\ MaxFee \in Nat /\ InitBalance \in Nat /\ Limit \in Nat
  /\ LostReply \in BOOLEAN /\ AtomicSettle \in BOOLEAN
  /\ WalletLockExpires \in BOOLEAN /\ HashLockExpires \in BOOLEAN

\* Sums over the wallets and payments of an account are defined, and the account of a
\* wallet, known by its BTC wallet, is the account of that BTC wallet.
ASSUME AccountAssumption ==
  /\ IsFiniteSet(Wallets) /\ IsFiniteSet(Attempts)
  /\ \A w \in Wallets : BtcWalletOf[BtcWalletOf[w]] = BtcWalletOf[w]

VARIABLES
  walletLock,   \* holder of lockWalletId
  hashLock,     \* holder of lockPaymentHash
  balance,      \* ledger balance of each wallet
  journal,      \* legs of a journal: none, all pending, some pending, none pending
  voided,       \* journals voided by MainBook.void
  credits,      \* number of reimburseFailedUsdPayment entries related to a journal
  feeBacks,     \* number of fee reimbursement entries related to a journal
  htlc,         \* lnd's record of the payment a request started
  fee,          \* fee lnd paid for it
  pc, result,   \* control point of a request, and its payResult
  wpc,          \* control point of a reconciler
  owner, todo,  \* wallet it updates, and the rest of its snapshot of pending payments
  job, seen,    \* payment it is at, and the status lnd gave for it
  payer,        \* request whose payment flow it settles
  flowPending,  \* payment flows with paymentSentAndPending
  flowWrite     \* requests whose unawaited updateLightningPaymentFlow is in flight

lockVars == <<walletLock, hashLock>>
ledgerVars == <<balance, journal, voided, credits, feeBacks>>
lndVars == <<htlc, fee>>
requestVars == <<pc, result>>
workerVars == <<wpc, owner, todo, job, seen, payer>>
flowVars == <<flowPending, flowWrite>>
vars == <<lockVars, ledgerVars, lndVars, requestVars, workerVars, flowVars>>

RequestPoints == {"request", "wantLock", "checkPending", "checkBalance", "checkSignal",
                  "record", "pay", "paying", "settle", "settleRest", "settleWon",
                  "resolve", "done"}
WorkerPoints == {"idle", "next", "lookup", "wantLock", "checkRecorded", "markFlow",
                 "settle", "settleRest", "settleWon", "resolve"}

(* Types of all the variables. *)
TypeOK ==
  /\ walletLock \in [Wallets -> Attempts \cup {None}]
  /\ hashLock \in [Hashes -> Workers \cup {None}]
  /\ balance \in [Wallets -> Int]
  /\ journal \in [Attempts -> {"none", "pending", "half", "settled"}]
  /\ voided \subseteq Attempts
  /\ credits \in [Attempts -> Nat]
  /\ feeBacks \in [Attempts -> Nat]
  /\ htlc \in [Attempts -> {"none", "inflight", "settled", "failed"}]
  /\ fee \in [Attempts -> 0..MaxFee]
  /\ pc \in [Attempts -> RequestPoints]
  /\ result \in [Attempts -> {"none", "paid", "failed"}]
  /\ wpc \in [Workers -> WorkerPoints]
  /\ owner \in [Workers -> Wallets \cup {Dealer, None}]
  /\ todo \in [Workers -> SUBSET Attempts]
  /\ job \in [Workers -> Attempts \cup {None}]
  /\ seen \in [Workers -> {"none", "settled", "failed"}]
  /\ payer \in [Workers -> Attempts \cup {None}]
  /\ flowPending \subseteq Wallets \X Hashes
  /\ flowWrite \subseteq Attempts

Init ==
  /\ walletLock = [w \in Wallets |-> None]
  /\ hashLock = [h \in Hashes |-> None]
  /\ balance = [w \in Wallets |-> InitBalance]
  /\ journal = [a \in Attempts |-> "none"]
  /\ voided = {}
  /\ credits = [a \in Attempts |-> 0]
  /\ feeBacks = [a \in Attempts |-> 0]
  /\ htlc = [a \in Attempts |-> "none"]
  /\ fee = [a \in Attempts |-> 0]
  /\ pc = [a \in Attempts |-> "request"]
  /\ result = [a \in Attempts |-> "none"]
  /\ wpc = [k \in Workers |-> "idle"]
  /\ owner = [k \in Workers |-> None]
  /\ todo = [k \in Workers |-> {}]
  /\ job = [k \in Workers |-> None]
  /\ seen = [k \in Workers |-> "none"]
  /\ payer = [k \in Workers |-> None]
  /\ flowPending = {}
  /\ flowWrite = {}

-----------------------------------------------------------------------------
(* The ledger and lnd, as the code reads them. *)

Cost == Amount + MaxFee
KeyOf(a) == <<WalletOf[a], HashOf[a]>>
SameHash(h) == {b \in Attempts : HashOf[b] = h}

\* Requests with a leg still pending: what settling by hash modifies.
PendingIn(h) == {b \in SameHash(h) : journal[b] \in {"pending", "half"}}

\* Mutant: the query forgets that pending entries do not count.
IsLnTxRecordedAny(h) == \E b \in SameHash(h) : journal[b] # "none"

\* isLnTxRecorded: some entry with this hash is not pending.
IsLnTxRecorded(h) == \E b \in SameHash(h) : journal[b] \in {"half", "settled"}

\* listPendingPayments: the pending legs of a wallet of a user or of the dealer.
PendingOf(w) ==
  {a \in Attempts : /\ journal[a] \in {"pending", "half"}
                    /\ w = WalletOf[a] \/ (w = Dealer /\ WalletOf[a] \in UsdWallets)}

\* externalPaymentVolumeAmountSince: what the wallet was debited, voided or not.
Volume(w) == Cost * Cardinality({a \in Attempts : WalletOf[a] = w /\ journal[a] # "none"})

\* lnd keeps one payment per hash; a failed one may be paid again.
LnStatus(h) ==
  IF \E b \in SameHash(h) : htlc[b] = "inflight" THEN "inflight"
  ELSE IF \E b \in SameHash(h) : htlc[b] = "settled" THEN "settled"
  ELSE IF \E b \in SameHash(h) : htlc[b] = "failed" THEN "failed"
  ELSE "none"

PaidFee(h) == fee[CHOOSE b \in SameHash(h) : htlc[b] = "settled"]

Credit(w, n) == balance' = [balance EXCEPT ![w] = @ + n]

\* updateMany({ hash }, { pending: false }), whole or only the first legs.
FlipAll(h) ==
  journal' = [b \in Attempts |-> IF b \in PendingIn(h) THEN "settled" ELSE journal[b]]
FlipFirst(h) ==
  journal' = [b \in Attempts |-> IF b \in PendingIn(h) THEN "half" ELSE journal[b]]

\* reimburseFee: the part of the prepaid fee that was not spent, if any.
ReimburseFee(a, p) ==
  LET diff == MaxFee - PaidFee(HashOf[p]) IN
  IF diff > 0
  THEN /\ Credit(WalletOf[p], diff)
       /\ feeBacks' = [feeBacks EXCEPT ![a] = @ + 1]
  ELSE UNCHANGED <<balance, feeBacks>>

\* MainBook.void: posts the opposite entries, and throws on a voided journal.
Void(a) ==
  IF a \in voided
  THEN UNCHANGED <<balance, voided>>
  ELSE Credit(WalletOf[a], Cost) /\ voided' = voided \cup {a}

\* reimburseFailedUsdPayment: amount and fee go to the account's BTC wallet.
ReimburseFailedUsdPayment(a, p) ==
  /\ Credit(BtcWalletOf[WalletOf[p]], Cost)
  /\ credits' = [credits EXCEPT ![a] = @ + 1]

-----------------------------------------------------------------------------
(* executePaymentViaLn *)

Goto(a, point) == pc' = [pc EXCEPT ![a] = point]

Unlock(a) ==
  walletLock' = [walletLock EXCEPT ![WalletOf[a]] = IF @ = a THEN None ELSE @]

Return(a) == Goto(a, "done") /\ Unlock(a)

\* newCheckWithdrawalLimits, before the wallet is locked.
CheckLimits(a) ==
  /\ pc[a] = "request"
  /\ Goto(a, IF Limit - Volume(WalletOf[a]) < Amount THEN "done" ELSE "wantLock")
  /\ UNCHANGED <<lockVars, ledgerVars, lndVars, result, workerVars, flowVars>>

\* Mutant: the callback runs whoever holds the lock.
LockWalletIdAlways(a) ==
  /\ pc[a] = "wantLock"
  /\ walletLock' = [walletLock EXCEPT ![WalletOf[a]] = a]
  /\ Goto(a, "checkPending")
  /\ UNCHANGED <<hashLock, ledgerVars, lndVars, result, workerVars, flowVars>>

\* lockWalletId: acquired when free; an error after the retries while it is held.
LockWalletId(a) ==
  /\ pc[a] = "wantLock"
  /\ IF walletLock[WalletOf[a]] = None
     THEN /\ walletLock' = [walletLock EXCEPT ![WalletOf[a]] = a]
          /\ Goto(a, "checkPending")
     ELSE Goto(a, "done") /\ UNCHANGED walletLock
  /\ UNCHANGED <<hashLock, ledgerVars, lndVars, result, workerVars, flowVars>>

\* Mutant: no check for a payment in transit.
CheckInTransitNever(a) ==
  /\ pc[a] = "checkPending"
  /\ Goto(a, "checkBalance")
  /\ UNCHANGED <<lockVars, ledgerVars, lndVars, result, workerVars, flowVars>>

\* A pending entry with the hash, of any wallet: LnPaymentRequestInTransitError.  The
\* legs of a wallet may be the settled ones of a journal that is half settled.
CheckInTransit(a) ==
  /\ pc[a] = "checkPending"
  /\ \/ PendingIn(HashOf[a]) # {} /\ Return(a)
     \/ /\ \A b \in PendingIn(HashOf[a]) : journal[b] = "half"
        /\ Goto(a, "checkBalance") /\ UNCHANGED walletLock
  /\ UNCHANGED <<hashLock, ledgerVars, lndVars, result, workerVars, flowVars>>

\* checkBalanceForSend
CheckBalance(a) ==
  /\ pc[a] = "checkBalance"
  /\ IF balance[WalletOf[a]] < Cost
     THEN Return(a)
     ELSE Goto(a, "checkSignal") /\ UNCHANGED walletLock
  /\ UNCHANGED <<hashLock, ledgerVars, lndVars, result, workerVars, flowVars>>

\* signal.aborted is set once the lock is lost.
CheckSignal(a) ==
  /\ pc[a] = "checkSignal"
  /\ Goto(a, IF walletLock[WalletOf[a]] # a THEN "done" ELSE "record")
  /\ UNCHANGED <<lockVars, ledgerVars, lndVars, result, workerVars, flowVars>>

\* LedgerFacade.recordSend: a pending journal of the amount and the protocol fee.
RecordSend(a) ==
  /\ pc[a] = "record"
  /\ journal' = [journal EXCEPT ![a] = "pending"]
  /\ Credit(WalletOf[a], -Cost)
  /\ Goto(a, "pay")
  /\ UNCHANGED <<lockVars, voided, credits, feeBacks, lndVars, result, workerVars, flowVars>>

\* payInvoiceViaRoutes, payInvoiceViaPaymentDetails: lnd takes the payment of a
\* hash it is not paying and has not paid, or turns it down.
Pay(a) ==
  /\ pc[a] = "pay"
  /\ \/ /\ LnStatus(HashOf[a]) \in {"none", "failed"}
        /\ htlc' = [htlc EXCEPT ![a] = "inflight"]
        /\ Goto(a, "paying")
        /\ UNCHANGED result
     \/ /\ \/ LnStatus(HashOf[a]) \in {"none", "failed"}
              /\ \E s \in {"none", "failed"} : htlc' = [htlc EXCEPT ![a] = s]
           \/ LnStatus(HashOf[a]) \in {"inflight", "settled"}
              /\ UNCHANGED htlc
        /\ result' = [result EXCEPT ![a] = "failed"]
        /\ Goto(a, "settle")
  /\ UNCHANGED <<lockVars, ledgerVars, fee, workerVars, flowVars>>

\* lnd's answer
PayReturns(a) ==
  /\ pc[a] = "paying"
  /\ htlc[a] \in {"settled", "failed"}
  /\ result' = [result EXCEPT ![a] = IF htlc[a] = "settled" THEN "paid" ELSE "failed"]
  /\ Goto(a, "settle")
  /\ UNCHANGED <<lockVars, ledgerVars, lndVars, workerVars, flowVars>>

\* A dropped connection is an error like any other: the payment counts as failed.
ReplyLost(a) ==
  /\ LostReply
  /\ pc[a] = "paying"
  /\ result' = [result EXCEPT ![a] = "failed"]
  /\ Goto(a, "settle")
  /\ UNCHANGED <<lockVars, ledgerVars, lndVars, workerVars, flowVars>>

\* Mutant: a timeout is handled like any other error of lnd.
PayTimesOutAsFailure(a) ==
  /\ pc[a] = "paying"
  /\ result' = [result EXCEPT ![a] = "failed"]
  /\ Goto(a, "settle")
  /\ UNCHANGED <<lockVars, ledgerVars, lndVars, workerVars, flowVars>>

\* TIMEOUT_PAYMENT: the write of the flow is not awaited.
PayTimesOut(a) ==
  /\ pc[a] = "paying"
  /\ flowWrite' = flowWrite \cup {a}
  /\ Return(a)
  /\ UNCHANGED <<hashLock, ledgerVars, lndVars, result, workerVars, flowPending>>

FlowWriteLands(a) ==
  /\ a \in flowWrite
  /\ flowWrite' = flowWrite \ {a}
  /\ flowPending' = flowPending \cup {KeyOf(a)}
  /\ UNCHANGED <<lockVars, ledgerVars, lndVars, requestVars, workerVars>>

\* Mutant: modifiedCount is not looked at.
SettlePendingLnSendBlind(a) ==
  /\ pc[a] = "settle"
  /\ FlipAll(HashOf[a])
  /\ Goto(a, "resolve")
  /\ UNCHANGED <<lockVars, balance, voided, credits, feeBacks, lndVars, result, workerVars, flowVars>>

\* settlePendingLnSend: nothing modified is NoTransactionToSettleError.
SettlePendingLnSend(a) ==
  /\ pc[a] = "settle"
  /\ IF PendingIn(HashOf[a]) = {}
     THEN Return(a) /\ UNCHANGED journal
     ELSE /\ UNCHANGED walletLock
          /\ IF AtomicSettle
             THEN FlipAll(HashOf[a]) /\ Goto(a, "resolve")
             ELSE /\ FlipFirst(HashOf[a])
                  /\ Goto(a, IF \E b \in PendingIn(HashOf[a]) : journal[b] = "pending"
                             THEN "settleWon" ELSE "settleRest")
  /\ UNCHANGED <<hashLock, balance, voided, credits, feeBacks, lndVars, result, workerVars, flowVars>>

\* The rest of an updateMany that is not atomic.
SettleRest(a) ==
  /\ pc[a] \in {"settleWon", "settleRest"}
  /\ FlipAll(HashOf[a])
  /\ IF pc[a] = "settleWon" \/ PendingIn(HashOf[a]) # {}
     THEN Goto(a, "resolve") /\ UNCHANGED walletLock
     ELSE Return(a)
  /\ UNCHANGED <<hashLock, balance, voided, credits, feeBacks, lndVars, result, workerVars, flowVars>>

\* Mutant: a failed payment is settled and not reverted.
ResolveSendWithoutRevert(a) ==
  /\ pc[a] = "resolve"
  /\ Return(a)
  /\ UNCHANGED <<hashLock, ledgerVars, lndVars, result, workerVars, flowVars>>

\* recordLnSendRevert after any error, reimburseFee after a success without a route.
ResolveSend(a) ==
  /\ pc[a] = "resolve"
  /\ \/ result[a] = "failed" /\ Void(a) /\ UNCHANGED feeBacks
     \/ result[a] = "paid" /\ a \notin Routed /\ ReimburseFee(a, a) /\ UNCHANGED voided
     \/ result[a] = "paid" /\ a \in Routed /\ UNCHANGED <<balance, feeBacks, voided>>
  /\ Return(a)
  /\ UNCHANGED <<hashLock, journal, credits, lndVars, result, workerVars, flowVars>>

-----------------------------------------------------------------------------
(* updatePendingPaymentsByWalletId and updatePendingPayment *)

WGoto(k, point) == wpc' = [wpc EXCEPT ![k] = point]

WUnlock(k) ==
  hashLock' = [h \in Hashes |-> IF hashLock[h] = k THEN None ELSE hashLock[h]]

\* The payment at hand is dealt with, or left for a later run.
NextJob(k) ==
  /\ WGoto(k, IF todo[k] = {} THEN "idle" ELSE "next")
  /\ owner' = [owner EXCEPT ![k] = IF todo[k] = {} THEN None ELSE @]
  /\ job' = [job EXCEPT ![k] = None]
  /\ seen' = [seen EXCEPT ![k] = "none"]
  /\ payer' = [payer EXCEPT ![k] = None]
  /\ WUnlock(k)
  /\ UNCHANGED todo

\* The snapshot of the pending payments of one wallet.
ListPendingPayments(k, w) ==
  /\ wpc[k] = "idle"
  /\ PendingOf(w) # {}
  /\ owner' = [owner EXCEPT ![k] = w]
  /\ todo' = [todo EXCEPT ![k] = PendingOf(w)]
  /\ WGoto(k, "next")
  /\ UNCHANGED <<lockVars, ledgerVars, lndVars, requestVars, job, seen, payer, flowVars>>

TakePayment(k) ==
  /\ wpc[k] = "next"
  /\ \E a \in todo[k] :
       /\ job' = [job EXCEPT ![k] = a]
       /\ todo' = [todo EXCEPT ![k] = @ \ {a}]
  /\ WGoto(k, "lookup")
  /\ UNCHANGED <<lockVars, ledgerVars, lndVars, requestVars, owner, seen, payer, flowVars>>

\* lookupPayment: an error or a payment still pending ends the visit.
LookupPayment(k) ==
  /\ wpc[k] = "lookup"
  /\ LET s == LnStatus(HashOf[job[k]]) IN
     IF s \in {"settled", "failed"}
     THEN /\ seen' = [seen EXCEPT ![k] = s]
          /\ WGoto(k, "wantLock")
          /\ UNCHANGED <<hashLock, owner, todo, job, payer>>
     ELSE NextJob(k)
  /\ UNCHANGED <<walletLock, ledgerVars, lndVars, requestVars, flowVars>>

\* lockPaymentHash
LockPaymentHash(k) ==
  /\ wpc[k] = "wantLock"
  /\ hashLock[HashOf[job[k]]] = None
  /\ hashLock' = [hashLock EXCEPT ![HashOf[job[k]]] = k]
  /\ WGoto(k, "checkRecorded")
  /\ UNCHANGED <<walletLock, ledgerVars, lndVars, requestVars, owner, todo, job, seen, payer, flowVars>>

LockPaymentHashFails(k) ==
  /\ wpc[k] = "wantLock"
  /\ hashLock[HashOf[job[k]]] # None
  /\ NextJob(k)
  /\ UNCHANGED <<walletLock, ledgerVars, lndVars, requestVars, flowVars>>

\* isLnTxRecorded: "payment has already been processed".
CheckRecorded(k) ==
  /\ wpc[k] = "checkRecorded"
  /\ IF IsLnTxRecorded(HashOf[job[k]])
     THEN NextJob(k)
     ELSE WGoto(k, "markFlow") /\ UNCHANGED <<hashLock, owner, todo, job, seen, payer>>
  /\ UNCHANGED <<walletLock, ledgerVars, lndVars, requestVars, flowVars>>

\* markLightningPaymentFlowNotPending finds the flow of the wallet the run is for.  The
\* dealer has none, and a flow that is not pending may have expired:
\* reconstructPendingPaymentFlow then takes any pending payment of the hash.
MarkFlow(k) ==
  /\ wpc[k] = "markFlow"
  /\ \/ /\ owner[k] # Dealer
        /\ payer' = [payer EXCEPT ![k] = job[k]]
        /\ flowPending' = flowPending \ {KeyOf(job[k])}
        /\ WGoto(k, "settle")
        /\ UNCHANGED <<hashLock, owner, todo, job, seen>>
     \/ /\ owner[k] = Dealer \/ KeyOf(job[k]) \notin flowPending
        /\ \E b \in PendingIn(HashOf[job[k]]) : payer' = [payer EXCEPT ![k] = b]
        /\ WGoto(k, "settle")
        /\ UNCHANGED <<hashLock, owner, todo, job, seen, flowPending>>
     \/ /\ owner[k] = Dealer \/ KeyOf(job[k]) \notin flowPending
        /\ PendingIn(HashOf[job[k]]) = {}
        /\ NextJob(k)
        /\ UNCHANGED flowPending
  /\ UNCHANGED <<walletLock, ledgerVars, lndVars, requestVars, flowWrite>>

\* Mutant: modifiedCount is not looked at.
SettlePendingLnPaymentBlind(k) ==
  /\ wpc[k] = "settle"
  /\ FlipAll(HashOf[job[k]])
  /\ WGoto(k, "resolve")
  /\ UNCHANGED <<lockVars, balance, voided, credits, feeBacks, lndVars, requestVars>>
  /\ UNCHANGED <<owner, todo, job, seen, payer, flowVars>>

\* settlePendingLnPayment: the same updateMany as the sender's.
SettlePendingLnPayment(k) ==
  /\ wpc[k] = "settle"
  /\ LET h == HashOf[job[k]] IN
     IF PendingIn(h) = {}
     THEN NextJob(k) /\ UNCHANGED journal
     ELSE /\ UNCHANGED <<hashLock, owner, todo, job, seen, payer>>
          /\ IF AtomicSettle
             THEN FlipAll(h) /\ WGoto(k, "resolve")
             ELSE /\ FlipFirst(h)
                  /\ WGoto(k, IF \E b \in PendingIn(h) : journal[b] = "pending"
                              THEN "settleWon" ELSE "settleRest")
  /\ UNCHANGED <<walletLock, balance, voided, credits, feeBacks, lndVars, requestVars, flowVars>>

WSettleRest(k) ==
  /\ wpc[k] \in {"settleWon", "settleRest"}
  /\ FlipAll(HashOf[job[k]])
  /\ IF wpc[k] = "settleWon" \/ PendingIn(HashOf[job[k]]) # {}
     THEN WGoto(k, "resolve") /\ UNCHANGED <<hashLock, owner, todo, job, seen, payer>>
     ELSE NextJob(k)
  /\ UNCHANGED <<walletLock, balance, voided, credits, feeBacks, lndVars, requestVars, flowVars>>

\* Mutant: a failed payment is settled and not given back.
ResolvePendingWithoutRefund(k) ==
  /\ wpc[k] = "resolve"
  /\ IF seen[k] = "settled" /\ job[k] \notin Routed
     THEN ReimburseFee(job[k], payer[k])
     ELSE UNCHANGED <<balance, feeBacks>>
  /\ NextJob(k)
  /\ UNCHANGED <<walletLock, journal, voided, credits, lndVars, requestVars, flowVars>>

\* Settled: the fee that was not spent goes back.  Failed: the journal is voided, or
\* the USD payment is credited to the BTC wallet.
ResolvePending(k) ==
  /\ wpc[k] = "resolve"
  /\ LET a == job[k] IN
     \/ /\ seen[k] = "settled"
        /\ IF a \in Routed THEN UNCHANGED <<balance, feeBacks>> ELSE ReimburseFee(a, payer[k])
        /\ UNCHANGED <<voided, credits>>
     \/ /\ seen[k] = "failed" /\ WalletOf[payer[k]] \notin UsdWallets
        /\ Void(a)
        /\ UNCHANGED <<feeBacks, credits>>
     \/ /\ seen[k] = "failed" /\ WalletOf[payer[k]] \in UsdWallets
        /\ ReimburseFailedUsdPayment(a, payer[k])
        /\ UNCHANGED <<feeBacks, voided>>
  /\ NextJob(k)
  /\ UNCHANGED <<walletLock, journal, lndVars, requestVars, flowVars>>

-----------------------------------------------------------------------------
(* lnd, the locks and crashes *)

LndSettles(a) ==
  /\ htlc[a] = "inflight"
  /\ htlc' = [htlc EXCEPT ![a] = "settled"]
  /\ \E f \in IF a \in Routed THEN {MaxFee} ELSE 0..MaxFee : fee' = [fee EXCEPT ![a] = f]
  /\ UNCHANGED <<lockVars, ledgerVars, requestVars, workerVars, flowVars>>

LndFails(a) ==
  /\ htlc[a] = "inflight"
  /\ htlc' = [htlc EXCEPT ![a] = "failed"]
  /\ UNCHANGED <<lockVars, ledgerVars, fee, requestVars, workerVars, flowVars>>

\* A lock that is not extended is free for others while its holder runs on.
LoseWalletLock(a) ==
  /\ WalletLockExpires
  /\ walletLock[WalletOf[a]] = a
  /\ Unlock(a)
  /\ UNCHANGED <<hashLock, ledgerVars, lndVars, requestVars, workerVars, flowVars>>

LoseHashLock(k) ==
  /\ HashLockExpires
  /\ \E h \in Hashes : hashLock[h] = k
  /\ WUnlock(k)
  /\ UNCHANGED <<walletLock, ledgerVars, lndVars, requestVars, workerVars, flowVars>>

\* A crash, or a database error the code returns on; the lock lapses with its ttl.
StopRequest(a) ==
  /\ pc[a] \in StopAt \ {"request", "done"}
  /\ Return(a)
  /\ UNCHANGED <<hashLock, ledgerVars, lndVars, result, workerVars, flowVars>>

StopWorker(k) ==
  /\ wpc[k] \in StopAt \ {"idle", "next"}
  /\ NextJob(k)
  /\ UNCHANGED <<walletLock, ledgerVars, lndVars, requestVars, flowVars>>

\* Nothing is left to do: every request returned and no payment is pending.
Quiescent ==
  /\ \A a \in Attempts : pc[a] = "done" /\ journal[a] \in {"none", "settled"}
                         /\ htlc[a] # "inflight"
  /\ \A k \in Workers : wpc[k] = "idle"
  /\ flowWrite = {}

Done == Quiescent /\ UNCHANGED vars

RequestStep(a) ==
  \/ LockWalletId(a) \/ CheckInTransit(a) \/ CheckBalance(a) \/ CheckSignal(a)
  \/ RecordSend(a) \/ Pay(a) \/ PayReturns(a) \/ PayTimesOut(a)
  \/ SettlePendingLnSend(a) \/ SettleRest(a) \/ ResolveSend(a)

WorkerStep(k) ==
  \/ TakePayment(k) \/ LookupPayment(k) \/ LockPaymentHash(k) \/ LockPaymentHashFails(k)
  \/ CheckRecorded(k) \/ MarkFlow(k) \/ SettlePendingLnPayment(k) \/ WSettleRest(k)
  \/ ResolvePending(k)

Next ==
  \/ \E a \in Attempts :
       \/ CheckLimits(a) \/ RequestStep(a) \/ FlowWriteLands(a)
       \/ LndSettles(a) \/ LndFails(a) \/ ReplyLost(a)
       \/ LoseWalletLock(a) \/ StopRequest(a)
  \/ \E k \in Workers :
       \/ \E w \in Wallets \cup {Dealer} : ListPendingPayments(k, w)
       \/ WorkerStep(k) \/ LoseHashLock(k) \/ StopWorker(k)
  \/ Done

Spec == Init /\ [][Next]_vars

\* Requests run on once started, lnd resolves every payment, cron keeps listing every
\* wallet with pending payments, and a lock that keeps coming free is obtained.
Fairness ==
  /\ \A a \in Attempts : /\ WF_vars(RequestStep(a))
                         /\ WF_vars(LndSettles(a) \/ LndFails(a))
                         /\ WF_vars(FlowWriteLands(a))
  /\ \A k \in Workers : /\ WF_vars(WorkerStep(k))
                        /\ SF_vars(LockPaymentHash(k))
                        /\ \A w \in Wallets : SF_vars(ListPendingPayments(k, w))

FairSpec == Spec /\ Fairness

-----------------------------------------------------------------------------
(* Properties *)

\* checkBalanceForSend under lockWalletId: two requests of one wallet, interleaved with
\* reconcilers, never spend the same balance twice.
NoOverdraft == \A w \in Wallets : balance[w] >= 0

Refunded(a) == a \in voided \/ credits[a] > 0

\* A journal is closed at most once, by its sender or by one reconciler: it is not
\* voided and credited, credited twice, or given back its fee twice.
ResolvedOnce ==
  \A a \in Attempts : (IF a \in voided THEN 1 ELSE 0) + credits[a] + feeBacks[a] <= 1

\* The sender is given the payment back only when lnd can no longer deliver it.
RefundedOnlyIfFailed ==
  \A a \in Attempts : Refunded(a) => htlc[a] \in {"none", "failed"}

AccountOf(w) == BtcWalletOf[w]
Accounts == {AccountOf(w) : w \in Wallets}
WalletsOf(c) == {w \in Wallets : AccountOf(w) = c}
SentBy(c) == {a \in Attempts : AccountOf(WalletOf[a]) = c}
Funds(c) == SumFunctionOnSet(balance, WalletsOf(c))
Opening(c) == InitBalance * Cardinality(WalletsOf(c))
Delivered(c) ==
  SumFunctionOnSet([a \in Attempts |-> Amount + fee[a]], {a \in SentBy(c) : htlc[a] = "settled"})
InFlight(c) == Cost * Cardinality({a \in SentBy(c) : htlc[a] = "inflight"})

\* What lnd delivered, and all it may still deliver, has been taken from the account that
\* sent it: no interleaving of the sender, the reconcilers and crashes makes the bank pay.
BankCovered ==
  \A c \in Accounts : Funds(c) + Delivered(c) + InFlight(c) <= Opening(c)

\* When nothing is left to do the accounts hold exactly what lnd did not spend: no refund
\* and no fee reimbursement is missing.
LedgerMatchesNetwork ==
  Quiescent => \A c \in Accounts : Funds(c) + Delivered(c) = Opening(c)

\* The in-transit check under lockWalletId: a wallet has one pending payment of a hash.
OneInTransit ==
  \A a, b \in Attempts :
    (KeyOf(a) = KeyOf(b) /\ journal[a] = "pending" /\ journal[b] = "pending") => a = b

\* The stage of a payment and what its sender is out of pocket for it.
StageOf(a) ==
  IF Refunded(a) THEN "refunded"
  ELSE IF htlc[a] = "settled" THEN "delivered"
  ELSE IF journal[a] # "none" THEN "held"
  ELSE "idle"

ChargeOf(a) ==
  IF journal[a] = "none" THEN 0
  ELSE Cost - (IF a \in voided THEN Cost ELSE 0) - credits[a] * Cost
            - feeBacks[a] * (MaxFee - fee[a])

C == INSTANCE LnSendContract WITH stage <- [a \in Attempts |-> StageOf(a)],
                                  charge <- [a \in Attempts |-> ChargeOf(a)]

\* The sender and the reconcilers together keep the promise of LnSendContract.
ImplementsContract == C!Spec

\* The limit check leaves a wallet within its withdrawal limit.
WithdrawalLimitRespected ==
  \A w \in Wallets :
    Amount * Cardinality({a \in Attempts : WalletOf[a] = w /\ journal[a] # "none"}) <= Limit

\* Every payment recorded as pending is confirmed in the ledger in the end, by the sender
\* or, after a timeout or a crash of the sender, by a reconciler.
PendingSettles ==
  \A a \in Attempts : journal[a] = "pending" ~> journal[a] = "settled"

\* The sender of a payment that lnd failed gets it back.
FailedRefunded ==
  \A a \in Attempts : (journal[a] # "none" /\ htlc[a] = "failed") ~> Refunded(a)

=============================================================================
