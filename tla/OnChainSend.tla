----------------------------- MODULE OnChainSend -----------------------------
(***************************************************************************)
(* Sending bitcoin on chain: payOnChainByWalletId, one process per API     *)
(* request, either inside the ledger when the address belongs to a wallet  *)
(* of the bank, or through the hot wallet of lnd; the trigger, which       *)
(* settles a payment by the hash of its transaction once that is mined;    *)
(* and rebalanceToColdWallet, the cron job that spends from the same hot   *)
(* wallet.  A request is also the id of the journal it records.            *)
(*                                                                         *)
(* Calls that only read and may end a request early (limits, prices, an    *)
(* aborted lock signal) are a refusal that can happen at the step.         *)
(***************************************************************************)
EXTENDS Integers, FiniteSets

CONSTANTS
  Wallets, Requests,
  WalletOf,                \* the sender's wallet of a request
  Amount,                  \* the amount asked for, unless everything is sent
  InitBalance, InitHot,    \* balance of a wallet, of the hot wallet
  DustThreshold,
  MinMinerFee, MaxMinerFee,   \* lnd's estimates, and what a transaction pays
  WithdrawFee,             \* senderAccount.withdrawFee
  WithdrawDefaultMin,      \* feeConfig.withdrawDefaultMin
  RatioNum, RatioDen,      \* feeConfig.withdrawRatio
  Threshold,               \* feeConfig.withdrawThreshold
  MinImbalance, MaxImbalance,   \* getSwapOutImbalance; 0 with the method "flat"
  MinOnChain, MaxHot, MinRebalance, OffChain,   \* cold storage configuration
  MaxRebalances,           \* bound on runs of rebalanceToColdWallet
  MaxFaults,               \* bound on crashes, failed calls and lost events
  None, Dead               \* a lock that is free, a lock whose holder crashed

ASSUME OnChainSendAssumption ==
  /\ WalletOf \in [Requests -> Wallets]
  /\ {Amount, InitBalance, InitHot, DustThreshold, MinMinerFee, MaxMinerFee, WithdrawFee,
      WithdrawDefaultMin, RatioNum, OffChain, MinOnChain, MaxHot, MinRebalance,
      MaxRebalances, MaxFaults} \subseteq Nat
  /\ RatioDen \in Nat \ {0} /\ {Threshold, MinImbalance, MaxImbalance} \subseteq Int
  /\ MinMinerFee <= MaxMinerFee /\ MinImbalance <= MaxImbalance
  /\ None # Dead /\ None \notin Wallets /\ {None, Dead} \cap Requests = {}

ASSUME RequestsAssumption == IsFiniteSet(Requests)

VARIABLES
  payee,       \* wallet of the address of a request; None: outside the bank
  sendAll,     \* the sendAll flag of a request
  balance,     \* getWalletBalance
  walletLock,  \* holder of lockWalletId
  pc,          \* control point of a request
  stop,        \* where a fault ended it; None: nowhere
  amount,      \* amount, the balance if everything is sent
  toSend,      \* amountToSend
  entry,       \* its journal: sats debited from the wallet, and credited to lnd
  journal,     \* none, pending, closed (not pending), or voided
  hash,        \* hash of its entries: temporary, or the transaction's
  tx,          \* its transaction: none, mempool or mined
  event,       \* the trigger's event that it is mined: none, queued, handled or lost
  hot,         \* balance of lnd's on-chain wallet
  lndBook,     \* balance of the on-chain part of the ledger's lnd account
  rebalance,   \* rebalanceToColdWallet: point, amount, and fee paid
  rebalances,  \* transactions it has sent
  faults

inputVars == <<payee, sendAll>>
ledgerVars == <<balance, entry, journal, hash, lndBook>>
requestVars == <<pc, stop, amount, toSend>>
chainVars == <<tx, event, hot>>
rebalanceVars == <<rebalance, rebalances>>
vars == <<inputVars, ledgerVars, walletLock, requestVars, chainVars, rebalanceVars, faults>>

MinerFees == MinMinerFee..MaxMinerFee
Imbalances == MinImbalance..MaxImbalance
Points == {"request", "estimate", "lock", "balance", "record", "pay", "setHash",
           "revert", "void", "ilock", "ibalance", "itransfer", "done"}
NoEntry == [sats |-> 0, lnd |-> 0]
Idle == [at |-> "idle", sats |-> 0, fee |-> 0]

(* Types of all the variables. *)
TypeOK ==
  /\ payee \in [Requests -> Wallets \cup {None}] /\ sendAll \in [Requests -> BOOLEAN]
  /\ balance \in [Wallets -> Int]
  /\ walletLock \in [Wallets -> Requests \cup {None, Dead}]
  /\ pc \in [Requests -> Points] /\ stop \in [Requests -> Points \cup {None}]
  /\ amount \in [Requests -> Nat] /\ toSend \in [Requests -> Nat]
  /\ entry \in [Requests -> [sats : Nat, lnd : Nat]]
  /\ journal \in [Requests -> {"none", "pending", "closed", "voided"}]
  /\ hash \in [Requests -> {"temporary", "final"}]
  /\ tx \in [Requests -> {"none", "mempool", "mined"}]
  /\ event \in [Requests -> {"none", "queued", "handled", "lost"}]
  /\ hot \in Nat /\ lndBook \in Int
  /\ rebalance \in [at : {"idle", "pay", "record"}, sats : Nat, fee : Nat]
  /\ rebalances \in Nat /\ faults \in 0..MaxFaults

Init ==
  /\ payee \in [Requests -> Wallets \cup {None}] /\ sendAll \in [Requests -> BOOLEAN]
  /\ balance = [w \in Wallets |-> InitBalance]
  /\ walletLock = [w \in Wallets |-> None]
  /\ pc = [r \in Requests |-> "request"] /\ stop = [r \in Requests |-> None]
  /\ amount = [r \in Requests |-> 0] /\ toSend = [r \in Requests |-> 0]
  /\ entry = [r \in Requests |-> NoEntry] /\ journal = [r \in Requests |-> "none"]
  /\ hash = [r \in Requests |-> "temporary"]
  /\ tx = [r \in Requests |-> "none"] /\ event = [r \in Requests |-> "none"]
  /\ hot = InitHot /\ lndBook = InitHot
  /\ rebalance = Idle /\ rebalances = 0 /\ faults = 0

-----------------------------------------------------------------------------
(* Fees *)

Larger(a, b) == IF a < b THEN b ELSE a
Smaller(a, b) == IF a < b THEN a ELSE b

\* onChainWithdrawalFee: the bank's part.
BaseAmount(sats, imbalance) == Larger(Smaller(imbalance - Threshold + sats, sats), 0)
RatioPart(sats) == (sats * RatioNum + RatioDen - 1) \div RatioDen
BankFee(sats, minBankFee, imbalance) ==
  Larger(minBankFee, RatioPart(BaseAmount(sats, imbalance)))

\* getOnChainFee asks with the account's fee, the payment with a default in place of 0.
\* Each estimate reads lnd's fee and the imbalance, a sum over the last days, anew.
EstimatedFee(r, minerFee, imbalance) == BankFee(amount[r], WithdrawFee, imbalance) + minerFee
MinBankFee == IF WithdrawFee = 0 THEN WithdrawDefaultMin ELSE WithdrawFee

-----------------------------------------------------------------------------
(* A request *)

Goto(r, point) == pc' = [pc EXCEPT ![r] = point]
Release(r, next) ==
  walletLock' = [w \in Wallets |-> IF walletLock[w] = r THEN next ELSE walletLock[w]]

\* The request ends and leaves the callback of lockWalletId.
Return(r) == Goto(r, "done") /\ Release(r, None)

\* payOnChainByWalletId up to the choice of the path; SelfPaymentError.
PayOnChainByWalletId(r) ==
  LET sats == IF sendAll[r] THEN balance[WalletOf[r]] ELSE Amount IN
  /\ pc[r] = "request"
  /\ \/ Goto(r, "done") /\ UNCHANGED amount
     \/ /\ sats > 0 /\ payee[r] # WalletOf[r]
        /\ amount' = [amount EXCEPT ![r] = sats]
        /\ Goto(r, IF payee[r] = None THEN "estimate" ELSE "ilock")
  /\ UNCHANGED <<inputVars, ledgerVars, walletLock, stop, toSend, chainVars, rebalanceVars, faults>>

\* The first estimate, getOnChainFee's own checks, RebalanceNeededError and the dust test.
EstimateFee(r) ==
  /\ pc[r] = "estimate"
  /\ \/ Goto(r, "done") /\ UNCHANGED toSend
     \/ \E minerFee \in MinerFees, imbalance \in Imbalances :
          LET fee == EstimatedFee(r, minerFee, imbalance)
              sats == IF sendAll[r] THEN amount[r] - fee ELSE amount[r]
          IN /\ amount[r] >= DustThreshold /\ balance[WalletOf[r]] >= amount[r]
             /\ hot >= sats + fee /\ sats >= DustThreshold
             /\ toSend' = [toSend EXCEPT ![r] = sats]
             /\ Goto(r, "lock")
  /\ UNCHANGED <<inputVars, ledgerVars, walletLock, stop, amount, chainVars, rebalanceVars, faults>>

\* Mutant: the lock is not waited for.
LockWalletIdAlways(r) ==
  /\ pc[r] \in {"lock", "ilock"}
  /\ walletLock' = [walletLock EXCEPT ![WalletOf[r]] = r]
  /\ Goto(r, IF pc[r] = "lock" THEN "balance" ELSE "ibalance")
  /\ UNCHANGED <<inputVars, ledgerVars, stop, amount, toSend, chainVars, rebalanceVars, faults>>

\* lockWalletId of both paths; it is an Error after the retries while the lock is held.
LockWalletId(r) ==
  /\ pc[r] \in {"lock", "ilock"}
  /\ \/ /\ walletLock[WalletOf[r]] = None
        /\ walletLock' = [walletLock EXCEPT ![WalletOf[r]] = r]
        /\ Goto(r, IF pc[r] = "lock" THEN "balance" ELSE "ibalance")
     \/ walletLock[WalletOf[r]] # None /\ Goto(r, "done") /\ UNCHANGED walletLock
  /\ UNCHANGED <<inputVars, ledgerVars, stop, amount, toSend, chainVars, rebalanceVars, faults>>

\* The balance and a second estimate behind the lock.
CheckBalance(r) ==
  /\ pc[r] = "balance"
  /\ \/ Return(r)
     \/ \E minerFee \in MinerFees, imbalance \in Imbalances :
          /\ balance[WalletOf[r]] >= amount[r]
          /\ balance[WalletOf[r]] >= toSend[r] + EstimatedFee(r, minerFee, imbalance)
          /\ Goto(r, "record") /\ UNCHANGED walletLock
  /\ UNCHANGED <<inputVars, ledgerVars, stop, amount, toSend, chainVars, rebalanceVars, faults>>

\* addSendInternalFee, and addSendNoInternalFee without a fee: the wallet is debited with
\* everything, lnd's account is credited with what is not the bank's fee.
SendEntry(sats, bankFee) == [sats |-> sats, lnd |-> sats - bankFee]

\* A third estimate, of amountToSend, and addOnChainTxSend: pending, with a random hash.
AddOnChainTxSend(r) ==
  /\ pc[r] = "record"
  /\ \/ Return(r) /\ UNCHANGED ledgerVars
     \/ \E minerFee \in MinerFees, imbalance \in Imbalances :
          LET bankFee == BankFee(toSend[r], MinBankFee, imbalance)
              sats == toSend[r] + bankFee + minerFee
          IN /\ entry' = [entry EXCEPT ![r] = SendEntry(sats, bankFee)]
             /\ balance' = [balance EXCEPT ![WalletOf[r]] = @ - sats]
             /\ lndBook' = lndBook - (sats - bankFee)
             /\ journal' = [journal EXCEPT ![r] = "pending"]
             /\ Goto(r, "pay") /\ UNCHANGED <<hash, walletLock>>
  /\ UNCHANGED <<inputVars, stop, amount, toSend, chainVars, rebalanceVars, faults>>

\* lnd sends the transaction if the hot wallet can pay for it.
Broadcast(r) ==
  \E minerFee \in MinerFees :
    /\ hot >= toSend[r] + minerFee
    /\ hot' = hot - toSend[r] - minerFee
    /\ tx' = [tx EXCEPT ![r] = "mempool"]
    /\ UNCHANGED event

\* payToAddress: the hash, or InsufficientOnChainFunds or CPFPAncestorLimitReached.
PayToAddress(r) ==
  /\ pc[r] = "pay"
  /\ \/ Broadcast(r) /\ Goto(r, "setHash")
     \/ Goto(r, "revert") /\ UNCHANGED chainVars
  /\ UNCHANGED <<inputVars, ledgerVars, walletLock, stop, amount, toSend, rebalanceVars, faults>>

\* Mutant: every error of payToAddress reverts the journal.
PayToAddressUnknownReverts(r) ==
  /\ pc[r] = "pay" /\ faults < MaxFaults
  /\ faults' = faults + 1
  /\ Broadcast(r) \/ UNCHANGED chainVars
  /\ stop' = [stop EXCEPT ![r] = "pay"]
  /\ Goto(r, "revert") /\ UNCHANGED walletLock
  /\ UNCHANGED <<inputVars, ledgerVars, amount, toSend, rebalanceVars>>

\* Any other error: the transaction may have been sent, and the journal stays pending.
PayToAddressUnknown(r) ==
  /\ pc[r] = "pay" /\ faults < MaxFaults
  /\ faults' = faults + 1
  /\ Broadcast(r) \/ UNCHANGED chainVars
  /\ stop' = [stop EXCEPT ![r] = "pay"]
  /\ Return(r)
  /\ UNCHANGED <<inputVars, ledgerVars, amount, toSend, rebalanceVars>>

SetOnChainTxSendHash(r) ==
  /\ pc[r] = "setHash"
  /\ hash' = [hash EXCEPT ![r] = "final"]
  /\ Return(r)
  /\ UNCHANGED <<inputVars, balance, entry, journal, lndBook, stop, amount, toSend, chainVars,
                 rebalanceVars, faults>>

\* Mutant: the error is returned before anything is reverted.
RevertNever(r) ==
  /\ pc[r] = "revert"
  /\ Return(r)
  /\ UNCHANGED <<inputVars, ledgerVars, stop, amount, toSend, chainVars, rebalanceVars, faults>>

\* revertOnChainPayment: not pending any more, and then void.
RevertOnChainPayment(r) ==
  /\ pc[r] = "revert"
  /\ journal' = [journal EXCEPT ![r] = "closed"]
  /\ Goto(r, "void")
  /\ UNCHANGED <<inputVars, balance, entry, hash, lndBook, walletLock, stop, amount, toSend,
                 chainVars, rebalanceVars, faults>>

\* Mutant: the amount is given back without the fee.
VoidAmountOnly(r) ==
  /\ pc[r] = "void"
  /\ journal' = [journal EXCEPT ![r] = "voided"]
  /\ balance' = [balance EXCEPT ![WalletOf[r]] = @ + toSend[r]]
  /\ lndBook' = lndBook + entry[r].lnd
  /\ Return(r)
  /\ UNCHANGED <<inputVars, entry, hash, stop, amount, toSend, chainVars, rebalanceVars, faults>>

Void(r) ==
  /\ pc[r] = "void"
  /\ journal' = [journal EXCEPT ![r] = "voided"]
  /\ balance' = [balance EXCEPT ![WalletOf[r]] = @ + entry[r].sats]
  /\ lndBook' = lndBook + entry[r].lnd
  /\ Return(r)
  /\ UNCHANGED <<inputVars, entry, hash, stop, amount, toSend, chainVars, rebalanceVars, faults>>

\* executePaymentViaIntraledger behind the lock.
ICheckBalance(r) ==
  /\ pc[r] = "ibalance"
  /\ \/ Return(r)
     \/ balance[WalletOf[r]] >= amount[r] /\ Goto(r, "itransfer") /\ UNCHANGED walletLock
  /\ UNCHANGED <<inputVars, ledgerVars, stop, amount, toSend, chainVars, rebalanceVars, faults>>

AddOnChainIntraledgerTxTransfer(r) ==
  /\ pc[r] = "itransfer"
  /\ balance' = [balance EXCEPT ![WalletOf[r]] = @ - amount[r], ![payee[r]] = @ + amount[r]]
  /\ Return(r)
  /\ UNCHANGED <<inputVars, entry, journal, hash, lndBook, stop, amount, toSend, chainVars,
                 rebalanceVars, faults>>

\* A database call fails or the process dies; the lock is free at once or after its ttl.
StopRequest(r) ==
  /\ pc[r] \notin {"request", "done"} /\ faults < MaxFaults
  /\ faults' = faults + 1
  /\ stop' = [stop EXCEPT ![r] = pc[r]]
  /\ Goto(r, "done")
  /\ \E next \in {None, Dead} : Release(r, next)
  /\ UNCHANGED <<inputVars, ledgerVars, amount, toSend, chainVars, rebalanceVars>>

WalletLockExpires(w) ==
  /\ walletLock[w] = Dead
  /\ walletLock' = [walletLock EXCEPT ![w] = None]
  /\ UNCHANGED <<inputVars, ledgerVars, requestVars, chainVars, rebalanceVars, faults>>

-----------------------------------------------------------------------------
(* The chain and the trigger *)

\* The transaction is mined, and lnd tells the trigger.
Mined(r) ==
  /\ tx[r] = "mempool"
  /\ tx' = [tx EXCEPT ![r] = "mined"]
  /\ event' = [event EXCEPT ![r] = "queued"]
  /\ UNCHANGED <<inputVars, ledgerVars, walletLock, requestVars, hot, rebalanceVars, faults>>

\* Mutant: the handler returns on a confirmed transaction.
SettleConfirmedIgnored(r) ==
  /\ event[r] = "queued"
  /\ event' = [event EXCEPT ![r] = "handled"]
  /\ UNCHANGED <<inputVars, ledgerVars, walletLock, requestVars, tx, hot, rebalanceVars, faults>>

\* Mutant: a transaction that is not confirmed settles its payment.
SettleUnconfirmed(r) ==
  /\ tx[r] = "mempool" \/ event[r] = "queued"
  /\ event' = [event EXCEPT ![r] = IF @ = "queued" THEN "handled" ELSE @]
  /\ journal' = [journal EXCEPT ![r] = IF hash[r] = "final" /\ @ = "pending" THEN "closed" ELSE @]
  /\ UNCHANGED <<inputVars, balance, entry, hash, lndBook, walletLock, requestVars, tx, hot,
                 rebalanceVars, faults>>

\* onchainTransactionEventHandler for an outgoing confirmed transaction:
\* settlePendingOnChainPayment finds the entries by their hash, or it finds nothing.
SettlePendingOnChainPayment(r) ==
  /\ event[r] = "queued"
  /\ event' = [event EXCEPT ![r] = "handled"]
  /\ journal' = [journal EXCEPT ![r] = IF hash[r] = "final" /\ @ = "pending" THEN "closed" ELSE @]
  /\ UNCHANGED <<inputVars, balance, entry, hash, lndBook, walletLock, requestVars, tx, hot,
                 rebalanceVars, faults>>

\* The trigger is down, or its database call fails; nothing repeats the event.
EventLost(r) ==
  /\ event[r] = "queued" /\ faults < MaxFaults
  /\ event' = [event EXCEPT ![r] = "lost"]
  /\ faults' = faults + 1
  /\ UNCHANGED <<inputVars, ledgerVars, walletLock, requestVars, tx, hot, rebalanceVars>>

-----------------------------------------------------------------------------
(* rebalanceToColdWallet *)

\* getWithdrawFromHotWalletAmount
RebalanceAmount ==
  IF hot + OffChain > MaxHot /\ hot - MinOnChain > MinRebalance THEN hot - MinOnChain ELSE 0

RebalanceStart ==
  /\ rebalance.at = "idle" /\ rebalances < MaxRebalances /\ RebalanceAmount > 0
  /\ rebalance' = [at |-> "pay", sats |-> RebalanceAmount, fee |-> 0]
  /\ UNCHANGED <<inputVars, ledgerVars, walletLock, requestVars, chainVars, rebalances, faults>>

RebalancePay ==
  /\ rebalance.at = "pay"
  /\ \/ rebalance' = Idle /\ UNCHANGED <<hot, rebalances>>
     \/ \E minerFee \in MinerFees :
          /\ hot >= rebalance.sats + minerFee
          /\ hot' = hot - rebalance.sats - minerFee
          /\ rebalance' = [rebalance EXCEPT !.at = "record", !.fee = minerFee]
          /\ rebalances' = rebalances + 1
  /\ UNCHANGED <<inputVars, ledgerVars, walletLock, requestVars, tx, event, faults>>

\* Mutant: the fee of the transfer is not booked.
AddColdStorageTxReceiveNoFee ==
  /\ rebalance.at = "record"
  /\ lndBook' = lndBook - rebalance.sats
  /\ rebalance' = Idle
  /\ UNCHANGED <<inputVars, balance, entry, journal, hash, walletLock, requestVars, chainVars,
                 rebalances, faults>>

\* addColdStorageTxReceive, with the fee of lookupOnChainFee.
AddColdStorageTxReceive ==
  /\ rebalance.at = "record"
  /\ lndBook' = lndBook - rebalance.sats - rebalance.fee
  /\ rebalance' = Idle
  /\ UNCHANGED <<inputVars, balance, entry, journal, hash, walletLock, requestVars, chainVars,
                 rebalances, faults>>

\* The job dies, or lookupOnChainFee fails and the fee is taken to be 0.
RebalanceFails ==
  /\ rebalance.at # "idle" /\ faults < MaxFaults
  /\ faults' = faults + 1
  /\ \/ rebalance' = Idle
     \/ rebalance.at = "record" /\ rebalance' = [rebalance EXCEPT !.fee = 0]
  /\ UNCHANGED <<inputVars, ledgerVars, walletLock, requestVars, chainVars, rebalances>>

-----------------------------------------------------------------------------

RequestStep(r) ==
  \/ EstimateFee(r) \/ LockWalletId(r) \/ CheckBalance(r) \/ AddOnChainTxSend(r)
  \/ PayToAddress(r) \/ SetOnChainTxSendHash(r) \/ RevertOnChainPayment(r) \/ Void(r)
  \/ ICheckBalance(r) \/ AddOnChainIntraledgerTxTransfer(r)

RebalanceStep == RebalanceStart \/ RebalancePay \/ AddColdStorageTxReceive \/ RebalanceFails

AtRest ==
  /\ \A r \in Requests : pc[r] = "done" /\ tx[r] # "mempool" /\ event[r] # "queued"
  /\ rebalance.at = "idle"

Done == AtRest /\ UNCHANGED vars

Next ==
  \/ \E r \in Requests :
       \/ PayOnChainByWalletId(r) \/ RequestStep(r) \/ PayToAddressUnknown(r) \/ StopRequest(r)
       \/ Mined(r) \/ SettlePendingOnChainPayment(r) \/ EventLost(r)
  \/ \E w \in Wallets : WalletLockExpires(w)
  \/ RebalanceStep
  \/ Done

Spec == Init /\ [][Next]_vars

\* A request that started runs on, transactions are mined and the trigger handles events.
Fairness ==
  \A r \in Requests : /\ WF_vars(RequestStep(r)) /\ WF_vars(Mined(r))
                      /\ WF_vars(SettlePendingOnChainPayment(r))

FairSpec == Spec /\ Fairness

-----------------------------------------------------------------------------
(* Properties *)

\* How much the fee that is charged can exceed the one the balance was checked with: the
\* miner's part moves with lnd's estimate, the bank's part with the default minimum that
\* only the charge applies, or with the imbalance.
BankFeeSlack == Larger(IF WithdrawFee = 0 THEN WithdrawDefaultMin ELSE 0,
                       RatioPart(MaxImbalance - MinImbalance))
FeeSlack == MaxMinerFee - MinMinerFee + BankFeeSlack

\* The wallet is charged with a third estimate, read after the balance check was made with
\* the second.  An overdraft is possible, but never larger than the difference between
\* the two fees, however many requests of the wallet run: they do not add up.
OverdraftBounded == \A w \in Wallets : balance[w] >= -FeeSlack

\* A transaction the bank has sent stays charged: addOnChainTxSend comes before
\* payToAddress, and revertOnChainPayment only after errors that exclude a broadcast.
SentStaysCharged ==
  \A r \in Requests : tx[r] # "none" => /\ journal[r] \in {"pending", "closed"}
                                        /\ entry[r].sats >= toSend[r]

\* An on-chain payment stops being pending only when its transaction is mined or when it is
\* reverted; only a crash between the two writes of revertOnChainPayment leaves one
\* that is neither.
PendingUntilMined ==
  \A r \in Requests :
    journal[r] = "closed" => tx[r] = "mined" \/ pc[r] = "void" \/ stop[r] = "void"

\* The stage of a payment, what its sender is charged, and what was sent.  A journal that
\* is closed and not yet void still charges its sender.
StageOf(r) ==
  IF journal[r] = "voided" THEN "returned"
  ELSE IF tx[r] = "none" THEN (IF journal[r] = "none" THEN "idle" ELSE "held")
  ELSE IF journal[r] = "closed" THEN "settled"
  ELSE IF tx[r] = "mined" THEN "confirmed" ELSE "sent"

ChargeOf(r) == IF journal[r] = "voided" THEN 0 ELSE entry[r].sats

PaidOf(r) == IF tx[r] = "none" THEN 0 ELSE toSend[r]

C == INSTANCE OnChainSendContract WITH stage <- [r \in Requests |-> StageOf(r)],
                                       charge <- [r \in Requests |-> ChargeOf(r)],
                                       paid <- [r \in Requests |-> PaidOf(r)]

\* The requests, lnd and the trigger together keep the promise of OnChainSendContract: a
\* charge is taken once and before the broadcast, is final only for a mined transaction,
\* and revertOnChainPayment gives back all of it for one that is never sent.
ImplementsContract == C!Spec

\* Without faults the ledger's lnd account and the hot wallet differ at rest by no more than
\* the miner fees were misjudged, with a rebalance to cold storage running in between.
BooksFollowHotWallet ==
  AtRest /\ faults = 0 =>
    LET sent == {r \in Requests : tx[r] # "none"}
        off == Cardinality(sent) * (MaxMinerFee - MinMinerFee)
    IN lndBook - hot \in -off..off

\* A payment whose hash was written before the block came is settled by the trigger.
KnownHashSettles ==
  \A r \in Requests :
    hash[r] = "final" /\ tx[r] = "mempool" ~> journal[r] = "closed" \/ event[r] = "lost"

\* A payment lnd refused is given back, unless the process stops on the way.
RefusedRefunded ==
  \A r \in Requests : pc[r] = "revert" ~> journal[r] = "voided" \/ stop[r] # None

\* A transaction that is mined makes its payment leave the pending state.
MinedSettles == \A r \in Requests : tx[r] = "mined" ~> journal[r] # "pending"
=============================================================================
