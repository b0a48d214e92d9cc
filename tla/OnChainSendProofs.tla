-------------------------- MODULE OnChainSendProofs --------------------------
(***************************************************************************)
(* On-chain payments, for any wallets and requests, any fees and any       *)
(* number of faults: a wallet is overdrawn by no more than one change of   *)
(* the fee estimate, what was sent stays charged, what is no longer        *)
(* pending was mined or refused, and the books of the hot wallet follow    *)
(* its outputs.                                                            *)
(***************************************************************************)
EXTENDS OnChainSend, TLAPS

-----------------------------------------------------------------------------
(* Fees *)

\* Rounding up to whole units of the ratio keeps the order of the amounts.
LEMMA RatioMonotone ==
  ASSUME NEW a \in Nat, NEW b \in Nat, a <= b, NEW n \in Nat, NEW d \in Nat \ {0}
  PROVE  /\ (a * n + d - 1) \div d \in Nat
         /\ (a * n + d - 1) \div d <= (b * n + d - 1) \div d
<1> DEFINE x == a * n + d - 1
           y == b * n + d - 1
<1>1. x \in Nat /\ y \in Nat /\ x <= y
  <2>1. a * n \in Nat /\ b * n \in Nat /\ a * n <= b * n
    OBVIOUS
  <2> QED
    BY <2>1
<1> HIDE DEF x, y
<1>2. x \div d \in Nat /\ x \div d <= y \div d
  BY <1>1
<1> QED
  BY <1>2, Zenon DEF x, y

\* Rounding up a sum gives no more than the sum of what is rounded up.
LEMMA RatioSubadditive ==
  ASSUME NEW a \in Nat, NEW b \in Nat, NEW n \in Nat, NEW d \in Nat \ {0}
  PROVE  ((a + b) * n + d - 1) \div d <= (a * n + d - 1) \div d + (b * n + d - 1) \div d
<1> DEFINE x == a * n
           y == b * n
           p == (x + d - 1) \div d
           q == (y + d - 1) \div d
<1>1. x \in Nat /\ y \in Nat /\ (a + b) * n = x + y
  OBVIOUS
<1> HIDE DEF x, y
<1>2. p \in Nat /\ q \in Nat /\ x <= d * p /\ y <= d * q
  BY <1>1
<1> HIDE DEF p, q
<1>3. x + y + d - 1 < d * (p + q + 1)
  BY <1>1, <1>2
<1>4. (x + y + d - 1) \div d < p + q + 1
  BY <1>1, <1>2, <1>3
<1>5. (x + y + d - 1) \div d <= p + q
  BY <1>1, <1>2, <1>4
<1> QED
  BY <1>1, <1>5 DEF x, y, p, q

\* The amount that the ratio applies to grows with the amount that is sent, and moves
\* with the imbalance at most as far as that does.
LEMMA BaseMonotone ==
  ASSUME NEW a \in Nat, NEW b \in Nat, a <= b, NEW i \in Imbalances, NEW j \in Imbalances
  PROVE  /\ BaseAmount(a, i) \in Nat /\ BaseAmount(b, j) \in Nat
         /\ MaxImbalance - MinImbalance \in Nat
         /\ BaseAmount(a, i) <= BaseAmount(b, j) + (MaxImbalance - MinImbalance)
  BY OnChainSendAssumption DEF BaseAmount, Larger, Smaller, Imbalances

\* The bank's part of a fee is a number of sats.
LEMMA FeeTypes ==
  ASSUME NEW a \in Nat, NEW i \in Imbalances
  PROVE  BankFee(a, WithdrawFee, i) \in Nat /\ BankFee(a, MinBankFee, i) \in Nat
<1>1. BaseAmount(a, i) \in Nat /\ BaseAmount(a, i) <= BaseAmount(a, i)
  BY BaseMonotone, OnChainSendAssumption DEF BaseAmount, Larger, Smaller, Imbalances
<1>2. RatioNum \in Nat /\ RatioDen \in Nat \ {0}
  BY OnChainSendAssumption, Zenon
<1>3. RatioPart(BaseAmount(a, i)) \in Nat
  BY <1>1, <1>2, RatioMonotone, Zenon DEF RatioPart
<1> HIDE DEF BaseAmount, RatioPart
<1> QED
  BY <1>3, OnChainSendAssumption DEF BankFee, Larger, MinBankFee

\* The slack is a number of sats.
LEMMA SlackTypes == BankFeeSlack \in Nat /\ FeeSlack \in Nat /\ FeeSlack >= BankFeeSlack
<1> DEFINE swing == MaxImbalance - MinImbalance
<1>1. swing \in Nat /\ swing <= swing /\ RatioNum \in Nat /\ RatioDen \in Nat \ {0}
  BY OnChainSendAssumption
<1>2. RatioPart(swing) \in Nat
  BY <1>1, RatioMonotone, Zenon DEF RatioPart
<1>3. BankFeeSlack = Larger(IF WithdrawFee = 0 THEN WithdrawDefaultMin ELSE 0, RatioPart(swing))
  BY Zenon DEF BankFeeSlack
<1> HIDE DEF swing, RatioPart
<1>4. BankFeeSlack \in Nat
  BY <1>2, <1>3, OnChainSendAssumption DEF Larger
<1> HIDE DEF BankFeeSlack
<1> QED
  BY <1>4, OnChainSendAssumption DEF FeeSlack

\* The bank's fee for a smaller amount, at another imbalance and with the default minimum,
\* exceeds the one the balance was checked with by the slack at most.
LEMMA FeeBound ==
  ASSUME NEW a \in Nat, NEW b \in Nat, a <= b, NEW i \in Imbalances, NEW j \in Imbalances
  PROVE  BankFee(a, MinBankFee, i) <= BankFee(b, WithdrawFee, j) + BankFeeSlack
<1> DEFINE swing == MaxImbalance - MinImbalance
           x == RatioPart(BaseAmount(a, i))
           y == RatioPart(BaseAmount(b, j))
           z == RatioPart(swing)
<1>1. /\ BaseAmount(a, i) \in Nat /\ BaseAmount(b, j) \in Nat /\ swing \in Nat
      /\ BaseAmount(a, i) <= BaseAmount(b, j) + swing
  BY BaseMonotone, Zenon
<1>2. RatioNum \in Nat /\ RatioDen \in Nat \ {0}
  BY OnChainSendAssumption, Zenon
<1> HIDE DEF swing
<1>3. BaseAmount(b, j) + swing \in Nat /\ swing <= swing /\ BaseAmount(b, j) <= BaseAmount(b, j)
  BY <1>1
<1>4. x \in Nat /\ x <= RatioPart(BaseAmount(b, j) + swing)
  BY <1>1, <1>2, <1>3, RatioMonotone, Zenon DEF RatioPart
<1>5. y \in Nat /\ z \in Nat /\ RatioPart(BaseAmount(b, j) + swing) \in Int
  <2>1. /\ RatioPart(BaseAmount(b, j)) \in Nat /\ RatioPart(swing) \in Nat
    BY <1>1, <1>2, <1>3, RatioMonotone, Zenon DEF RatioPart
  <2>2. BaseAmount(b, j) + swing <= BaseAmount(b, j) + swing
    BY <1>3
  <2>3. RatioPart(BaseAmount(b, j) + swing) \in Nat
    BY <1>2, <1>3, <2>2, RatioMonotone, Zenon DEF RatioPart
  <2> QED
    BY <2>1, <2>3
<1>6. RatioPart(BaseAmount(b, j) + swing) <= y + z
  BY <1>1, <1>2, RatioSubadditive, Zenon DEF RatioPart
<1>7. /\ BankFee(b, WithdrawFee, j) = Larger(WithdrawFee, y)
      /\ BankFee(a, MinBankFee, i) = Larger(MinBankFee, x)
      /\ BankFeeSlack = Larger(IF WithdrawFee = 0 THEN WithdrawDefaultMin ELSE 0, z)
  BY Zenon DEF BankFee, BankFeeSlack, swing
<1>8. x <= y + z
  BY <1>4, <1>5, <1>6
<1> HIDE DEF x, y, z
<1> QED
  BY <1>4, <1>5, <1>7, <1>8, OnChainSendAssumption DEF Larger, MinBankFee

-----------------------------------------------------------------------------
(* Types *)

RequestTypes ==
  /\ walletLock \in [Wallets -> Requests \cup {None, Dead}]
  /\ pc \in [Requests -> Points] /\ stop \in [Requests -> Points \cup {None}]
  /\ amount \in [Requests -> Nat] /\ toSend \in [Requests -> Nat]

LedgerTypes ==
  /\ balance \in [Wallets -> Int] /\ lndBook \in Int
  /\ entry \in [Requests -> [sats : Nat, lnd : Nat]]
  /\ journal \in [Requests -> {"none", "pending", "closed", "voided"}]
  /\ hash \in [Requests -> {"temporary", "final"}]

ChainTypes ==
  /\ tx \in [Requests -> {"none", "mempool", "mined"}]
  /\ event \in [Requests -> {"none", "queued", "handled", "lost"}]
  /\ hot \in Nat
  /\ rebalance \in [at : {"idle", "pay", "record"}, sats : Nat, fee : Nat]
  /\ rebalances \in Nat /\ faults \in 0..MaxFaults

\* Only a payment to another wallet of the bank takes the path inside the ledger.
PayeeInside ==
  \A r \in Requests :
    pc[r] \in {"ilock", "ibalance", "itransfer"} => payee[r] \in Wallets \ {WalletOf[r]}

TypeInv ==
  /\ payee \in [Requests -> Wallets \cup {None}] /\ sendAll \in [Requests -> BOOLEAN]
  /\ RequestTypes /\ LedgerTypes /\ ChainTypes /\ PayeeInside

\* The steps of a request, each by its name.
RequestAction(r) ==
  \/ PayOnChainByWalletId(r) \/ EstimateFee(r) \/ LockWalletId(r) \/ CheckBalance(r)
  \/ AddOnChainTxSend(r) \/ PayToAddress(r) \/ PayToAddressUnknown(r)
  \/ SetOnChainTxSendHash(r) \/ RevertOnChainPayment(r) \/ Void(r)
  \/ ICheckBalance(r) \/ AddOnChainIntraledgerTxTransfer(r) \/ StopRequest(r)

\* Next, with the steps of a request in one place.
LEMMA NextCases ==
  ASSUME Next
  PROVE  \/ \E r \in Requests : \/ RequestAction(r) \/ Mined(r)
                                \/ SettlePendingOnChainPayment(r) \/ EventLost(r)
         \/ \E w \in Wallets : WalletLockExpires(w)
         \/ RebalanceStart \/ RebalancePay \/ AddColdStorageTxReceive \/ RebalanceFails
         \/ UNCHANGED vars
  BY ZenonT(60) DEF Next, RequestStep, RequestAction, RebalanceStep, Done

\* Releasing a lock leaves locks.
LEMMA ReleaseType ==
  ASSUME RequestTypes, NEW r \in Requests, NEW next \in {None, Dead}, Release(r, next)
  PROVE  walletLock' \in [Wallets -> Requests \cup {None, Dead}]
  BY Zenon DEF RequestTypes, Release

\* The state of the requests keeps its type.
LEMMA RequestTypesStep ==
  ASSUME TypeInv, Next
  PROVE  RequestTypes'
<1> USE OnChainSendAssumption DEF TypeInv, Points
<1>1. CASE UNCHANGED <<walletLock, pc, stop, amount, toSend>>
  BY <1>1, Zenon DEF RequestTypes
<1>2. ASSUME NEW r \in Requests, NEW point \in Points, Goto(r, point), UNCHANGED <<stop, amount, toSend>>,
             walletLock' \in [Wallets -> Requests \cup {None, Dead}]
      PROVE  RequestTypes'
  BY <1>2, Zenon DEF RequestTypes, Goto
<1>3. ASSUME NEW r \in Requests, PayOnChainByWalletId(r) PROVE RequestTypes'
  BY <1>3, SMTT(60) DEF RequestTypes, LedgerTypes, PayOnChainByWalletId, Goto
<1>4. ASSUME NEW r \in Requests, EstimateFee(r) PROVE RequestTypes'
  <2>1. CASE Goto(r, "done") /\ UNCHANGED toSend
    BY <1>2, <1>4, <2>1, ZenonT(60) DEF EstimateFee, RequestTypes
  <2>2. CASE ~(Goto(r, "done") /\ UNCHANGED toSend)
    <3>1. PICK minerFee \in MinerFees, imbalance \in Imbalances :
            LET sats == IF sendAll[r] THEN amount[r] - EstimatedFee(r, minerFee, imbalance) ELSE amount[r]
            IN sats >= DustThreshold /\ toSend' = [toSend EXCEPT ![r] = sats] /\ Goto(r, "lock")
      BY <1>4, <2>2, Zenon DEF EstimateFee
    <3>2. EstimatedFee(r, minerFee, imbalance) \in Int
      BY FeeTypes, SMTT(60) DEF EstimatedFee, MinerFees, RequestTypes
    <3>3. toSend' \in [Requests -> Nat]
      BY <3>1, <3>2 DEF RequestTypes
    <3> QED
      BY <1>4, <3>1, <3>3, Zenon DEF EstimateFee, RequestTypes, Goto
  <2> QED
    BY <2>1, <2>2, Zenon
<1>5. ASSUME NEW r \in Requests, LockWalletId(r) PROVE RequestTypes'
  BY <1>5, ZenonT(60) DEF RequestTypes, LockWalletId, Goto
<1>6. ASSUME NEW r \in Requests, Return(r), UNCHANGED <<stop, amount, toSend>> PROVE RequestTypes'
  BY <1>2, <1>6, ReleaseType, Zenon DEF Return
<1>7. ASSUME NEW r \in Requests, NEW point \in Points, Goto(r, point),
             UNCHANGED <<walletLock, stop, amount, toSend>>
      PROVE  RequestTypes'
  BY <1>2, <1>7, Zenon DEF RequestTypes
<1>8. ASSUME NEW r \in Requests,
             CheckBalance(r) \/ AddOnChainTxSend(r) \/ PayToAddress(r) \/ SetOnChainTxSendHash(r)
      PROVE  RequestTypes'
  BY <1>6, <1>7, <1>8, Zenon DEF CheckBalance, AddOnChainTxSend, PayToAddress, SetOnChainTxSendHash
<1>9. ASSUME NEW r \in Requests,
             \/ RevertOnChainPayment(r) \/ Void(r) \/ ICheckBalance(r)
             \/ AddOnChainIntraledgerTxTransfer(r)
      PROVE  RequestTypes'
  BY <1>6, <1>7, <1>9, ZenonT(60) DEF RevertOnChainPayment, Void, ICheckBalance,
     AddOnChainIntraledgerTxTransfer
<1>10. ASSUME NEW r \in Requests, PayToAddressUnknown(r) \/ StopRequest(r) PROVE RequestTypes'
  <2>1. PICK next \in {None, Dead} : Release(r, next) /\ Goto(r, "done")
    BY <1>10, Zenon DEF PayToAddressUnknown, StopRequest, Return
  <2>2. walletLock' \in [Wallets -> Requests \cup {None, Dead}]
    BY <2>1, ReleaseType, Zenon
  <2> QED
    BY <1>10, <2>1, <2>2, Zenon DEF PayToAddressUnknown, StopRequest, RequestTypes, Goto
<1>11. ASSUME NEW w \in Wallets, WalletLockExpires(w) PROVE RequestTypes'
  BY <1>11, Zenon DEF RequestTypes, WalletLockExpires, requestVars
<1>12. ASSUME NEW r \in Requests, Mined(r) \/ SettlePendingOnChainPayment(r) \/ EventLost(r)
       PROVE  RequestTypes'
  BY <1>1, <1>12, Zenon DEF Mined, SettlePendingOnChainPayment, EventLost, requestVars
<1>13. CASE RebalanceStart \/ RebalancePay \/ AddColdStorageTxReceive \/ RebalanceFails \/ UNCHANGED vars
  BY <1>1, <1>13, Zenon DEF RebalanceStart, RebalancePay, AddColdStorageTxReceive, RebalanceFails, vars,
     requestVars
<1> QED
  BY NextCases, <1>3, <1>4, <1>5, <1>8, <1>9, <1>10, <1>11, <1>12, <1>13, Zenon DEF RequestAction

\* The ledger keeps its type.
LEMMA LedgerTypesStep ==
  ASSUME TypeInv, Next
  PROVE  LedgerTypes'
<1> USE OnChainSendAssumption DEF TypeInv
<1>1. CASE UNCHANGED ledgerVars
  BY <1>1, Zenon DEF LedgerTypes, ledgerVars
<1>2. ASSUME NEW r \in Requests, AddOnChainTxSend(r), ~UNCHANGED ledgerVars PROVE LedgerTypes'
  <2>1. PICK minerFee \in MinerFees, imbalance \in Imbalances :
          LET bankFee == BankFee(toSend[r], MinBankFee, imbalance)
              sats == toSend[r] + bankFee + minerFee
          IN /\ entry' = [entry EXCEPT ![r] = [sats |-> sats, lnd |-> sats - bankFee]]
             /\ balance' = [balance EXCEPT ![WalletOf[r]] = @ - sats]
             /\ lndBook' = lndBook - (sats - bankFee)
             /\ journal' = [journal EXCEPT ![r] = "pending"]
             /\ UNCHANGED hash
    BY <1>2, Zenon DEF AddOnChainTxSend, SendEntry
  <2>2. /\ BankFee(toSend[r], MinBankFee, imbalance) \in Nat /\ toSend[r] \in Nat /\ minerFee \in Nat
        /\ WalletOf[r] \in Wallets
    BY FeeTypes DEF RequestTypes, MinerFees
  <2> HIDE DEF BankFee, MinBankFee
  <2>3. entry' \in [Requests -> [sats : Nat, lnd : Nat]] /\ lndBook' \in Int
    BY <2>1, <2>2 DEF LedgerTypes
  <2>4. balance' \in [Wallets -> Int] /\ journal' \in [Requests -> {"none", "pending", "closed", "voided"}]
    BY <2>1, <2>2 DEF LedgerTypes
  <2> QED
    BY <2>1, <2>3, <2>4, Zenon DEF LedgerTypes
<1>3. ASSUME NEW r \in Requests,
             SetOnChainTxSendHash(r) \/ RevertOnChainPayment(r) \/ SettlePendingOnChainPayment(r)
      PROVE  LedgerTypes'
  BY <1>3, ZenonT(60) DEF LedgerTypes, SetOnChainTxSendHash, RevertOnChainPayment, SettlePendingOnChainPayment
<1>4. ASSUME NEW r \in Requests, Void(r) PROVE LedgerTypes'
  BY <1>4 DEF LedgerTypes, Void
<1>5. ASSUME NEW r \in Requests, AddOnChainIntraledgerTxTransfer(r) PROVE LedgerTypes'
  <2>1. payee[r] \in Wallets /\ WalletOf[r] \in Wallets /\ amount[r] \in Nat
    BY <1>5, Zenon DEF AddOnChainIntraledgerTxTransfer, PayeeInside, RequestTypes
  <2>2. balance' \in [Wallets -> Int]
    BY <1>5, <2>1 DEF AddOnChainIntraledgerTxTransfer, LedgerTypes
  <2> QED
    BY <1>5, <2>2, Zenon DEF AddOnChainIntraledgerTxTransfer, LedgerTypes
<1>6. CASE AddColdStorageTxReceive
  BY <1>6 DEF AddColdStorageTxReceive, LedgerTypes, ChainTypes
<1>7. ASSUME NEW r \in Requests,
             \/ PayOnChainByWalletId(r) \/ EstimateFee(r) \/ LockWalletId(r) \/ CheckBalance(r)
             \/ PayToAddress(r) \/ PayToAddressUnknown(r) \/ ICheckBalance(r) \/ StopRequest(r)
             \/ Mined(r) \/ EventLost(r)
      PROVE  UNCHANGED ledgerVars
  BY <1>7, Zenon DEF PayOnChainByWalletId, EstimateFee, LockWalletId, CheckBalance, PayToAddress,
     PayToAddressUnknown, ICheckBalance, StopRequest, Mined, EventLost, ledgerVars
<1>8. ASSUME \/ \E w \in Wallets : WalletLockExpires(w)
             \/ RebalanceStart \/ RebalancePay \/ RebalanceFails \/ UNCHANGED vars
      PROVE  UNCHANGED ledgerVars
  BY <1>8, Zenon DEF WalletLockExpires, RebalanceStart, RebalancePay, RebalanceFails, vars
<1> QED
  BY NextCases, <1>1, <1>2, <1>3, <1>4, <1>5, <1>6, <1>7, <1>8, ZenonT(60) DEF RequestAction

\* The chain, the rebalance and the count of the faults keep their type.
LEMMA ChainTypesStep ==
  ASSUME TypeInv, Next
  PROVE  ChainTypes'
<1> USE OnChainSendAssumption DEF TypeInv
<1>1. CASE UNCHANGED <<chainVars, rebalanceVars, faults>>
  BY <1>1, Zenon DEF ChainTypes, chainVars, rebalanceVars
<1>2. ASSUME NEW r \in Requests, Broadcast(r) \/ UNCHANGED chainVars, UNCHANGED rebalanceVars,
             faults' \in 0..MaxFaults
      PROVE  ChainTypes'
  <2>1. hot' \in Nat /\ tx' \in [Requests -> {"none", "mempool", "mined"}] /\ event' = event
    BY <1>2 DEF Broadcast, ChainTypes, RequestTypes, MinerFees, chainVars
  <2> QED
    BY <1>2, <2>1, Zenon DEF ChainTypes, rebalanceVars
<1>3. ASSUME NEW r \in Requests, PayToAddress(r) \/ PayToAddressUnknown(r) \/ StopRequest(r)
      PROVE  ChainTypes'
  BY <1>2, <1>3 DEF PayToAddress, PayToAddressUnknown, StopRequest, ChainTypes
<1>4. ASSUME NEW r \in Requests, Mined(r) \/ SettlePendingOnChainPayment(r) \/ EventLost(r)
      PROVE  ChainTypes'
  BY <1>4 DEF Mined, SettlePendingOnChainPayment, EventLost, ChainTypes, rebalanceVars
<1>5. CASE RebalanceStart
  BY <1>5 DEF RebalanceStart, RebalanceAmount, ChainTypes, chainVars
<1>6. CASE RebalancePay
  <2>1. CASE rebalance' = Idle /\ UNCHANGED <<hot, rebalances>>
    BY <1>6, <2>1, Zenon DEF RebalancePay, ChainTypes, Idle
  <2>2. ASSUME NEW minerFee \in MinerFees, hot >= rebalance.sats + minerFee,
               hot' = hot - rebalance.sats - minerFee,
               rebalance' = [rebalance EXCEPT !.at = "record", !.fee = minerFee],
               rebalances' = rebalances + 1
        PROVE  ChainTypes'
    <3>1. minerFee \in Nat /\ rebalance.sats \in Nat
      BY DEF MinerFees, ChainTypes
    <3>2. hot' \in Nat /\ rebalances' \in Nat
      BY <2>2, <3>1 DEF ChainTypes
    <3>3. rebalance' \in [at : {"idle", "pay", "record"}, sats : Nat, fee : Nat]
      BY <2>2, <3>1, Zenon DEF ChainTypes
    <3> QED
      BY <1>6, <3>2, <3>3, Zenon DEF RebalancePay, ChainTypes
  <2> QED
    BY <1>6, <2>1, <2>2, Zenon DEF RebalancePay
<1>7. CASE AddColdStorageTxReceive
  BY <1>7, Zenon DEF AddColdStorageTxReceive, ChainTypes, chainVars, Idle
<1>8. CASE RebalanceFails
  BY <1>8 DEF RebalanceFails, ChainTypes, chainVars, Idle
<1>9. ASSUME NEW r \in Requests,
             \/ PayOnChainByWalletId(r) \/ EstimateFee(r) \/ LockWalletId(r) \/ CheckBalance(r)
             \/ AddOnChainTxSend(r) \/ SetOnChainTxSendHash(r) \/ RevertOnChainPayment(r)
             \/ Void(r) \/ ICheckBalance(r) \/ AddOnChainIntraledgerTxTransfer(r)
      PROVE  UNCHANGED <<chainVars, rebalanceVars, faults>>
  BY <1>9, Zenon DEF PayOnChainByWalletId, EstimateFee, LockWalletId, CheckBalance, AddOnChainTxSend,
     SetOnChainTxSendHash, RevertOnChainPayment, Void, ICheckBalance, AddOnChainIntraledgerTxTransfer
<1>10. ASSUME (\E w \in Wallets : WalletLockExpires(w)) \/ UNCHANGED vars
       PROVE  UNCHANGED <<chainVars, rebalanceVars, faults>>
  BY <1>10, Zenon DEF WalletLockExpires, vars
<1> QED
  BY NextCases, <1>1, <1>3, <1>4, <1>5, <1>6, <1>7, <1>8, <1>9, <1>10, ZenonT(60) DEF RequestAction

\* What a request is asked to do does not change.
LEMMA InputsKept ==
  ASSUME Next
  PROVE  UNCHANGED <<payee, sendAll>>
<1>1. UNCHANGED inputVars
  <2>1. ASSUME NEW r \in Requests, RequestAction(r) PROVE UNCHANGED inputVars
    BY <2>1, Zenon DEF RequestAction, PayOnChainByWalletId, EstimateFee, LockWalletId, CheckBalance,
       AddOnChainTxSend, PayToAddress, PayToAddressUnknown, SetOnChainTxSendHash,
       RevertOnChainPayment, Void, ICheckBalance, AddOnChainIntraledgerTxTransfer, StopRequest
  <2> QED
    BY NextCases, <2>1, Zenon DEF Mined, SettlePendingOnChainPayment, EventLost, WalletLockExpires,
       RebalanceStart, RebalancePay, AddColdStorageTxReceive, RebalanceFails, vars
<1> QED
  BY <1>1, Zenon DEF inputVars

\* A step of the others leaves the control point of a request alone.
LEMMA PointsKept ==
  ASSUME TypeInv, Next, NEW q \in Requests, pc'[q] # pc[q]
  PROVE  RequestAction(q)
<1> USE DEF TypeInv, RequestTypes
<1>1. ASSUME NEW r \in Requests, RequestAction(r), r # q PROVE FALSE
  BY <1>1, ZenonT(60) DEF RequestAction, PayOnChainByWalletId, EstimateFee, LockWalletId, CheckBalance,
     AddOnChainTxSend, PayToAddress, PayToAddressUnknown, SetOnChainTxSendHash,
     RevertOnChainPayment, Void, ICheckBalance, AddOnChainIntraledgerTxTransfer, StopRequest,
     Goto, Return
<1>2. ASSUME NEW r \in Requests, Mined(r) \/ SettlePendingOnChainPayment(r) \/ EventLost(r) PROVE FALSE
  BY <1>2, Zenon DEF Mined, SettlePendingOnChainPayment, EventLost, requestVars
<1>3. ASSUME \/ \E w \in Wallets : WalletLockExpires(w)
             \/ RebalanceStart \/ RebalancePay \/ AddColdStorageTxReceive \/ RebalanceFails
             \/ UNCHANGED vars
      PROVE  FALSE
  BY <1>3, Zenon DEF WalletLockExpires, RebalanceStart, RebalancePay, AddColdStorageTxReceive,
     RebalanceFails, vars, requestVars
<1> QED
  BY NextCases, <1>1, <1>2, <1>3, Zenon

\* A request on the path inside the ledger pays a wallet of the bank.
LEMMA PayeeInsideStep ==
  ASSUME TypeInv, Next
  PROVE  PayeeInside'
<1> SUFFICES ASSUME NEW r \in Requests, pc'[r] \in {"ilock", "ibalance", "itransfer"}
             PROVE  payee[r] \in Wallets \ {WalletOf[r]}
  BY InputsKept, Zenon DEF PayeeInside
<1>1. CASE pc'[r] = pc[r]
  BY <1>1, Zenon DEF TypeInv, PayeeInside
<1>2. CASE pc'[r] # pc[r]
  <2>1. RequestAction(r)
    BY <1>2, PointsKept, Zenon
  <2>2. PayOnChainByWalletId(r) \/ LockWalletId(r) \/ ICheckBalance(r)
    BY <2>1, ZenonT(60) DEF TypeInv, RequestTypes, RequestAction, EstimateFee, CheckBalance,
       AddOnChainTxSend, PayToAddress, PayToAddressUnknown, SetOnChainTxSendHash,
       RevertOnChainPayment, Void, AddOnChainIntraledgerTxTransfer, StopRequest, Goto, Return
  <2> QED
    BY <2>2, Zenon DEF TypeInv, PayeeInside, RequestTypes, PayOnChainByWalletId, LockWalletId,
       ICheckBalance, Goto, Return
<1> QED
  BY <1>1, <1>2, Zenon

\* The types are kept by every step.
LEMMA TypeInvStep ==
  ASSUME TypeInv, [Next]_vars
  PROVE  TypeInv'
<1>1. CASE Next
  BY <1>1, RequestTypesStep, LedgerTypesStep, ChainTypesStep, PayeeInsideStep, InputsKept, Zenon DEF TypeInv
<1>2. CASE UNCHANGED vars
  BY <1>2, Zenon DEF TypeInv, RequestTypes, LedgerTypes, ChainTypes, PayeeInside, vars, inputVars,
     ledgerVars, requestVars, chainVars, rebalanceVars
<1> QED
  BY <1>1, <1>2, Zenon

\* The types hold initially.
LEMMA TypeInvInit ==
  ASSUME Init
  PROVE  TypeInv
  BY OnChainSendAssumption
  DEF Init, TypeInv, RequestTypes, LedgerTypes, ChainTypes, PayeeInside, Points, NoEntry, Idle

-----------------------------------------------------------------------------
(* Overdrafts *)

Locked == {"balance", "record", "pay", "setHash", "revert", "void", "ibalance", "itransfer"}

\* A request holds the lock of its wallet from the balance check to its end.
LockHeld == \A r \in Requests : pc[r] \in Locked => walletLock[WalletOf[r]] = r

\* No more is sent than was asked for.
SendLess ==
  \A r \in Requests : pc[r] \in {"lock", "balance", "record"} => toSend[r] <= amount[r]

\* Behind the balance check the wallet covers the amount and the fee at some imbalance.
Affordable ==
  \A r \in Requests :
    /\ pc[r] = "record" => \E imbalance \in Imbalances :
         balance[WalletOf[r]] >= toSend[r] + BankFee(amount[r], WithdrawFee, imbalance) + MinMinerFee
    /\ pc[r] = "itransfer" => balance[WalletOf[r]] >= amount[r]

OverdraftInv == TypeInv /\ LockHeld /\ SendLess /\ Affordable /\ OverdraftBounded

\* The lock of a wallet stays with a request until it returns.
LEMMA LockHeldStep ==
  ASSUME TypeInv, LockHeld, Next
  PROVE  LockHeld'
<1> USE OnChainSendAssumption DEF TypeInv, RequestTypes, LockHeld, Locked
<1>1. CASE UNCHANGED <<walletLock, pc>>
  BY <1>1, Zenon
<1>2. ASSUME NEW r \in Requests, NEW next, Release(r, next), Goto(r, "done") PROVE LockHeld'
  BY <1>2, Zenon DEF Release, Goto
<1>3. ASSUME NEW r \in Requests, NEW point, pc[r] \in Locked \/ point \notin Locked,
             Goto(r, point), UNCHANGED walletLock
      PROVE  LockHeld'
  BY <1>3, Zenon DEF Goto
<1>4. ASSUME NEW r \in Requests, LockWalletId(r) PROVE LockHeld'
  BY <1>4 DEF LockWalletId, Goto
<1>5. ASSUME NEW r \in Requests, PayOnChainByWalletId(r) \/ EstimateFee(r) PROVE LockHeld'
  BY <1>3, <1>5, ZenonT(60) DEF PayOnChainByWalletId, EstimateFee
<1>6. ASSUME NEW r \in Requests,
             CheckBalance(r) \/ AddOnChainTxSend(r) \/ PayToAddress(r) \/ PayToAddressUnknown(r)
      PROVE  LockHeld'
  BY <1>2, <1>3, <1>6, ZenonT(60) DEF CheckBalance, AddOnChainTxSend, PayToAddress, PayToAddressUnknown,
     Return
<1>7. ASSUME NEW r \in Requests,
             \/ SetOnChainTxSendHash(r) \/ RevertOnChainPayment(r) \/ Void(r)
             \/ ICheckBalance(r) \/ AddOnChainIntraledgerTxTransfer(r) \/ StopRequest(r)
      PROVE  LockHeld'
  BY <1>2, <1>3, <1>7, ZenonT(60) DEF SetOnChainTxSendHash, RevertOnChainPayment, Void, ICheckBalance,
     AddOnChainIntraledgerTxTransfer, StopRequest, Return
<1>8. ASSUME NEW w \in Wallets, WalletLockExpires(w) PROVE LockHeld'
  BY <1>8, Zenon DEF WalletLockExpires, requestVars
<1>9. ASSUME NEW r \in Requests, Mined(r) \/ SettlePendingOnChainPayment(r) \/ EventLost(r)
      PROVE  LockHeld'
  BY <1>1, <1>9, Zenon DEF Mined, SettlePendingOnChainPayment, EventLost, requestVars
<1>10. CASE RebalanceStart \/ RebalancePay \/ AddColdStorageTxReceive \/ RebalanceFails \/ UNCHANGED vars
  BY <1>1, <1>10, Zenon DEF RebalanceStart, RebalancePay, AddColdStorageTxReceive, RebalanceFails, vars,
     requestVars
<1> QED
  BY NextCases, <1>4, <1>5, <1>6, <1>7, <1>8, <1>9, <1>10, ZenonT(60) DEF RequestAction

\* A request's amounts, journal sums and hash change in its own steps only.
LEMMA OthersKept ==
  ASSUME TypeInv, Next, NEW q \in Requests, ~RequestAction(q)
  PROVE  /\ pc'[q] = pc[q] /\ stop'[q] = stop[q] /\ amount'[q] = amount[q] /\ toSend'[q] = toSend[q]
         /\ entry'[q] = entry[q] /\ hash'[q] = hash[q]
<1> USE DEF TypeInv, RequestTypes, LedgerTypes
<1>1. ASSUME NEW r \in Requests, r # q, RequestAction(r)
      PROVE  /\ pc'[q] = pc[q] /\ stop'[q] = stop[q]
             /\ amount'[q] = amount[q] /\ toSend'[q] = toSend[q]
  BY <1>1, ZenonT(60) DEF RequestAction, PayOnChainByWalletId, EstimateFee, LockWalletId, CheckBalance,
     AddOnChainTxSend, PayToAddress, PayToAddressUnknown, SetOnChainTxSendHash,
     RevertOnChainPayment, Void, ICheckBalance, AddOnChainIntraledgerTxTransfer, StopRequest,
     Goto, Return
<1>2. ASSUME NEW r \in Requests, r # q, RequestAction(r)
      PROVE  entry'[q] = entry[q] /\ hash'[q] = hash[q]
  BY <1>2, ZenonT(60) DEF RequestAction, PayOnChainByWalletId, EstimateFee, LockWalletId, CheckBalance,
     AddOnChainTxSend, PayToAddress, PayToAddressUnknown, SetOnChainTxSendHash,
     RevertOnChainPayment, Void, ICheckBalance, AddOnChainIntraledgerTxTransfer, StopRequest,
     ledgerVars
<1>3. ASSUME NEW r \in Requests, Mined(r) \/ SettlePendingOnChainPayment(r) \/ EventLost(r)
      PROVE  UNCHANGED <<requestVars, entry, hash>>
  BY <1>3, Zenon DEF Mined, SettlePendingOnChainPayment, EventLost, ledgerVars
<1>4. ASSUME \/ \E w \in Wallets : WalletLockExpires(w)
             \/ RebalanceStart \/ RebalancePay \/ AddColdStorageTxReceive \/ RebalanceFails
             \/ UNCHANGED vars
      PROVE  UNCHANGED <<requestVars, entry, hash>>
  BY <1>4, Zenon DEF WalletLockExpires, RebalanceStart, RebalancePay, AddColdStorageTxReceive,
     RebalanceFails, vars, ledgerVars
<1> QED
  BY NextCases, <1>1, <1>2, <1>3, <1>4, Zenon DEF requestVars

\* What is sent is fixed by the estimate, out of the amount.
LEMMA SendLessStep ==
  ASSUME TypeInv, SendLess, Next
  PROVE  SendLess'
<1> USE OnChainSendAssumption DEF TypeInv, RequestTypes
<1> SUFFICES ASSUME NEW q \in Requests, pc'[q] \in {"lock", "balance", "record"}
             PROVE  toSend'[q] <= amount'[q]
  BY Zenon DEF SendLess
<1>1. CASE ~RequestAction(q)
  BY <1>1, OthersKept, Zenon DEF SendLess
<1>2. CASE EstimateFee(q)
  <2>1. PICK minerFee \in MinerFees, imbalance \in Imbalances :
          LET sats == IF sendAll[q] THEN amount[q] - EstimatedFee(q, minerFee, imbalance) ELSE amount[q]
          IN toSend' = [toSend EXCEPT ![q] = sats]
    BY <1>2, Zenon DEF EstimateFee, Goto
  <2>2. EstimatedFee(q, minerFee, imbalance) \in Nat
    BY FeeTypes, SMTT(60) DEF EstimatedFee, MinerFees
  <2>3. UNCHANGED amount
    BY <1>2, ZenonT(60) DEF EstimateFee
  <2> QED
    BY <2>1, <2>2, <2>3
<1>3. CASE LockWalletId(q) \/ CheckBalance(q)
  BY <1>3, Zenon DEF LockWalletId, CheckBalance, Goto, Return, SendLess
<1>4. ASSUME \/ PayOnChainByWalletId(q) \/ AddOnChainTxSend(q) \/ PayToAddress(q)
             \/ PayToAddressUnknown(q) \/ SetOnChainTxSendHash(q) \/ RevertOnChainPayment(q)
             \/ Void(q) \/ ICheckBalance(q) \/ AddOnChainIntraledgerTxTransfer(q) \/ StopRequest(q)
      PROVE  FALSE
  BY <1>4, ZenonT(60) DEF PayOnChainByWalletId, AddOnChainTxSend, PayToAddress, PayToAddressUnknown,
     SetOnChainTxSendHash, RevertOnChainPayment, Void, ICheckBalance,
     AddOnChainIntraledgerTxTransfer, StopRequest, Goto, Return
<1> QED
  BY <1>1, <1>2, <1>3, <1>4, ZenonT(60) DEF RequestAction

\* A wallet is debited by its own requests only: by the record of a payment, with the
\* highest estimate at most, or by a transfer inside the ledger.
LEMMA Debits ==
  ASSUME TypeInv, Next, NEW w \in Wallets, balance'[w] < balance[w]
  PROVE  \E r \in Requests :
           /\ WalletOf[r] = w /\ pc'[r] \in {"pay", "done"}
           /\ \/ /\ pc[r] = "record"
                 /\ \E imbalance \in Imbalances : balance'[w] >=
                      balance[w] - (toSend[r] + BankFee(toSend[r], MinBankFee, imbalance) + MaxMinerFee)
              \/ pc[r] = "itransfer" /\ balance'[w] >= balance[w] - amount[r]
<1> USE OnChainSendAssumption DEF TypeInv, RequestTypes, LedgerTypes
<1>0. balance[w] \in Int /\ balance'[w] \in Int
  BY LedgerTypesStep, ZenonT(60)
<1>1. CASE UNCHANGED balance
  BY <1>1
<1>2. ASSUME NEW r \in Requests, AddOnChainTxSend(r), ~UNCHANGED balance
      PROVE  /\ WalletOf[r] = w /\ pc'[r] = "pay" /\ pc[r] = "record"
             /\ \E imbalance \in Imbalances : balance'[w] >=
                  balance[w] - (toSend[r] + BankFee(toSend[r], MinBankFee, imbalance) + MaxMinerFee)
  <2>1. PICK minerFee \in MinerFees, imbalance \in Imbalances :
          /\ balance' = [balance EXCEPT ![WalletOf[r]] =
                           @ - (toSend[r] + BankFee(toSend[r], MinBankFee, imbalance) + minerFee)]
          /\ Goto(r, "pay")
    BY <1>2, Zenon DEF AddOnChainTxSend, ledgerVars
  <2>2. /\ BankFee(toSend[r], MinBankFee, imbalance) \in Nat /\ toSend[r] \in Nat
        /\ minerFee \in Nat /\ minerFee <= MaxMinerFee
    BY FeeTypes DEF MinerFees
  <2> HIDE DEF BankFee, MinBankFee
  <2>3. WalletOf[r] = w
    BY <2>1, <1>0
  <2>4. pc[r] = "record" /\ pc'[r] = "pay"
    BY <1>2, <2>1, ZenonT(60) DEF AddOnChainTxSend, Goto
  <2>5. balance'[w] = balance[w] - (toSend[r] + BankFee(toSend[r], MinBankFee, imbalance) + minerFee)
    BY <2>1, <2>3, ZenonT(60)
  <2>6. balance'[w] >= balance[w] - (toSend[r] + BankFee(toSend[r], MinBankFee, imbalance) + MaxMinerFee)
    BY <1>0, <2>2, <2>5, SMTT(60)
  <2> QED
    BY <2>3, <2>4, <2>6, Zenon
<1>3. ASSUME NEW r \in Requests, Void(r) PROVE FALSE
  <2>1. entry[r].sats \in Nat /\ balance[w] \in Int
    OBVIOUS
  <2>2. balance'[w] = balance[w] \/ balance'[w] = balance[w] + entry[r].sats
    BY <1>3, Zenon DEF Void
  <2> QED
    BY <2>1, <2>2
<1>4. ASSUME NEW r \in Requests, AddOnChainIntraledgerTxTransfer(r)
      PROVE  /\ WalletOf[r] = w /\ pc'[r] = "done" /\ pc[r] = "itransfer"
             /\ balance'[w] >= balance[w] - amount[r]
  <2>1. payee[r] \in Wallets /\ WalletOf[r] \in Wallets /\ amount[r] \in Nat
    BY <1>4, Zenon DEF AddOnChainIntraledgerTxTransfer, PayeeInside
  <2>2. WalletOf[r] = w /\ balance'[w] >= balance[w] - amount[r]
    BY <1>4, <2>1 DEF AddOnChainIntraledgerTxTransfer
  <2> QED
    BY <1>4, <2>2, ZenonT(60) DEF AddOnChainIntraledgerTxTransfer, Return, Goto
<1>5. ASSUME NEW r \in Requests,
             \/ PayOnChainByWalletId(r) \/ EstimateFee(r) \/ LockWalletId(r) \/ CheckBalance(r)
             \/ PayToAddress(r) \/ PayToAddressUnknown(r) \/ SetOnChainTxSendHash(r)
             \/ RevertOnChainPayment(r) \/ ICheckBalance(r) \/ StopRequest(r)
             \/ Mined(r) \/ SettlePendingOnChainPayment(r) \/ EventLost(r)
      PROVE  UNCHANGED balance
  BY <1>5, Zenon DEF PayOnChainByWalletId, EstimateFee, LockWalletId, CheckBalance, PayToAddress,
     PayToAddressUnknown, SetOnChainTxSendHash, RevertOnChainPayment, ICheckBalance,
     StopRequest, Mined, SettlePendingOnChainPayment, EventLost, ledgerVars
<1>6. ASSUME \/ \E v \in Wallets : WalletLockExpires(v)
             \/ RebalanceStart \/ RebalancePay \/ AddColdStorageTxReceive \/ RebalanceFails
             \/ UNCHANGED vars
      PROVE  UNCHANGED balance
  BY <1>6, Zenon DEF WalletLockExpires, RebalanceStart, RebalancePay, AddColdStorageTxReceive,
     RebalanceFails, vars, ledgerVars
<1>7. ~UNCHANGED balance
  BY <1>0
<1> HIDE OnChainSendAssumption DEF TypeInv, RequestTypes, LedgerTypes
<1>8. PICK r \in Requests : RequestAction(r) \/ Mined(r) \/ SettlePendingOnChainPayment(r) \/ EventLost(r)
  BY NextCases, <1>6, <1>7, Zenon
<1>9. AddOnChainTxSend(r) \/ AddOnChainIntraledgerTxTransfer(r)
  BY <1>3, <1>5, <1>7, <1>8, Zenon DEF RequestAction
<1> QED
  BY <1>2, <1>4, <1>7, <1>9, Zenon

\* Nobody but the holder of the lock debits the wallet behind the balance check.
LEMMA AffordableStep ==
  ASSUME TypeInv, LockHeld, Affordable, Next
  PROVE  Affordable'
<1> USE OnChainSendAssumption DEF TypeInv, RequestTypes, LedgerTypes
<1>1. ASSUME NEW q \in Requests, pc[q] \in {"record", "itransfer"}, pc'[q] = pc[q]
      PROVE  balance'[WalletOf[q]] >= balance[WalletOf[q]]
  <2> SUFFICES ASSUME balance'[WalletOf[q]] < balance[WalletOf[q]] PROVE FALSE
    BY LedgerTypesStep
  <2>1. PICK r \in Requests : /\ WalletOf[r] = WalletOf[q] /\ pc'[r] \in {"pay", "done"}
                              /\ pc[r] \in {"record", "itransfer"}
    BY Debits
  <2>2. r = q
    BY <1>1, <2>1, Zenon DEF LockHeld, Locked
  <2> QED
    BY <1>1, <2>1, <2>2, ZenonT(60)
<1>2. ASSUME NEW q \in Requests, RequestAction(q), pc'[q] \in {"record", "itransfer"}
      PROVE  \/ pc'[q] = "record" /\ CheckBalance(q)
             \/ pc'[q] = "itransfer" /\ ICheckBalance(q)
  BY <1>2, ZenonT(60) DEF RequestAction, PayOnChainByWalletId, EstimateFee, LockWalletId, CheckBalance,
     AddOnChainTxSend, PayToAddress, PayToAddressUnknown, SetOnChainTxSendHash,
     RevertOnChainPayment, Void, ICheckBalance, AddOnChainIntraledgerTxTransfer, StopRequest,
     Goto, Return
<1>3. ASSUME NEW q \in Requests, pc'[q] = "record"
      PROVE  \E imbalance \in Imbalances :
               balance'[WalletOf[q]] >= toSend'[q] + BankFee(amount'[q], WithdrawFee, imbalance) + MinMinerFee
  <2>1. CASE ~RequestAction(q)
    <3>1. pc[q] = "record" /\ amount'[q] = amount[q] /\ toSend'[q] = toSend[q]
      BY <1>3, <2>1, OthersKept, ZenonT(60)
    <3>2. PICK imbalance \in Imbalances :
            balance[WalletOf[q]] >= toSend[q] + BankFee(amount[q], WithdrawFee, imbalance) + MinMinerFee
      BY <3>1, Zenon DEF Affordable
    <3>3. BankFee(amount[q], WithdrawFee, imbalance) \in Nat
      BY FeeTypes
    <3>4. balance'[WalletOf[q]] \in Int
      BY LedgerTypesStep, Zenon
    <3> HIDE DEF BankFee
    <3> QED
      BY <1>1, <1>3, <3>1, <3>2, <3>3, <3>4
  <2>2. CASE RequestAction(q)
    <3>1. CheckBalance(q)
      BY <1>2, <1>3, <2>2, ZenonT(60)
    <3>2. PICK minerFee \in MinerFees, imbalance \in Imbalances :
            balance[WalletOf[q]] >= toSend[q] + (BankFee(amount[q], WithdrawFee, imbalance) + minerFee)
      BY <1>3, <3>1, ZenonT(60) DEF CheckBalance, EstimatedFee, Return, Goto
    <3>3. UNCHANGED <<balance, amount, toSend>>
      BY <3>1, ZenonT(60) DEF CheckBalance, ledgerVars
    <3>4. BankFee(amount[q], WithdrawFee, imbalance) \in Nat /\ minerFee >= MinMinerFee /\ minerFee \in Nat
      BY FeeTypes DEF MinerFees
    <3> HIDE DEF BankFee
    <3> QED
      BY <3>2, <3>3, <3>4
  <2> QED
    BY <2>1, <2>2, ZenonT(60)
<1>4. ASSUME NEW q \in Requests, pc'[q] = "itransfer" PROVE balance'[WalletOf[q]] >= amount'[q]
  <2>1. CASE ~RequestAction(q)
    <3>1. pc[q] = "itransfer" /\ amount'[q] = amount[q] /\ balance'[WalletOf[q]] \in Int
      BY <1>4, <2>1, OthersKept, LedgerTypesStep, ZenonT(60)
    <3> QED
      BY <1>1, <1>4, <3>1 DEF Affordable
  <2>2. CASE RequestAction(q)
    BY <1>2, <1>4, <2>2, ZenonT(60) DEF ICheckBalance, Return, Goto, ledgerVars
  <2> QED
    BY <2>1, <2>2, Zenon
<1> QED
  BY <1>3, <1>4, ZenonT(60) DEF Affordable

\* The debit of a payment exceeds what the balance check saw by the slack at most.
LEMMA OverdraftStep ==
  ASSUME OverdraftInv, Next
  PROVE  OverdraftBounded'
<1> USE OnChainSendAssumption DEF OverdraftInv, TypeInv, RequestTypes, LedgerTypes
<1> SUFFICES ASSUME NEW w \in Wallets PROVE balance'[w] >= -FeeSlack
  BY Zenon DEF OverdraftBounded
<1>1. balance[w] \in Int /\ balance'[w] \in Int
  BY LedgerTypesStep, ZenonT(60)
<1>2. CASE balance'[w] >= balance[w]
  BY <1>2, <1>1, SlackTypes DEF OverdraftBounded
<1>3. CASE balance'[w] < balance[w]
  <2>1. PICK r \in Requests :
          /\ WalletOf[r] = w
          /\ \/ /\ pc[r] = "record"
                /\ \E imbalance \in Imbalances : balance'[w] >=
                     balance[w] - (toSend[r] + BankFee(toSend[r], MinBankFee, imbalance) + MaxMinerFee)
             \/ pc[r] = "itransfer" /\ balance'[w] >= balance[w] - amount[r]
    BY <1>3, Debits, ZenonT(60)
  <2>2. CASE pc[r] = "record"
    <3>1. toSend[r] <= amount[r]
      BY <2>2, Zenon DEF SendLess
    <3>2. PICK i \in Imbalances :
            balance'[w] >= balance[w] - (toSend[r] + BankFee(toSend[r], MinBankFee, i) + MaxMinerFee)
      BY <2>1, <2>2, ZenonT(60)
    <3>3. PICK j \in Imbalances :
            balance[w] >= toSend[r] + BankFee(amount[r], WithdrawFee, j) + MinMinerFee
      BY <2>1, <2>2, ZenonT(60) DEF Affordable
    <3>4. balance'[w] \in Int
      BY LedgerTypesStep, ZenonT(60)
    <3>5. /\ BankFee(amount[r], WithdrawFee, j) \in Nat /\ BankFee(toSend[r], MinBankFee, i) \in Nat
          /\ BankFeeSlack \in Nat
          /\ BankFee(toSend[r], MinBankFee, i) <= BankFee(amount[r], WithdrawFee, j) + BankFeeSlack
      BY <3>1, FeeTypes, SlackTypes, FeeBound, ZenonT(60)
    <3> HIDE DEF BankFee, MinBankFee, BankFeeSlack
    <3> QED
      BY <3>2, <3>3, <3>4, <3>5 DEF FeeSlack
  <2>3. CASE pc[r] = "itransfer"
    BY <1>1, <2>1, <2>3, SlackTypes DEF Affordable
  <2> QED
    BY <2>1, <2>2, <2>3, ZenonT(60)
<1> QED
  BY <1>2, <1>3, <1>1

\* The types of the model, for every instance: an amount to send and the hot wallet
\* never become negative.
THEOREM TypeCorrect == Spec => []TypeOK
<1>1. Init => TypeInv
  BY TypeInvInit, Zenon
<1>2. TypeInv /\ [Next]_vars => TypeInv'
  BY TypeInvStep, Zenon
<1>3. TypeInv => TypeOK
  BY Zenon DEF TypeInv, RequestTypes, LedgerTypes, ChainTypes, TypeOK
<1> QED
  BY <1>1, <1>2, <1>3, PTL DEF Spec

\* payOnChainByWalletId overdraws a wallet by no more than one change of the fee estimate,
\* for any wallets, requests, fees, faults and interleaving.
THEOREM OverdraftLimited == Spec => []OverdraftBounded
<1>1. Init => OverdraftInv
  <2>1. ASSUME Init PROVE TypeInv
    BY <2>1, TypeInvInit, Zenon
  <2> QED
    BY <2>1, SlackTypes, OnChainSendAssumption DEF Init, OverdraftInv, LockHeld, Locked, SendLess,
       Affordable, OverdraftBounded
<1>2. OverdraftInv /\ [Next]_vars => OverdraftInv'
  <2> SUFFICES ASSUME OverdraftInv, [Next]_vars PROVE OverdraftInv'
    OBVIOUS
  <2>1. CASE Next
    BY <2>1, TypeInvStep, LockHeldStep, SendLessStep, AffordableStep, OverdraftStep, Zenon DEF OverdraftInv
  <2>2. CASE UNCHANGED vars
    BY <2>2, TypeInvStep, Zenon DEF OverdraftInv, LockHeld, SendLess, Affordable, OverdraftBounded, vars,
       ledgerVars, requestVars
  <2> QED
    BY <2>1, <2>2
<1>3. OverdraftInv => OverdraftBounded
  BY Zenon DEF OverdraftInv
<1> QED
  BY <1>1, <1>2, <1>3, PTL DEF Spec

-----------------------------------------------------------------------------
(* The life of a journal and of its transaction *)

\* Where a request stands, what its journal says and what is on the chain.
LifeOf(r) ==
  /\ pc[r] \in {"request", "estimate", "lock", "balance", "record", "ilock", "ibalance", "itransfer"} =>
       journal[r] = "none" /\ tx[r] = "none"
  /\ pc[r] \in {"pay", "revert"} => journal[r] = "pending" /\ tx[r] = "none"
  /\ pc[r] = "void" => journal[r] = "closed" /\ tx[r] = "none"
  /\ pc[r] = "setHash" => journal[r] = "pending" /\ tx[r] # "none"
  /\ hash[r] = "final" => pc[r] = "done"
  /\ journal[r] # "none" => entry[r].sats >= toSend[r]
  /\ tx[r] # "none" => journal[r] \in {"pending", "closed"}
  /\ journal[r] = "closed" => tx[r] = "mined" \/ pc[r] = "void" \/ (pc[r] = "done" /\ stop[r] = "void")
  /\ event[r] = "queued" => tx[r] = "mined"
  /\ journal[r] = "closed" => tx[r] # "mempool"

LifeInv == TypeInv /\ \A r \in Requests : LifeOf(r)

\* A request's journal, transaction and event change in its own steps, or when its
\* transaction is mined or its event handled or lost.
LEMMA LifeKept ==
  ASSUME TypeInv, Next, NEW q \in Requests, ~RequestAction(q), ~Mined(q),
         ~SettlePendingOnChainPayment(q), ~EventLost(q)
  PROVE  journal'[q] = journal[q] /\ tx'[q] = tx[q] /\ event'[q] = event[q]
<1> USE DEF TypeInv, LedgerTypes, ChainTypes
<1>1. ASSUME NEW r \in Requests, r # q, RequestAction(r)
      PROVE  journal'[q] = journal[q]
  BY <1>1, ZenonT(60) DEF RequestAction, PayOnChainByWalletId, EstimateFee, LockWalletId, CheckBalance,
     AddOnChainTxSend, PayToAddress, PayToAddressUnknown, SetOnChainTxSendHash,
     RevertOnChainPayment, Void, ICheckBalance, AddOnChainIntraledgerTxTransfer, StopRequest,
     ledgerVars
<1>2. ASSUME NEW r \in Requests, r # q, RequestAction(r)
      PROVE  tx'[q] = tx[q] /\ event'[q] = event[q]
  BY <1>2, ZenonT(60) DEF RequestAction, PayOnChainByWalletId, EstimateFee, LockWalletId, CheckBalance,
     AddOnChainTxSend, PayToAddress, PayToAddressUnknown, SetOnChainTxSendHash,
     RevertOnChainPayment, Void, ICheckBalance, AddOnChainIntraledgerTxTransfer, StopRequest,
     Broadcast, chainVars
<1>3. ASSUME NEW r \in Requests, r # q, Mined(r) \/ SettlePendingOnChainPayment(r) \/ EventLost(r)
      PROVE  journal'[q] = journal[q] /\ tx'[q] = tx[q] /\ event'[q] = event[q]
  BY <1>3, ZenonT(60) DEF Mined, SettlePendingOnChainPayment, EventLost, ledgerVars
<1>4. ASSUME \/ \E w \in Wallets : WalletLockExpires(w)
             \/ RebalanceStart \/ RebalancePay \/ AddColdStorageTxReceive \/ RebalanceFails
             \/ UNCHANGED vars
      PROVE  UNCHANGED <<journal, tx, event>>
  BY <1>4, Zenon DEF WalletLockExpires, RebalanceStart, RebalancePay, AddColdStorageTxReceive,
     RebalanceFails, vars, ledgerVars, chainVars
<1> QED
  BY NextCases, <1>1, <1>2, <1>3, <1>4, Zenon

\* Each step of a request takes its journal and its transaction one stage on.
LEMMA LifeStep ==
  ASSUME TypeInv, Next, NEW q \in Requests, LifeOf(q)
  PROVE  LifeOf(q)'
<1> USE OnChainSendAssumption DEF TypeInv, RequestTypes, LedgerTypes, ChainTypes, LifeOf
<1>1. CASE PayOnChainByWalletId(q) \/ EstimateFee(q)
  <2>1. /\ pc[q] \in {"request", "estimate"} /\ pc'[q] \in {"estimate", "ilock", "lock", "done"}
        /\ UNCHANGED <<stop, journal, tx, event, hash>>
    BY <1>1, ZenonT(60) DEF PayOnChainByWalletId, EstimateFee, Goto, ledgerVars, chainVars
  <2> QED
    BY <2>1, ZenonT(60)
<1>2. CASE LockWalletId(q) \/ CheckBalance(q) \/ ICheckBalance(q) \/ AddOnChainIntraledgerTxTransfer(q)
  <2>1. /\ pc[q] \in {"lock", "ilock", "balance", "ibalance", "itransfer"}
        /\ pc'[q] \in {"balance", "ibalance", "record", "itransfer", "done"}
        /\ UNCHANGED <<stop, journal, tx, event, hash>>
    BY <1>2, ZenonT(60) DEF LockWalletId, CheckBalance, ICheckBalance, AddOnChainIntraledgerTxTransfer, Goto,
       Return, ledgerVars, chainVars
  <2> QED
    BY <2>1, ZenonT(60)
<1>3. CASE AddOnChainTxSend(q)
  <2>1. CASE UNCHANGED ledgerVars
    <3>1. pc[q] = "record" /\ pc'[q] \in {"done", "pay"} /\ UNCHANGED <<stop, tx, event, toSend>>
      BY <1>3, ZenonT(60) DEF AddOnChainTxSend, Goto, Return, chainVars
    <3>2. pc'[q] = "done" \/ journal'[q] = "pending"
      BY <1>3, ZenonT(60) DEF AddOnChainTxSend, Goto, Return
    <3> QED
      BY <2>1, <3>1, <3>2, ZenonT(60) DEF ledgerVars
  <2>2. CASE ~UNCHANGED ledgerVars
    <3>1. PICK minerFee \in MinerFees, imbalance \in Imbalances :
            LET bankFee == BankFee(toSend[q], MinBankFee, imbalance)
                sats == toSend[q] + bankFee + minerFee
            IN /\ entry' = [entry EXCEPT ![q] = [sats |-> sats, lnd |-> sats - bankFee]]
               /\ journal' = [journal EXCEPT ![q] = "pending"]
               /\ Goto(q, "pay")
      BY <1>3, <2>2, ZenonT(60) DEF AddOnChainTxSend, SendEntry
    <3>2. BankFee(toSend[q], MinBankFee, imbalance) \in Nat /\ minerFee \in Nat /\ toSend[q] \in Nat
      BY FeeTypes DEF MinerFees
    <3> HIDE DEF BankFee, MinBankFee
    <3>3. entry'[q].sats >= toSend[q]
      BY <3>1, <3>2
    <3>4. pc[q] = "record" /\ UNCHANGED <<stop, tx, event, hash, toSend>>
      BY <1>3, <2>2, ZenonT(60) DEF AddOnChainTxSend, chainVars
    <3>5. journal'[q] = "pending" /\ pc'[q] = "pay"
      BY <3>1, ZenonT(60) DEF Goto
    <3> QED
      BY <3>3, <3>4, <3>5, ZenonT(60)
  <2> QED
    BY <2>1, <2>2, Zenon
<1>4. CASE PayToAddress(q)
  <2>1. /\ pc[q] = "pay" /\ UNCHANGED <<stop, journal, hash, entry, toSend, event>>
        /\ \/ pc'[q] = "setHash" /\ tx'[q] = "mempool"
           \/ pc'[q] = "revert" /\ tx'[q] = tx[q]
    BY <1>4, ZenonT(60) DEF PayToAddress, Broadcast, Goto, ledgerVars, chainVars
  <2>2. hash[q] = "temporary"
    BY <2>1, ZenonT(60)
  <2> QED
    BY <2>1, <2>2, ZenonT(60)
<1>5. CASE PayToAddressUnknown(q)
  <2>1. /\ pc[q] = "pay" /\ UNCHANGED <<journal, entry, toSend, event>>
        /\ pc'[q] = "done" /\ tx'[q] \in {"mempool", tx[q]}
    BY <1>5, ZenonT(60) DEF PayToAddressUnknown, Broadcast, Return, Goto, ledgerVars, chainVars
  <2> QED
    BY <2>1, ZenonT(60)
<1>6. CASE SetOnChainTxSendHash(q)
  BY <1>6, ZenonT(60) DEF SetOnChainTxSendHash, Return, Goto, chainVars
<1>7. CASE RevertOnChainPayment(q)
  BY <1>7, ZenonT(60) DEF RevertOnChainPayment, Goto, chainVars
<1>8. CASE Void(q)
  <2>1. /\ pc[q] = "void" /\ pc'[q] = "done" /\ journal'[q] = "voided"
        /\ UNCHANGED <<stop, tx, event, entry, toSend>>
    BY <1>8, ZenonT(60) DEF Void, Return, Goto, chainVars
  <2> QED
    BY <2>1, ZenonT(60)
<1>9. CASE StopRequest(q)
  <2>1. /\ pc'[q] = "done" /\ stop'[q] = pc[q] /\ pc[q] # "done"
        /\ UNCHANGED <<journal, tx, event, entry, hash, toSend>>
    BY <1>9, ZenonT(60) DEF StopRequest, Goto, ledgerVars, chainVars
  <2> QED
    BY <2>1, ZenonT(60)
<1>10. CASE Mined(q)
  BY <1>10, ZenonT(60) DEF Mined, ledgerVars, requestVars
<1>11. CASE SettlePendingOnChainPayment(q) \/ EventLost(q)
  <2>1. /\ event[q] = "queued" /\ event'[q] # "queued"
        /\ journal'[q] = journal[q] \/ (journal[q] = "pending" /\ hash[q] = "final" /\ journal'[q] = "closed")
        /\ UNCHANGED <<pc, stop, tx, entry, hash, toSend>>
    BY <1>11, ZenonT(60) DEF SettlePendingOnChainPayment, EventLost, requestVars, ledgerVars
  <2> QED
    BY <2>1, ZenonT(60)
<1>12. CASE ~RequestAction(q) /\ ~Mined(q) /\ ~SettlePendingOnChainPayment(q) /\ ~EventLost(q)
  <2>1. /\ pc'[q] = pc[q] /\ stop'[q] = stop[q] /\ toSend'[q] = toSend[q]
        /\ entry'[q] = entry[q] /\ hash'[q] = hash[q]
        /\ journal'[q] = journal[q] /\ tx'[q] = tx[q] /\ event'[q] = event[q]
    BY <1>12, OthersKept, LifeKept, ZenonT(60)
  <2> QED
    BY <2>1, ZenonT(60)
<1> QED
  BY <1>1, <1>2, <1>3, <1>4, <1>5, <1>6, <1>7, <1>8, <1>9, <1>10, <1>11, <1>12, Zenon DEF RequestAction

\* The life of every request is as it should be in every state.
LEMMA LifeInductive == (Init => LifeInv) /\ (LifeInv /\ [Next]_vars => LifeInv')
<1>1. Init => LifeInv
  <2>1. ASSUME Init PROVE TypeInv
    BY <2>1, TypeInvInit
  <2> QED
    BY <2>1, ZenonT(60) DEF Init, LifeInv, LifeOf
<1>2. ASSUME LifeInv, [Next]_vars PROVE LifeInv'
  <2>1. CASE Next
    BY <1>2, <2>1, TypeInvStep, LifeStep, Zenon DEF LifeInv
  <2>2. CASE UNCHANGED vars
    BY <1>2, <2>2, TypeInvStep, ZenonT(60) DEF LifeInv, LifeOf, vars, ledgerVars, requestVars, chainVars
  <2> QED
    BY <1>2, <2>1, <2>2, Zenon
<1> QED
  BY <1>1, <1>2, Zenon

\* A transaction of the bank stays charged to its sender: a payment is recorded before it
\* is sent and reverted only after errors that exclude a broadcast, for any number of
\* requests, crashes, lost events and failed calls.
THEOREM ChargedWhileSent == Spec => []SentStaysCharged
<1>1. LifeInv => SentStaysCharged
  BY Zenon DEF LifeInv, LifeOf, SentStaysCharged
<1> QED
  BY <1>1, LifeInductive, PTL DEF Spec

\* A journal leaves the pending state only for a mined transaction or for a payment that
\* lnd refused, or that a crash left between the two writes of its reversal.
THEOREM PendingTillMined == Spec => []PendingUntilMined
<1>1. LifeInv => PendingUntilMined
  BY Zenon DEF LifeInv, LifeOf, PendingUntilMined
<1> QED
  BY <1>1, LifeInductive, PTL DEF Spec

-----------------------------------------------------------------------------
(***************************************************************************)
(* OnChainSend implements OnChainSendContract, for any wallets, requests,  *)
(* fees and faults.  The life of a journal says at which stage a payment   *)
(* is when a step is taken; a step shows the sender one request only.      *)
(***************************************************************************)

\* A step of one request, of its transaction or of its event leaves the others alone.
LEMMA OwnOnly ==
  ASSUME TypeInv, NEW r \in Requests, NEW b \in Requests, b # r,
         RequestAction(r) \/ Mined(r) \/ SettlePendingOnChainPayment(r) \/ EventLost(r)
  PROVE  /\ StageOf(b)' = StageOf(b) /\ ChargeOf(b)' = ChargeOf(b) /\ PaidOf(b)' = PaidOf(b)
<1> USE DEF TypeInv, LedgerTypes, RequestTypes, ChainTypes, RequestAction, PayOnChainByWalletId,
            EstimateFee, LockWalletId, CheckBalance, AddOnChainTxSend, PayToAddress,
            PayToAddressUnknown, SetOnChainTxSendHash, RevertOnChainPayment, Void, ICheckBalance,
            AddOnChainIntraledgerTxTransfer, StopRequest, Broadcast, Mined,
            SettlePendingOnChainPayment, EventLost, ledgerVars, requestVars, chainVars
<1>1. journal'[b] = journal[b]
  BY ZenonT(60)
<1>2. tx'[b] = tx[b]
  BY ZenonT(60)
<1>3. entry'[b] = entry[b]
  BY ZenonT(60)
<1>4. toSend'[b] = toSend[b]
  BY ZenonT(60)
<1> QED
  BY <1>1, <1>2, <1>3, <1>4, Zenon DEF StageOf, ChargeOf, PaidOf

\* So the contract sees the new stage, charge and payment of one request.
LEMMA OneShown ==
  ASSUME NEW r \in Requests,
         \A b \in Requests : b # r => /\ StageOf(b)' = StageOf(b) /\ ChargeOf(b)' = ChargeOf(b)
                                     /\ PaidOf(b)' = PaidOf(b)
  PROVE  /\ [b \in Requests |-> StageOf(b)]' =
              [[b \in Requests |-> StageOf(b)] EXCEPT ![r] = StageOf(r)']
         /\ [b \in Requests |-> ChargeOf(b)]' =
              [[b \in Requests |-> ChargeOf(b)] EXCEPT ![r] = ChargeOf(r)']
         /\ [b \in Requests |-> PaidOf(b)]' =
              [[b \in Requests |-> PaidOf(b)] EXCEPT ![r] = PaidOf(r)']
         /\ StageOf(r)' = StageOf(r) => UNCHANGED [b \in Requests |-> StageOf(b)]
         /\ ChargeOf(r)' = ChargeOf(r) => UNCHANGED [b \in Requests |-> ChargeOf(b)]
         /\ PaidOf(r)' = PaidOf(r) => UNCHANGED [b \in Requests |-> PaidOf(b)]
BY ZenonT(60)

\* What the contract does not show changes nothing in it.
LEMMA NothingShown ==
  ASSUME UNCHANGED <<journal, tx, entry, balance>>,
         \A b \in Requests : PaidOf(b)' = PaidOf(b)
  PROVE  UNCHANGED C!vars
<1>1. \A b \in Requests : StageOf(b)' = StageOf(b) /\ ChargeOf(b)' = ChargeOf(b)
  BY Zenon DEF StageOf, ChargeOf
<1> QED
  BY <1>1, ZenonT(60) DEF C!vars

\* addOnChainTxSend takes the charge, or it fails and nothing happens.
LEMMA RecordHolds ==
  ASSUME LifeInv, NEW r \in Requests, AddOnChainTxSend(r)
  PROVE  C!Hold(r) \/ UNCHANGED C!vars
<1>1. journal[r] = "none" /\ tx[r] = "none" /\ UNCHANGED <<tx, toSend>>
  BY ZenonT(60) DEF AddOnChainTxSend, LifeInv, LifeOf, chainVars
<1>2. CASE UNCHANGED ledgerVars
  BY <1>1, <1>2, NothingShown, Zenon DEF ledgerVars, PaidOf
<1>3. CASE ~UNCHANGED ledgerVars
  <2> DEFINE bankFee(imbalance) == BankFee(toSend[r], MinBankFee, imbalance)
             total(minerFee, imbalance) == toSend[r] + bankFee(imbalance) + minerFee
  <2>0. PICK minerFee \in MinerFees, imbalance \in Imbalances :
          /\ entry' = [entry EXCEPT ![r] = SendEntry(total(minerFee, imbalance), bankFee(imbalance))]
          /\ balance' = [balance EXCEPT ![WalletOf[r]] = @ - total(minerFee, imbalance)]
          /\ journal' = [journal EXCEPT ![r] = "pending"]
    BY <1>3, ZenonT(60) DEF AddOnChainTxSend
  <2> DEFINE sats == total(minerFee, imbalance)
             fee == bankFee(imbalance)
  <2>1. /\ entry' = [entry EXCEPT ![r] = [sats |-> sats, lnd |-> sats - fee]]
        /\ balance' = [balance EXCEPT ![WalletOf[r]] = @ - sats]
        /\ journal' = [journal EXCEPT ![r] = "pending"]
    BY <2>0, Zenon DEF SendEntry
  <2> HIDE DEF sats, fee
  <2>2. entry'[r].sats = sats /\ journal'[r] = "pending"
    BY <2>1, Zenon DEF LifeInv, TypeInv, LedgerTypes
  <2>3. TypeInv'
    <3>1. Next
      BY Zenon DEF Next, RequestStep
    <3> QED
      BY <3>1, TypeInvStep, Zenon DEF LifeInv
  <2>4. sats \in Nat
    BY <2>2, <2>3, Zenon DEF TypeInv, LedgerTypes
  <2>5. /\ StageOf(r) = "idle" /\ StageOf(r)' = "held"
        /\ ChargeOf(r)' = sats /\ PaidOf(r)' = PaidOf(r)
    BY <1>1, <2>2, Zenon DEF StageOf, ChargeOf, PaidOf
  <2>6. \A b \in Requests : b # r => /\ StageOf(b)' = StageOf(b) /\ ChargeOf(b)' = ChargeOf(b)
                                    /\ PaidOf(b)' = PaidOf(b)
    BY OwnOnly, Zenon DEF RequestAction, LifeInv
  <2> QED
    BY <2>1, <2>4, <2>5, <2>6, OneShown, ZenonT(60) DEF C!Hold, C!Become
<1> QED
  BY <1>2, <1>3, Zenon

\* payToAddress sends a payment that is held, and no more than was charged.
LEMMA BroadcastSends ==
  ASSUME LifeInv, NEW r \in Requests, PayToAddress(r) \/ PayToAddressUnknown(r)
  PROVE  C!Send(r) \/ UNCHANGED C!vars
<1>1. /\ pc[r] = "pay" /\ journal[r] = "pending" /\ tx[r] = "none"
      /\ UNCHANGED <<journal, entry, balance, toSend>>
  BY ZenonT(60) DEF PayToAddress, PayToAddressUnknown, LifeInv, LifeOf, ledgerVars
<1>2. CASE UNCHANGED tx
  BY <1>1, <1>2, NothingShown, Zenon DEF PaidOf
<1>3. CASE ~UNCHANGED tx
  <2>1. tx' = [tx EXCEPT ![r] = "mempool"]
    BY <1>3, ZenonT(60) DEF PayToAddress, PayToAddressUnknown, Broadcast, chainVars
  <2>2. tx'[r] = "mempool"
    BY <2>1, Zenon DEF LifeInv, TypeInv, ChainTypes
  <2>3. /\ StageOf(r) = "held" /\ StageOf(r)' = "sent" /\ ChargeOf(r)' = ChargeOf(r)
        /\ PaidOf(r)' = toSend[r] /\ ChargeOf(r) = entry[r].sats
    BY <1>1, <2>2, ZenonT(60) DEF StageOf, ChargeOf, PaidOf
  <2>4. toSend[r] \in 0..ChargeOf(r)
    <3>1. entry[r].sats \in Nat /\ toSend[r] \in Nat /\ entry[r].sats >= toSend[r]
      BY <1>1, ZenonT(60) DEF LifeInv, LifeOf, TypeInv, LedgerTypes, RequestTypes
    <3> QED
      BY <2>3, <3>1
  <2>5. \A b \in Requests : b # r => /\ StageOf(b)' = StageOf(b) /\ ChargeOf(b)' = ChargeOf(b)
                                    /\ PaidOf(b)' = PaidOf(b)
    BY OwnOnly, Zenon DEF RequestAction, LifeInv
  <2> QED
    BY <1>1, <2>3, <2>4, <2>5, OneShown, ZenonT(60) DEF C!Send, C!Become
<1> QED
  BY <1>2, <1>3, Zenon

\* A block confirms a payment that is sent, and the trigger settles it after that.
LEMMA ChainShown ==
  ASSUME LifeInv, NEW r \in Requests, Mined(r) \/ SettlePendingOnChainPayment(r) \/ EventLost(r)
  PROVE  C!Confirm(r) \/ C!Settle(r) \/ UNCHANGED C!vars
<1> USE DEF LifeInv, LifeOf, TypeInv, LedgerTypes, ChainTypes
<1>1. \A b \in Requests : b # r => /\ StageOf(b)' = StageOf(b) /\ ChargeOf(b)' = ChargeOf(b)
                                  /\ PaidOf(b)' = PaidOf(b)
  BY OwnOnly, Zenon
<1>2. UNCHANGED <<entry, balance, toSend>>
  BY ZenonT(60) DEF Mined, SettlePendingOnChainPayment, EventLost, ledgerVars, requestVars
<1>3. CASE Mined(r)
  <2>1. /\ tx[r] = "mempool" /\ tx'[r] = "mined" /\ journal'[r] = journal[r]
        /\ journal[r] = "pending"
    BY <1>3, ZenonT(60) DEF Mined, ledgerVars
  <2>2. /\ StageOf(r) = "sent" /\ StageOf(r)' = "confirmed" /\ ChargeOf(r)' = ChargeOf(r)
        /\ PaidOf(r)' = PaidOf(r)
    BY <1>2, <2>1, ZenonT(60) DEF StageOf, ChargeOf, PaidOf
  <2> QED
    BY <1>1, <1>2, <2>2, OneShown, ZenonT(60) DEF C!Confirm, C!Become
<1>4. CASE SettlePendingOnChainPayment(r) /\ hash[r] = "final" /\ journal[r] = "pending"
  <2>1. tx[r] = "mined" /\ tx'[r] = tx[r] /\ journal'[r] = "closed"
    BY <1>4, ZenonT(60) DEF SettlePendingOnChainPayment
  <2>2. /\ StageOf(r) = "confirmed" /\ StageOf(r)' = "settled" /\ ChargeOf(r)' = ChargeOf(r)
        /\ PaidOf(r)' = PaidOf(r)
    BY <1>2, <1>4, <2>1, ZenonT(60) DEF StageOf, ChargeOf, PaidOf
  <2> QED
    BY <1>1, <1>2, <2>2, OneShown, ZenonT(60) DEF C!Settle, C!Become
<1>5. CASE \/ EventLost(r)
           \/ SettlePendingOnChainPayment(r) /\ ~(hash[r] = "final" /\ journal[r] = "pending")
  <2>1. journal' = journal /\ tx' = tx
    BY <1>5, ZenonT(60) DEF SettlePendingOnChainPayment, EventLost, ledgerVars
  <2> QED
    BY <1>2, <2>1, NothingShown, Zenon DEF PaidOf
<1> QED
  BY <1>3, <1>4, <1>5, Zenon

\* revertOnChainPayment gives a payment back that was held and not sent.
LEMMA VoidGivesBack ==
  ASSUME LifeInv, NEW r \in Requests, Void(r)
  PROVE  C!GiveBack(r)
<1>1. /\ journal[r] = "closed" /\ tx[r] = "none" /\ journal'[r] = "voided"
      /\ balance' = [balance EXCEPT ![WalletOf[r]] = @ + entry[r].sats]
      /\ UNCHANGED <<entry, tx, toSend>>
  BY ZenonT(60) DEF Void, LifeInv, LifeOf, TypeInv, LedgerTypes, chainVars
<1>2. /\ StageOf(r) = "held" /\ StageOf(r)' = "returned" /\ ChargeOf(r) = entry[r].sats
      /\ ChargeOf(r)' = 0 /\ PaidOf(r)' = PaidOf(r)
  BY <1>1, ZenonT(60) DEF StageOf, ChargeOf, PaidOf
<1>3. \A b \in Requests : b # r => /\ StageOf(b)' = StageOf(b) /\ ChargeOf(b)' = ChargeOf(b)
                                  /\ PaidOf(b)' = PaidOf(b)
  BY OwnOnly, Zenon DEF RequestAction, LifeInv
<1> QED
  BY <1>1, <1>2, <1>3, OneShown, ZenonT(60) DEF C!GiveBack, C!Become

\* A payment inside the bank moves its amount to another wallet.
LEMMA TransferShown ==
  ASSUME LifeInv, NEW r \in Requests, AddOnChainIntraledgerTxTransfer(r)
  PROVE  C!Transfer(r)
<1>1. /\ journal[r] = "none" /\ tx[r] = "none" /\ payee[r] \in Wallets \ {WalletOf[r]}
      /\ balance' = [balance EXCEPT ![WalletOf[r]] = @ - amount[r], ![payee[r]] = @ + amount[r]]
      /\ UNCHANGED <<journal, tx, entry, toSend>>
  BY ZenonT(60) DEF AddOnChainIntraledgerTxTransfer, LifeInv, LifeOf, TypeInv, PayeeInside, chainVars
<1>2. amount[r] \in Nat /\ WalletOf[r] \in Wallets /\ balance \in [Wallets -> Int]
  BY OnChainSendAssumption, Zenon DEF LifeInv, TypeInv, RequestTypes, LedgerTypes
<1>3. balance[WalletOf[r]] - balance'[WalletOf[r]] = amount[r]
  BY <1>1, <1>2, SMT
<1>4. \A b \in Requests : StageOf(b)' = StageOf(b) /\ ChargeOf(b)' = ChargeOf(b) /\ PaidOf(b)' = PaidOf(b)
  BY <1>1, Zenon DEF StageOf, ChargeOf, PaidOf
<1>5. StageOf(r) = "idle"
  BY <1>1, Zenon DEF StageOf
<1> QED
  BY <1>1, <1>2, <1>3, <1>4, <1>5, ZenonT(60) DEF C!Transfer

\* Every step is a step of the contract or changes nothing it shows.
LEMMA ContractStep ==
  ASSUME LifeInv, [Next]_vars
  PROVE  [C!Next]_(C!vars)
<1>1. ASSUME NEW r \in Requests,
             \/ AddOnChainTxSend(r) \/ PayToAddress(r) \/ PayToAddressUnknown(r) \/ Void(r)
             \/ AddOnChainIntraledgerTxTransfer(r)
             \/ Mined(r) \/ SettlePendingOnChainPayment(r) \/ EventLost(r)
      PROVE  C!Next \/ UNCHANGED C!vars
  BY <1>1, RecordHolds, BroadcastSends, ChainShown, VoidGivesBack, TransferShown, Zenon DEF C!Next
<1>2. ASSUME NEW r \in Requests, RevertOnChainPayment(r) PROVE UNCHANGED C!vars
  <2>1. /\ journal[r] = "pending" /\ tx[r] = "none" /\ journal'[r] = "closed"
        /\ UNCHANGED <<tx, entry, toSend, balance>>
    BY <1>2, ZenonT(60) DEF RevertOnChainPayment, LifeInv, LifeOf, TypeInv, LedgerTypes, chainVars
  <2>2. StageOf(r)' = StageOf(r) /\ ChargeOf(r)' = ChargeOf(r) /\ PaidOf(r)' = PaidOf(r)
    BY <2>1, ZenonT(60) DEF StageOf, ChargeOf, PaidOf
  <2>3. \A b \in Requests : b # r => /\ StageOf(b)' = StageOf(b) /\ ChargeOf(b)' = ChargeOf(b)
                                    /\ PaidOf(b)' = PaidOf(b)
    BY <1>2, OwnOnly, Zenon DEF RequestAction, LifeInv
  <2> QED
    BY <2>1, <2>2, <2>3, OneShown, ZenonT(60) DEF C!vars
<1>3. ASSUME NEW r \in Requests, EstimateFee(r) PROVE UNCHANGED C!vars
  <2>1. pc[r] = "estimate" /\ tx[r] = "none" /\ UNCHANGED <<journal, tx, entry, balance>>
    BY <1>3, ZenonT(60) DEF EstimateFee, LifeInv, LifeOf, ledgerVars, chainVars
  <2>2. \A b \in Requests : PaidOf(b)' = PaidOf(b)
    <3>1. PaidOf(r)' = PaidOf(r)
      BY <2>1, Zenon DEF PaidOf
    <3>2. \A b \in Requests : b # r => PaidOf(b)' = PaidOf(b)
      BY <1>3, OwnOnly, Zenon DEF RequestAction, LifeInv
    <3> QED
      BY <3>1, <3>2, Zenon
  <2> QED
    BY <2>1, <2>2, NothingShown, Zenon
<1>4. CASE UNCHANGED <<journal, tx, entry, balance, toSend>>
  BY <1>4, NothingShown, Zenon DEF PaidOf
<1>5. ASSUME NEW r \in Requests,
             \/ PayOnChainByWalletId(r) \/ LockWalletId(r) \/ CheckBalance(r)
             \/ SetOnChainTxSendHash(r) \/ ICheckBalance(r) \/ StopRequest(r)
      PROVE  UNCHANGED <<journal, tx, entry, balance, toSend>>
  BY <1>5, ZenonT(60) DEF PayOnChainByWalletId, LockWalletId, CheckBalance, SetOnChainTxSendHash,
     ICheckBalance, StopRequest, ledgerVars, chainVars
<1>6. ASSUME \/ \E w \in Wallets : WalletLockExpires(w)
             \/ RebalanceStart \/ RebalancePay \/ AddColdStorageTxReceive \/ RebalanceFails
             \/ UNCHANGED vars
      PROVE  UNCHANGED <<journal, tx, entry, balance, toSend>>
  BY <1>6, ZenonT(60) DEF WalletLockExpires, RebalanceStart, RebalancePay, AddColdStorageTxReceive,
     RebalanceFails, vars, ledgerVars, requestVars, chainVars
<1>7. CASE Next
  BY <1>1, <1>2, <1>3, <1>4, <1>5, <1>6, <1>7, NextCases, ZenonT(60) DEF RequestAction
<1> QED
  BY <1>4, <1>6, <1>7, Zenon

\* payOnChainByWalletId, lnd and the trigger keep the promise of OnChainSendContract together,
\* for any number of requests, crashes, lost events and failed calls: a charge is taken
\* once and before the broadcast, it is final only for a mined transaction, and all of
\* it is given back, once, for a payment that never is sent.
THEOREM SendImplementsContract == Spec => ImplementsContract
<1>1. Init => C!Init
  <2> SUFFICES ASSUME Init PROVE C!Init
    OBVIOUS
  <2>1. \A r \in Requests : StageOf(r) = "idle" /\ ChargeOf(r) = 0 /\ PaidOf(r) = 0
    BY ZenonT(60) DEF Init, StageOf, ChargeOf, PaidOf, NoEntry
  <2> QED
    BY <2>1, ZenonT(60) DEF Init, C!Init
<1>2. LifeInv /\ [Next]_vars => [C!Next]_(C!vars)
  BY ContractStep, Zenon
<1> QED
  BY <1>1, <1>2, LifeInductive, PTL DEF Spec, ImplementsContract, C!Spec

-----------------------------------------------------------------------------
(***************************************************************************)
(* The ledger's lnd account against the hot wallet: in every state they    *)
(* differ by what is recorded and not sent, by what is sent to cold        *)
(* storage and not recorded, and by the misjudged miner fees.              *)
(***************************************************************************)
INSTANCE SetTheorems

\* Recorded in the ledger, and neither sent nor voided.
Unsent == {"pay", "revert", "void"}
Due == [r \in Requests |-> IF pc[r] \in Unsent THEN entry[r].lnd ELSE 0]

\* How far the estimate in the ledger may be from what the transaction paid.
Misjudged == [r \in Requests |-> IF tx[r] = "none" THEN 0 ELSE MaxMinerFee - MinMinerFee]

TotalDue == SumFunctionOnSet(Due, Requests)
TotalMisjudged == SumFunctionOnSet(Misjudged, Requests)
ToCold == IF rebalance.at = "record" THEN rebalance.sats + rebalance.fee ELSE 0

Within(book, wallet, due, cold, off) ==
  -off <= book - wallet + due - cold /\ book - wallet + due - cold <= off

Followed == Within(lndBook, hot, TotalDue, ToCold, TotalMisjudged)

Estimated ==
  \A r \in Requests : pc[r] = "pay" => \E minerFee \in MinerFees : entry[r].lnd = toSend[r] + minerFee

HotInv == LifeInv /\ Estimated /\ (faults = 0 => Followed)

\* The books and the hot wallet, what a request owes, and by how much its fee may be
\* misjudged, are numbers.
Numbers ==
  /\ lndBook \in Int /\ hot \in Int /\ ToCold \in Int
  /\ TotalDue \in Int /\ TotalMisjudged \in Int
  /\ \A r \in Requests : Due[r] \in Int /\ Misjudged[r] \in Int

\* That follows from the types.
LEMMA BookTypes == TypeInv => Numbers
<1> SUFFICES ASSUME TypeInv PROVE Numbers
  BY Zenon
<1>1. lndBook \in Int /\ hot \in Int
  BY SMT DEF TypeInv, LedgerTypes, ChainTypes
<1>2. rebalance.sats \in Int /\ rebalance.fee \in Int
  BY SMT DEF TypeInv, ChainTypes
<1>3. ToCold \in Int
  BY <1>2, SMT DEF ToCold
<1>4. \A r \in Requests : entry[r].lnd \in Int
  BY SMT DEF TypeInv, LedgerTypes
<1>5. \A r \in Requests : Due[r] \in Int /\ Misjudged[r] \in Int
  BY <1>4, OnChainSendAssumption, SMT DEF Due, Misjudged
<1>6. TotalDue \in Int /\ TotalMisjudged \in Int
  BY <1>5, SumType, RequestsAssumption, Zenon DEF TotalDue, TotalMisjudged
<1> QED
  BY <1>1, <1>3, <1>5, <1>6, Zenon DEF Numbers

\* So it does after a step.
LEMMA BookTypesNext == TypeInv' => Numbers'
BY BookTypes, PTL

\* A step of one request moves the totals by what it moves of its own.
LEMMA TotalsMove ==
  ASSUME TypeInv, TypeInv', NEW r \in Requests,
         \A q \in Requests \ {r} : pc'[q] = pc[q] /\ entry'[q] = entry[q] /\ tx'[q] = tx[q]
  PROVE  /\ TotalDue' = TotalDue + (Due'[r] - Due[r])
         /\ TotalMisjudged' = TotalMisjudged + (Misjudged'[r] - Misjudged[r])
<1>1. \A q \in Requests : /\ Due[q] \in Int /\ Due'[q] \in Int
                          /\ Misjudged[q] \in Int /\ Misjudged'[q] \in Int
  BY BookTypes, BookTypesNext, Zenon DEF Numbers
<1>2. \A q \in Requests \ {r} : Due'[q] = Due[q] /\ Misjudged'[q] = Misjudged[q]
  BY ZenonT(60) DEF Due, Misjudged
<1>3. SumFunctionOnSet(Due', Requests) = SumFunctionOnSet(Due, Requests) + (Due'[r] - Due[r])
  <2>1. AgreeBut(Due, Due', Requests, r)
    BY <1>1, <1>2, Zenon DEF AgreeBut
  <2> QED
    BY <2>1, SumChange, RequestsAssumption, SMT
<1>4. SumFunctionOnSet(Misjudged', Requests) =
        SumFunctionOnSet(Misjudged, Requests) + (Misjudged'[r] - Misjudged[r])
  <2>1. AgreeBut(Misjudged, Misjudged', Requests, r)
    BY <1>1, <1>2, Zenon DEF AgreeBut
  <2> QED
    BY <2>1, SumChange, RequestsAssumption, SMT
<1> QED
  BY <1>3, <1>4, Zenon DEF TotalDue, TotalMisjudged

\* A step of one request keeps the books within their bounds when what it moves in the
\* books, in the wallet and in what it owes differs by the fee it may have misjudged.
LEMMA RequestFollows ==
  ASSUME TypeInv, TypeInv', Followed, NEW r \in Requests, UNCHANGED rebalance,
         \A q \in Requests \ {r} : pc'[q] = pc[q] /\ entry'[q] = entry[q] /\ tx'[q] = tx[q],
         LET move == (lndBook' - hot' + Due'[r]) - (lndBook - hot + Due[r])
         IN  /\ move <= Misjudged'[r] - Misjudged[r]
             /\ -move <= Misjudged'[r] - Misjudged[r]
  PROVE  Followed'
<1>1. /\ TotalDue' = TotalDue + (Due'[r] - Due[r])
      /\ TotalMisjudged' = TotalMisjudged + (Misjudged'[r] - Misjudged[r])
  BY TotalsMove, Zenon
<1>2. ToCold' = ToCold
  BY Zenon DEF ToCold
<1>3. /\ lndBook \in Int /\ hot \in Int /\ ToCold \in Int
      /\ TotalDue \in Int /\ TotalMisjudged \in Int
      /\ Due[r] \in Int /\ Misjudged[r] \in Int
  BY BookTypes, Zenon DEF Numbers
<1>4. lndBook' \in Int /\ hot' \in Int /\ Due'[r] \in Int /\ Misjudged'[r] \in Int
  BY BookTypesNext, Zenon DEF Numbers
<1>5. Within(lndBook', hot', TotalDue', ToCold', TotalMisjudged')
  BY <1>1, <1>2, <1>3, <1>4, SMT DEF Followed, Within
<1> QED
  BY <1>5, Zenon DEF Followed

\* A step of one request leaves the others where they stand.
LEMMA OthersStand ==
  ASSUME TypeInv, NEW r \in Requests,
         RequestAction(r) \/ Mined(r) \/ SettlePendingOnChainPayment(r) \/ EventLost(r)
  PROVE  \A q \in Requests \ {r} : pc'[q] = pc[q] /\ entry'[q] = entry[q] /\ tx'[q] = tx[q]
<1> SUFFICES ASSUME NEW q \in Requests, q # r
             PROVE  pc'[q] = pc[q] /\ entry'[q] = entry[q] /\ tx'[q] = tx[q]
  BY Zenon
<1> USE DEF TypeInv, RequestTypes, LedgerTypes, ChainTypes
<1>1. ASSUME RequestAction(r) PROVE pc'[q] = pc[q]
  BY <1>1, ZenonT(60) DEF RequestAction, PayOnChainByWalletId, EstimateFee, LockWalletId, CheckBalance,
     AddOnChainTxSend, PayToAddress, PayToAddressUnknown, SetOnChainTxSendHash,
     RevertOnChainPayment, Void, ICheckBalance, AddOnChainIntraledgerTxTransfer, StopRequest,
     Goto, Return
<1>2. ASSUME RequestAction(r) PROVE entry'[q] = entry[q]
  BY <1>2, ZenonT(60) DEF RequestAction, PayOnChainByWalletId, EstimateFee, LockWalletId, CheckBalance,
     AddOnChainTxSend, PayToAddress, PayToAddressUnknown, SetOnChainTxSendHash,
     RevertOnChainPayment, Void, ICheckBalance, AddOnChainIntraledgerTxTransfer, StopRequest,
     ledgerVars
<1>3. ASSUME RequestAction(r) PROVE tx'[q] = tx[q]
  BY <1>3, ZenonT(60) DEF RequestAction, PayOnChainByWalletId, EstimateFee, LockWalletId, CheckBalance,
     AddOnChainTxSend, PayToAddress, PayToAddressUnknown, SetOnChainTxSendHash,
     RevertOnChainPayment, Void, ICheckBalance, AddOnChainIntraledgerTxTransfer, StopRequest,
     Broadcast, chainVars
<1>4. ASSUME Mined(r) \/ SettlePendingOnChainPayment(r) \/ EventLost(r)
      PROVE  pc'[q] = pc[q] /\ entry'[q] = entry[q] /\ tx'[q] = tx[q]
  BY <1>4, ZenonT(60) DEF Mined, SettlePendingOnChainPayment, EventLost, ledgerVars, requestVars
<1> QED
  BY <1>1, <1>2, <1>3, <1>4, Zenon

\* What the record of a payment takes from the books is an estimate of what it will cost.
LEMMA RecordEstimates ==
  ASSUME TypeInv, NEW r \in Requests, AddOnChainTxSend(r), pc'[r] = "pay"
  PROVE  /\ \E minerFee \in MinerFees : entry'[r].lnd = toSend'[r] + minerFee
         /\ lndBook' = lndBook - entry'[r].lnd
<1>1. PICK minerFee \in MinerFees, imbalance \in Imbalances :
        LET bankFee == BankFee(toSend[r], MinBankFee, imbalance)
            sats == toSend[r] + bankFee + minerFee
        IN /\ entry' = [entry EXCEPT ![r] = [sats |-> sats, lnd |-> sats - bankFee]]
           /\ lndBook' = lndBook - (sats - bankFee)
  BY ZenonT(60) DEF AddOnChainTxSend, SendEntry, Return, Goto, TypeInv, RequestTypes
<1>2. BankFee(toSend[r], MinBankFee, imbalance) \in Nat /\ minerFee \in Nat /\ toSend[r] \in Nat
  BY FeeTypes, OnChainSendAssumption, SMT DEF MinerFees, TypeInv, RequestTypes
<1> HIDE DEF BankFee, MinBankFee
<1>3. entry \in [Requests -> [sats : Nat, lnd : Nat]]
  BY Zenon DEF TypeInv, LedgerTypes
<1>4. entry'[r].lnd = (toSend[r] + BankFee(toSend[r], MinBankFee, imbalance) + minerFee) - BankFee(toSend[r], MinBankFee, imbalance)
  BY <1>1, <1>3, Zenon
<1>5. entry'[r].lnd = toSend[r] + minerFee
  BY <1>2, <1>4, SMT
<1>6. toSend' = toSend
  BY Zenon DEF AddOnChainTxSend
<1> QED
  BY <1>1, <1>4, <1>5, <1>6, Zenon

\* A payment about to be sent was recorded with an estimate of its fee.
LEMMA EstimatedStep ==
  ASSUME TypeInv, Estimated, Next
  PROVE  Estimated'
<1> SUFFICES ASSUME NEW q \in Requests, pc'[q] = "pay"
             PROVE  \E minerFee \in MinerFees : entry'[q].lnd = toSend'[q] + minerFee
  BY Zenon DEF Estimated
<1>1. CASE ~RequestAction(q)
  BY <1>1, OthersKept, Zenon DEF Estimated
<1>2. CASE RequestAction(q)
  <2>1. AddOnChainTxSend(q)
    BY <1>2, ZenonT(60) DEF RequestAction, PayOnChainByWalletId, EstimateFee, LockWalletId, CheckBalance,
       PayToAddress, PayToAddressUnknown, SetOnChainTxSendHash, RevertOnChainPayment, Void,
       ICheckBalance, AddOnChainIntraledgerTxTransfer, StopRequest, Goto, Return, TypeInv,
       RequestTypes
  <2> QED
    BY <2>1, RecordEstimates, Zenon
<1> QED
  BY <1>1, <1>2, Zenon

\* A fault counts, and nothing takes it back.
LEMMA FaultsGrow ==
  ASSUME TypeInv, Next, faults' = 0
  PROVE  /\ faults = 0
         /\ \A r \in Requests : ~PayToAddressUnknown(r) /\ ~StopRequest(r) /\ ~EventLost(r)
         /\ ~RebalanceFails
<1>1. faults \in Nat
  BY OnChainSendAssumption, SMT DEF TypeInv, ChainTypes
<1>2. faults' # faults + 1
  BY <1>1, SMT
<1>3. /\ \A r \in Requests : ~PayToAddressUnknown(r) /\ ~StopRequest(r) /\ ~EventLost(r)
      /\ ~RebalanceFails
  BY <1>2, Zenon DEF PayToAddressUnknown, StopRequest, EventLost, RebalanceFails
<1>4. ASSUME NEW r \in Requests, RequestAction(r) \/ Mined(r) \/ SettlePendingOnChainPayment(r)
      PROVE  UNCHANGED faults
  BY <1>3, <1>4, ZenonT(60) DEF RequestAction, PayOnChainByWalletId, EstimateFee, LockWalletId,
     CheckBalance, AddOnChainTxSend, PayToAddress, SetOnChainTxSendHash, RevertOnChainPayment,
     Void, ICheckBalance, AddOnChainIntraledgerTxTransfer, Mined, SettlePendingOnChainPayment
<1>5. ASSUME \/ \E w \in Wallets : WalletLockExpires(w)
             \/ RebalanceStart \/ RebalancePay \/ AddColdStorageTxReceive \/ UNCHANGED vars
      PROVE  UNCHANGED faults
  BY <1>5, Zenon DEF WalletLockExpires, RebalanceStart, RebalancePay, AddColdStorageTxReceive, vars
<1> QED
  BY NextCases, <1>3, <1>4, <1>5, Zenon

\* The steps of a request that record, send and void nothing.
Quiet(r) ==
  \/ PayOnChainByWalletId(r) \/ EstimateFee(r)
  \/ LockWalletId(r) \/ CheckBalance(r)
  \/ SetOnChainTxSendHash(r) \/ ICheckBalance(r) \/ AddOnChainIntraledgerTxTransfer(r)
  \/ RevertOnChainPayment(r)
  \/ Mined(r) \/ SettlePendingOnChainPayment(r)
  \/ AddOnChainTxSend(r) /\ pc'[r] # "pay"
  \/ PayToAddress(r) /\ pc'[r] # "setHash"

\* They move no money.
LEMMA QuietMovesNothing ==
  ASSUME TypeInv, NEW r \in Requests, Quiet(r)
  PROVE  /\ UNCHANGED <<lndBook, hot, rebalance>> /\ entry'[r] = entry[r]
         /\ tx'[r] = tx[r] \/ (tx[r] = "mempool" /\ tx'[r] = "mined")
<1> USE DEF TypeInv, RequestTypes, LedgerTypes, ChainTypes
<1>1. CASE \/ PayOnChainByWalletId(r) \/ EstimateFee(r) \/ LockWalletId(r) \/ CheckBalance(r)
           \/ SetOnChainTxSendHash(r) \/ ICheckBalance(r) \/ AddOnChainIntraledgerTxTransfer(r)
           \/ RevertOnChainPayment(r)
  BY <1>1, ZenonT(60) DEF PayOnChainByWalletId, EstimateFee, LockWalletId, CheckBalance,
     SetOnChainTxSendHash, ICheckBalance, AddOnChainIntraledgerTxTransfer, RevertOnChainPayment,
     ledgerVars, chainVars, rebalanceVars
<1>2. CASE Mined(r) \/ SettlePendingOnChainPayment(r)
  BY <1>2, ZenonT(60) DEF Mined, SettlePendingOnChainPayment, ledgerVars, rebalanceVars
<1>3. CASE AddOnChainTxSend(r) /\ pc'[r] # "pay"
  BY <1>3, ZenonT(60) DEF AddOnChainTxSend, Goto, ledgerVars, chainVars, rebalanceVars
<1>4. CASE PayToAddress(r) /\ pc'[r] # "setHash"
  BY <1>4, ZenonT(60) DEF PayToAddress, Goto, ledgerVars, chainVars, rebalanceVars
<1> QED
  BY <1>1, <1>2, <1>3, <1>4, Zenon DEF Quiet

\* They leave a payment that is recorded and not sent where it is.
LEMMA QuietOwesTheSame ==
  ASSUME TypeInv, NEW r \in Requests, Quiet(r)
  PROVE  pc'[r] \in Unsent <=> pc[r] \in Unsent
<1> USE DEF TypeInv, RequestTypes
<1>1. CASE PayOnChainByWalletId(r) \/ EstimateFee(r)
  <2>1. pc[r] \in {"request", "estimate"} /\ pc'[r] \in {"estimate", "ilock", "lock", "done"}
    BY <1>1, ZenonT(60) DEF PayOnChainByWalletId, EstimateFee, Goto
  <2> QED
    BY <2>1, Zenon DEF Unsent
<1>2. CASE LockWalletId(r) \/ CheckBalance(r)
  <2>1. /\ pc[r] \in {"lock", "ilock", "balance"}
        /\ pc'[r] \in {"balance", "ibalance", "record", "done"}
    BY <1>2, ZenonT(60) DEF LockWalletId, CheckBalance, Goto, Return
  <2> QED
    BY <2>1, Zenon DEF Unsent
<1>3. CASE SetOnChainTxSendHash(r) \/ ICheckBalance(r) \/ AddOnChainIntraledgerTxTransfer(r)
  <2>1. pc[r] \in {"setHash", "ibalance", "itransfer"} /\ pc'[r] \in {"itransfer", "done"}
    BY <1>3, ZenonT(60) DEF SetOnChainTxSendHash, ICheckBalance, AddOnChainIntraledgerTxTransfer,
       Goto, Return
  <2> QED
    BY <2>1, Zenon DEF Unsent
<1>4. CASE RevertOnChainPayment(r) \/ (PayToAddress(r) /\ pc'[r] # "setHash")
  <2>1. pc[r] \in {"pay", "revert"} /\ pc'[r] \in {"revert", "void"}
    BY <1>4, ZenonT(60) DEF RevertOnChainPayment, PayToAddress, Goto
  <2> QED
    BY <2>1, Zenon DEF Unsent
<1>5. CASE AddOnChainTxSend(r) /\ pc'[r] # "pay"
  <2>1. pc[r] = "record" /\ pc'[r] = "done"
    BY <1>5, ZenonT(60) DEF AddOnChainTxSend, Goto, Return
  <2> QED
    BY <2>1, Zenon DEF Unsent
<1>6. CASE Mined(r) \/ SettlePendingOnChainPayment(r)
  BY <1>6, ZenonT(60) DEF Mined, SettlePendingOnChainPayment, requestVars
<1> QED
  BY <1>1, <1>2, <1>3, <1>4, <1>5, <1>6, Zenon DEF Quiet

\* So they keep the books where they were.
LEMMA QuietFollows ==
  ASSUME TypeInv, TypeInv', Followed, NEW r \in Requests, Quiet(r)
  PROVE  Followed'
<1>1. /\ UNCHANGED <<lndBook, hot, rebalance>> /\ entry'[r] = entry[r]
      /\ tx'[r] = tx[r] \/ (tx[r] = "mempool" /\ tx'[r] = "mined")
  BY QuietMovesNothing, Zenon
<1>2. \A q \in Requests \ {r} : pc'[q] = pc[q] /\ entry'[q] = entry[q] /\ tx'[q] = tx[q]
  BY OthersStand, Zenon DEF RequestAction, Quiet
<1>3. Due'[r] = Due[r]
  BY <1>1, QuietOwesTheSame, Zenon DEF Due
<1>4. Misjudged'[r] = Misjudged[r]
  BY <1>1, Zenon DEF Misjudged
<1>5. /\ lndBook' = lndBook /\ hot' = hot
      /\ lndBook \in Int /\ hot \in Int /\ Due[r] \in Int /\ Misjudged[r] \in Int
  BY <1>1, BookTypes, Zenon DEF Numbers
<1>6. LET move == (lndBook' - hot' + Due'[r]) - (lndBook - hot + Due[r])
      IN  /\ move <= Misjudged'[r] - Misjudged[r]
          /\ -move <= Misjudged'[r] - Misjudged[r]
  BY <1>3, <1>4, <1>5, SMT
<1> QED
  BY <1>1, <1>2, <1>6, RequestFollows, Zenon

\* addOnChainTxSend takes from the books what the request then owes.
LEMMA RecordFollows ==
  ASSUME LifeInv, TypeInv', Followed, NEW r \in Requests, AddOnChainTxSend(r), pc'[r] = "pay"
  PROVE  Followed'
<1>1. TypeInv /\ LifeOf(r)
  BY Zenon DEF LifeInv
<1>2. lndBook' = lndBook - entry'[r].lnd
  BY <1>1, RecordEstimates, Zenon
<1>3. pc[r] = "record" /\ UNCHANGED <<hot, tx, rebalance>>
  BY Zenon DEF AddOnChainTxSend, chainVars, rebalanceVars
<1>4. Due[r] = 0 /\ Due'[r] = entry'[r].lnd /\ Misjudged'[r] = Misjudged[r]
  BY <1>3, Zenon DEF Due, Misjudged, Unsent
<1>5. /\ lndBook \in Int /\ hot \in Int /\ Misjudged[r] \in Int /\ Due'[r] \in Int
  BY <1>1, BookTypes, BookTypesNext, Zenon DEF Numbers
<1>6. LET move == (lndBook' - hot' + Due'[r]) - (lndBook - hot + Due[r])
      IN  /\ move <= Misjudged'[r] - Misjudged[r]
          /\ -move <= Misjudged'[r] - Misjudged[r]
  BY <1>2, <1>3, <1>4, <1>5, SMT
<1>7. \A q \in Requests \ {r} : pc'[q] = pc[q] /\ entry'[q] = entry[q] /\ tx'[q] = tx[q]
  BY <1>1, OthersStand, Zenon DEF RequestAction
<1> QED
  BY <1>1, <1>3, <1>6, <1>7, RequestFollows, Zenon

\* payToAddress takes from the hot wallet what the request owed, but for the fee.
LEMMA SendFollows ==
  ASSUME LifeInv, TypeInv', Estimated, Followed, NEW r \in Requests, PayToAddress(r), pc'[r] = "setHash"
  PROVE  Followed'
<1>1. TypeInv /\ LifeOf(r)
  BY Zenon DEF LifeInv
<1>2. pc[r] = "pay" /\ UNCHANGED <<lndBook, entry, toSend, rebalance>>
  BY Zenon DEF PayToAddress, ledgerVars, rebalanceVars
<1>3. PICK paid \in MinerFees : hot' = hot - toSend[r] - paid /\ tx' = [tx EXCEPT ![r] = "mempool"]
  BY <1>1, <1>2, ZenonT(60) DEF PayToAddress, Broadcast, Goto, TypeInv, RequestTypes
<1>4. PICK fee \in MinerFees : entry[r].lnd = toSend[r] + fee
  BY <1>2, Zenon DEF Estimated
<1>5. tx[r] = "none"
  BY <1>1, <1>2, Zenon DEF LifeOf
<1>6. tx'[r] = "mempool"
  BY <1>1, <1>3, Zenon DEF TypeInv, ChainTypes
<1>7. /\ Due[r] = toSend[r] + fee /\ Due'[r] = 0
      /\ Misjudged[r] = 0 /\ Misjudged'[r] = MaxMinerFee - MinMinerFee
  BY <1>2, <1>4, <1>5, <1>6, Zenon DEF Due, Misjudged, Unsent
<1>8. /\ lndBook \in Int /\ hot \in Int /\ toSend[r] \in Int
      /\ fee \in Int /\ paid \in Int /\ MinMinerFee \in Int /\ MaxMinerFee \in Int
      /\ MinMinerFee <= fee /\ fee <= MaxMinerFee /\ MinMinerFee <= paid /\ paid <= MaxMinerFee
  <2>1. lndBook \in Int /\ hot \in Int
    BY <1>1, BookTypes, Zenon DEF Numbers
  <2>2. toSend[r] \in Int
    BY <1>1, SMT DEF TypeInv, RequestTypes
  <2> QED
    BY <2>1, <2>2, OnChainSendAssumption, SMT DEF MinerFees
<1>9. LET move == (lndBook' - hot' + Due'[r]) - (lndBook - hot + Due[r])
      IN  /\ move <= Misjudged'[r] - Misjudged[r]
          /\ -move <= Misjudged'[r] - Misjudged[r]
  BY <1>2, <1>3, <1>7, <1>8, SMT
<1>10. \A q \in Requests \ {r} : pc'[q] = pc[q] /\ entry'[q] = entry[q] /\ tx'[q] = tx[q]
  BY <1>1, OthersStand, Zenon DEF RequestAction
<1> QED
  BY <1>1, <1>2, <1>9, <1>10, RequestFollows, Zenon

\* Voiding a journal gives back to the books what the request owed.
LEMMA VoidFollows ==
  ASSUME LifeInv, TypeInv', Followed, NEW r \in Requests, Void(r)
  PROVE  Followed'
<1>1. TypeInv
  BY Zenon DEF LifeInv
<1>2. pc[r] = "void" /\ lndBook' = lndBook + entry[r].lnd /\ UNCHANGED <<hot, tx, rebalance>>
  BY Zenon DEF Void, chainVars, rebalanceVars
<1>3. pc'[r] = "done"
  BY <1>1, Zenon DEF Void, Return, Goto, TypeInv, RequestTypes
<1>4. Due[r] = entry[r].lnd /\ Due'[r] = 0 /\ Misjudged'[r] = Misjudged[r]
  BY <1>2, <1>3, Zenon DEF Due, Misjudged, Unsent
<1>5. lndBook \in Int /\ hot \in Int /\ Misjudged[r] \in Int /\ Due[r] \in Int
  BY <1>1, BookTypes, Zenon DEF Numbers
<1>6. LET move == (lndBook' - hot' + Due'[r]) - (lndBook - hot + Due[r])
      IN  /\ move <= Misjudged'[r] - Misjudged[r]
          /\ -move <= Misjudged'[r] - Misjudged[r]
  BY <1>2, <1>4, <1>5, SMT
<1>7. \A q \in Requests \ {r} : pc'[q] = pc[q] /\ entry'[q] = entry[q] /\ tx'[q] = tx[q]
  BY <1>1, OthersStand, Zenon DEF RequestAction
<1> QED
  BY <1>1, <1>2, <1>6, <1>7, RequestFollows, Zenon

\* A transfer to cold storage leaves the wallet, and then the books.
LEMMA RebalanceFollows ==
  ASSUME TypeInv, TypeInv', Followed,
         RebalanceStart \/ RebalancePay \/ AddColdStorageTxReceive
  PROVE  Followed'
<1>1. UNCHANGED <<pc, entry, tx>>
  BY Zenon DEF RebalanceStart, RebalancePay, AddColdStorageTxReceive, requestVars, ledgerVars, chainVars
<1>2. TotalDue' = TotalDue /\ TotalMisjudged' = TotalMisjudged
  BY <1>1, ZenonT(60) DEF TotalDue, TotalMisjudged, Due, Misjudged
<1>3. /\ lndBook \in Int /\ hot \in Int /\ ToCold \in Int
      /\ TotalDue \in Int /\ TotalMisjudged \in Int
  BY BookTypes, Zenon DEF Numbers
<1>4. rebalance.sats \in Nat /\ rebalance.fee \in Nat
  BY Zenon DEF TypeInv, ChainTypes
<1>5. ASSUME NEW m \in Int, NEW n \in Int, hot' = hot - n, lndBook' = lndBook - m,
             ToCold' = ToCold + (n - m)
      PROVE  Followed'
  <2>1. Within(lndBook', hot', TotalDue', ToCold', TotalMisjudged')
    BY <1>2, <1>3, <1>5, SMT DEF Followed, Within
  <2> QED
    BY <2>1, Zenon DEF Followed
<1>6. ASSUME UNCHANGED <<lndBook, hot>>, ToCold' = ToCold PROVE Followed'
  BY <1>2, <1>6, Zenon DEF Followed, Within
<1>7. CASE RebalanceStart
  <2>1. rebalance.at = "idle" /\ rebalance'.at = "pay" /\ UNCHANGED <<lndBook, hot>>
    BY <1>7, Zenon DEF RebalanceStart, ledgerVars, chainVars
  <2> QED
    BY <1>6, <2>1, Zenon DEF ToCold
<1>8. ASSUME RebalancePay, rebalance' = Idle, UNCHANGED hot PROVE Followed'
  <2>1. rebalance.at = "pay" /\ rebalance'.at = "idle" /\ UNCHANGED lndBook
    BY <1>8, Zenon DEF RebalancePay, ledgerVars, Idle
  <2> QED
    BY <1>6, <1>8, <2>1, Zenon DEF ToCold
<1>9. ASSUME RebalancePay, NEW fee \in MinerFees, hot' = hot - rebalance.sats - fee,
             rebalance' = [rebalance EXCEPT !.at = "record", !.fee = fee]
      PROVE  Followed'
  <2>1. fee \in Nat
    BY OnChainSendAssumption, SMT DEF MinerFees
  <2>2. rebalance.at = "pay" /\ UNCHANGED lndBook
    BY <1>9, Zenon DEF RebalancePay, ledgerVars
  <2>3. rebalance'.at = "record" /\ rebalance'.sats = rebalance.sats /\ rebalance'.fee = fee
    BY <1>9, Zenon DEF TypeInv, ChainTypes
  <2>4. ToCold = 0 /\ ToCold' = rebalance.sats + fee
    BY <2>2, <2>3, Zenon DEF ToCold
  <2>5. PICK n \in Int : n = rebalance.sats + fee
    BY <1>4, <2>1, SMT
  <2>6. hot' = hot - n /\ lndBook' = lndBook - 0 /\ ToCold' = ToCold + (n - 0) /\ 0 \in Int
    BY <1>3, <1>4, <1>9, <2>1, <2>2, <2>4, <2>5, SMT
  <2> QED
    BY <1>5, <2>6, Zenon
<1>10. CASE AddColdStorageTxReceive
  <2>1. /\ rebalance.at = "record" /\ rebalance'.at = "idle" /\ UNCHANGED hot
        /\ lndBook' = lndBook - rebalance.sats - rebalance.fee
    BY <1>10, Zenon DEF AddColdStorageTxReceive, chainVars, Idle
  <2>2. ToCold = rebalance.sats + rebalance.fee /\ ToCold' = 0
    BY <2>1, Zenon DEF ToCold
  <2>3. PICK m \in Int : m = rebalance.sats + rebalance.fee
    BY <1>4, SMT
  <2>4. hot' = hot - 0 /\ lndBook' = lndBook - m /\ ToCold' = ToCold + (0 - m) /\ 0 \in Int
    BY <1>3, <1>4, <2>1, <2>2, <2>3, SMT
  <2> QED
    BY <1>5, <2>4, Zenon
<1> QED
  BY <1>7, <1>8, <1>9, <1>10, Zenon DEF RebalancePay

\* Every step keeps the books within their bounds, while nothing fails.
LEMMA FollowedStep ==
  ASSUME LifeInv, TypeInv', Estimated, Followed, Next, faults' = 0
  PROVE  Followed'
<1>1. TypeInv
  BY Zenon DEF LifeInv
<1>2. /\ \A r \in Requests : ~PayToAddressUnknown(r) /\ ~StopRequest(r) /\ ~EventLost(r)
      /\ ~RebalanceFails
  BY <1>1, FaultsGrow, Zenon
<1>3. ASSUME NEW r \in Requests, RequestAction(r) \/ Mined(r) \/ SettlePendingOnChainPayment(r)
      PROVE  Followed'
  <2>1. CASE Quiet(r)
    BY <1>1, <2>1, QuietFollows, Zenon
  <2>2. CASE AddOnChainTxSend(r) /\ pc'[r] = "pay"
    BY <2>2, RecordFollows, Zenon
  <2>3. CASE PayToAddress(r) /\ pc'[r] = "setHash"
    BY <2>3, SendFollows, Zenon
  <2>4. CASE Void(r)
    BY <2>4, VoidFollows, Zenon
  <2> QED
    BY <1>2, <1>3, <2>1, <2>2, <2>3, <2>4, Zenon DEF RequestAction, Quiet
<1>4. CASE (\E w \in Wallets : WalletLockExpires(w)) \/ UNCHANGED vars
  <2>1. UNCHANGED <<lndBook, hot, rebalance, pc, entry, tx>>
    BY <1>4, Zenon DEF WalletLockExpires, vars, ledgerVars, requestVars, chainVars, rebalanceVars
  <2> QED
    BY <2>1, ZenonT(60) DEF Followed, Within, TotalDue, TotalMisjudged, ToCold, Due, Misjudged
<1>5. CASE RebalanceStart \/ RebalancePay \/ AddColdStorageTxReceive
  BY <1>1, <1>5, RebalanceFollows, Zenon
<1> QED
  BY NextCases, <1>2, <1>3, <1>4, <1>5, Zenon

\* Nothing has moved at first.
LEMMA HotInvInit == Init => HotInv
<1> SUFFICES ASSUME Init PROVE HotInv
  BY Zenon
<1>1. LifeInv
  BY LifeInductive, Zenon
<1>2. Estimated
  BY Zenon DEF Init, Estimated
<1>3. \A r \in Requests : Due[r] = 0 /\ Misjudged[r] = 0
  BY Zenon DEF Init, Due, Misjudged, Unsent
<1>4. TotalDue = 0 * Cardinality(Requests) /\ TotalMisjudged = 0 * Cardinality(Requests)
  <2>1. 0 \in Int
    BY SMT
  <2> QED
    BY <1>3, <2>1, SumConst, RequestsAssumption, Zenon DEF TotalDue, TotalMisjudged
<1>5. Cardinality(Requests) \in Nat
  BY RequestsAssumption, FS_CardinalityType, Zenon
<1>6. TotalDue = 0 /\ TotalMisjudged = 0
  BY <1>4, <1>5, SMT
<1>7. lndBook = InitHot /\ hot = InitHot /\ ToCold = 0 /\ InitHot \in Nat
  BY OnChainSendAssumption, Zenon DEF Init, Idle, ToCold
<1>8. Followed
  BY <1>6, <1>7, SMT DEF Followed, Within
<1> QED
  BY <1>1, <1>2, <1>8, Zenon DEF HotInv

\* The misjudged fees are one difference for each transaction.
LEMMA MisjudgedTotal ==
  ASSUME TypeInv
  PROVE  LET sent == {r \in Requests : tx[r] # "none"}
         IN  /\ TotalMisjudged = (MaxMinerFee - MinMinerFee) * Cardinality(sent)
             /\ Cardinality(sent) \in Nat
<1> DEFINE sent == {r \in Requests : tx[r] # "none"}
           each == [r \in Requests |-> MaxMinerFee - MinMinerFee]
<1>1. IsFiniteSet(sent) /\ sent \in SUBSET Requests
  BY RequestsAssumption, FS_Subset, Zenon
<1>2. MaxMinerFee - MinMinerFee \in Int
  BY OnChainSendAssumption, SMT
<1>3. \A r \in Requests : Misjudged[r] = IF r \in sent THEN each[r] ELSE 0
  BY Zenon DEF Misjudged
<1>4. \A r \in sent : each[r] = MaxMinerFee - MinMinerFee /\ each[r] \in Int
  BY <1>2, Zenon
<1> HIDE DEF sent, each
<1>5. SumFunctionOnSet(each, sent) = TotalMisjudged
  BY <1>1, <1>3, <1>4, RequestsAssumption, SumPart, ZenonT(60) DEF TotalMisjudged
<1>6. SumFunctionOnSet(each, sent) = (MaxMinerFee - MinMinerFee) * Cardinality(sent)
  BY <1>1, <1>2, <1>4, SumConst, Zenon
<1>7. Cardinality(sent) \in Nat
  BY <1>1, FS_CardinalityType, Zenon
<1> QED
  BY <1>5, <1>6, <1>7, Zenon DEF sent

\* Without faults the ledger's lnd account and the hot wallet differ at rest by no more than
\* the misjudged miner fees, for any requests, rebalances to cold storage and fees.
THEOREM BooksFollow == Spec => []BooksFollowHotWallet
<1>1. Init => HotInv
  BY HotInvInit, Zenon
<1>2. HotInv /\ [Next]_vars => HotInv'
  <2> SUFFICES ASSUME HotInv, [Next]_vars PROVE HotInv'
    BY Zenon
  <2>1. LifeInv /\ LifeInv' /\ TypeInv /\ TypeInv'
    BY LifeInductive, Zenon DEF HotInv, LifeInv
  <2>2. CASE Next
    BY <2>1, <2>2, EstimatedStep, FollowedStep, FaultsGrow, Zenon DEF HotInv
  <2>3. CASE UNCHANGED vars
    <3>1. UNCHANGED <<lndBook, hot, rebalance, pc, toSend, entry, tx, faults>>
      BY <2>3, Zenon DEF vars, ledgerVars, requestVars, chainVars, rebalanceVars
    <3>2. Estimated'
      BY <3>1, Zenon DEF HotInv, Estimated
    <3>3. faults' = 0 => Followed'
      BY <3>1, ZenonT(60) DEF HotInv, Followed, Within, TotalDue, TotalMisjudged, ToCold, Due, Misjudged
    <3> QED
      BY <2>1, <3>2, <3>3, Zenon DEF HotInv
  <2> QED
    BY <2>2, <2>3, Zenon
<1>3. HotInv => BooksFollowHotWallet
  <2> SUFFICES ASSUME HotInv, AtRest, faults = 0
               PROVE  LET off == Cardinality({r \in Requests : tx[r] # "none"}) * (MaxMinerFee - MinMinerFee)
                      IN  lndBook - hot \in -off..off
    BY Zenon DEF BooksFollowHotWallet
  <2>1. TypeInv /\ Followed
    BY Zenon DEF HotInv, LifeInv
  <2>2. \A r \in Requests : Due[r] = 0
    BY Zenon DEF AtRest, Due, Unsent
  <2>3. TotalDue = 0
    <3>1. TotalDue = 0 * Cardinality(Requests) /\ Cardinality(Requests) \in Nat
      <4>1. 0 \in Int
        BY SMT
      <4> QED
        BY <2>2, <4>1, SumConst, RequestsAssumption, FS_CardinalityType, Zenon DEF TotalDue
    <3> QED
      BY <3>1, SMT
  <2>4. ToCold = 0
    BY Zenon DEF AtRest, ToCold
  <2>5. lndBook \in Int /\ hot \in Int
    BY <2>1, BookTypes, Zenon DEF Numbers
  <2>6. PICK n \in Nat : /\ n = Cardinality({r \in Requests : tx[r] # "none"})
                         /\ TotalMisjudged = (MaxMinerFee - MinMinerFee) * n
    BY <2>1, MisjudgedTotal, Zenon
  <2>7. PICK d \in Int : d = MaxMinerFee - MinMinerFee
    BY OnChainSendAssumption, SMT
  <2>8. lndBook - hot \in -(n * d)..(n * d)
    <3>1. d * n = n * d /\ d * n \in Int
      BY SMT
    <3> QED
      BY <2>1, <2>3, <2>4, <2>5, <2>6, <2>7, <3>1, SMT DEF Followed, Within
  <2> QED
    BY <2>6, <2>7, <2>8, Zenon
<1> QED
  BY <1>1, <1>2, <1>3, PTL DEF Spec
=============================================================================
