---------------------------- MODULE PaymentFlows ----------------------------
(***************************************************************************)
(* What a payment costs, and the records that remember it.  A fee probe    *)
(* (estimateLightningFee) or a payment builds a payment flow: the amount   *)
(* and the protocol fee, in sats and in cents, at the price of the moment. *)
(* The flow of a Lightning payment is stored in the collection             *)
(* payment_flow_state under wallet, payment hash and input amount, where   *)
(* the payment finds the flow of an earlier probe, and where the           *)
(* reconciler of pending payments looks for the flow of a payment whose    *)
(* outcome was unknown.  Nothing makes the key unique: every probe inserts *)
(* another record, and queries take the oldest that matches.  Records      *)
(* expire after a few minutes, unless they are marked sent and pending.    *)
(*                                                                         *)
(* The money is booked as EntryBuilder does, with the dealer's accounts in *)
(* between when the currencies differ.  LnSend models the steps inside     *)
(* executePaymentViaLn and the reconciler, their locks and their crashes;  *)
(* here each is one step, so that the model can carry amounts.             *)
(***************************************************************************)
EXTENDS Amounts, FiniteSets, Functions

CONSTANTS
  Sends,              \* calls of pay(NoAmount)InvoiceByWalletId and intraledger sends
  Wallets, Usd,       \* wallets, and those of them that hold cents
  From, To,           \* wallet that pays; wallet that is paid, Lnd: over Lightning
  Hash,               \* payment hash of a send
  ByInvoice,          \* sends whose invoice fixes the amount, in sats
  Amount,             \* input amount: of the invoice, or in the currency of the wallet
  BtcWallet,          \* BTC wallet of the account of a wallet
  Receipts,           \* payments received: wallet, sats, cents fixed by the invoice (0: none)
  Funds,              \* initial balances of the wallets
  Prices,             \* ratios the price service and the dealer may quote
  RouteFees,          \* fees a probe may find
  FeeCapBasisPoints,  \* FEECAP_BASIS_POINTS
  MaxFlows,           \* bound on the places of the collection
  MaxProbes,          \* bound on fee probes
  MaxStops,           \* bound on processes that stop in the middle of a payment
  None

Lnd == "lnd"  \* ledger account of the lightning node
Currency(account) == IF account \in Usd THEN "USD" ELSE "BTC"
Dealer == {"dealerBtc", "dealerUsd"}
Accounts == Wallets \cup {Lnd, "bank"} \cup Dealer
Zero == [btc |-> 0, usd |-> 0]

ASSUME PaymentFlowsAssumption ==
  /\ Usd \subseteq Wallets /\ Wallets \cap ({Lnd, "bank"} \cup Dealer) = {}
  /\ From \in [Sends -> Wallets] /\ To \in [Sends -> Wallets \cup {Lnd}]
  /\ ByInvoice \subseteq {s \in Sends : To[s] = Lnd}
  /\ Amount \in [Sends -> Nat \ {0}] /\ BtcWallet \in [Wallets -> Wallets \ Usd]
  /\ Receipts \subseteq [wallet : Wallets, sats : Nat \ {0}, cents : Nat]
  /\ Funds \in [Wallets -> Nat]
  /\ RouteFees \subseteq Nat /\ FeeCapBasisPoints \in Nat
  /\ MaxFlows \in Nat /\ MaxProbes \in Nat /\ MaxStops \in Nat
  /\ None \notin Sends
  /\ \A s, t \in Sends : Hash[s] = Hash[t] =>
       (To[s] = Lnd <=> To[t] = Lnd) /\ (s \in ByInvoice <=> t \in ByInvoice)

\* The collection of wallets is finite.
ASSUME WalletsAssumption == IsFiniteSet(Wallets)

\* The sends of a hash are those of one wallet: its lock keeps the check for a payment
\* in transit and the entry together, as Pay has them (LnSend models two payers).
ASSUME OnePayerAssumption ==
  \A s, t \in Sends : Hash[s] = Hash[t] => From[s] = From[t]

\* Bitcoin below a million dollars: a sat is worth at most a cent.
ASSUME PricesAssumption ==
  \A p \in Prices : p \in [usd : Nat \ {0}, btc : Nat \ {0}] /\ p.usd <= p.btc

VARIABLES
  flows,    \* payment_flow_state: the records, in the order of insertion
  pc,       \* control point of a send
  used,     \* the flow a send works with
  journal,  \* its entries in the ledger: none, pending or settled
  htlc,     \* its payment in lnd
  cost,     \* fee that lnd paid
  back,     \* given back to the payer: sats of Lnd, and cents of a USD wallet
  marking,  \* sends with an unawaited updateLightningPaymentFlow on its way
  dropping, \* sends with an unawaited deleteLightningPaymentFlow on its way
  job,      \* send the reconciler works on, and the flow it works with
  misread,  \* sends it resolved with other amounts than were charged
  received, \* receipts that were booked
  book,     \* balance of every ledger account
  probes, stops

sendVars == <<pc, used>>
recordVars == <<flows, marking, dropping>>
moneyVars == <<journal, back, book>>
lndVars == <<htlc, cost>>
jobVars == <<job, misread>>
vars == <<sendVars, recordVars, moneyVars, lndVars, jobVars, received, probes, stops>>

Places == 1..MaxFlows
Idle == [send |-> None, flow |-> None]

Flow == [key : Wallets \X {Hash[s] : s \in Sends} \X Nat, btc : Nat, usd : Nat,
         btcFee : Nat, usdFee : Nat, routed : BOOLEAN, pending : BOOLEAN, old : BOOLEAN]

ASSUME NoneAssumption == None \notin Flow

\* Types of all the variables.
TypeOK ==
  /\ flows \in [Places -> Flow \cup {None}]
  /\ pc \in [Sends -> {"start", "build", "ready", "paying", "done"}]
  /\ used \in [Sends -> Flow \cup {None}]
  /\ journal \in [Sends -> {"none", "pending", "settled"}]
  /\ htlc \in [Sends -> {"none", "inflight", "settled", "failed"}] /\ cost \in [Sends -> Nat]
  /\ back \in [Sends -> [btc : Nat, usd : Nat]]
  /\ marking \subseteq Sends /\ dropping \subseteq Sends
  /\ job \in [send : Sends, flow : Flow] \cup {Idle} /\ misread \subseteq Sends
  /\ received \subseteq Receipts /\ book \in [Accounts -> Int]
  /\ probes \in 0..MaxProbes /\ stops \in 0..MaxStops

Init ==
  /\ flows = [i \in Places |-> None] /\ marking = {} /\ dropping = {}
  /\ pc = [s \in Sends |-> "start"] /\ used = [s \in Sends |-> None]
  /\ journal = [s \in Sends |-> "none"] /\ back = [s \in Sends |-> Zero]
  /\ htlc = [s \in Sends |-> "none"] /\ cost = [s \in Sends |-> 0]
  /\ job = Idle /\ misread = {} /\ received = {} /\ probes = 0 /\ stops = 0
  /\ book = [a \in Accounts |-> IF a \in Wallets THEN Funds[a] ELSE 0]

-----------------------------------------------------------------------------
(* LightningPaymentFlowBuilder *)

Intraledger(s) == To[s] # Lnd
SatsGiven(s) == s \in ByInvoice \/ Currency(From[s]) = "BTC"

\* withConversion: the amount that is not given, at the price of the moment, whichever
\* dealer or mid price that is.  A send inside the bank is one by wallet id, so the branches
\* where the recipient's invoice fixes both amounts are left out.
UsdFromBtc(s) == {[btc |-> Amount[s], usd |-> convertFromBtc(p, Amount[s])] : p \in Prices}
BtcFromUsd(s) == {[btc |-> convertFromUsd(p, Amount[s]), usd |-> Amount[s]] : p \in Prices}
Converted(s) == IF SatsGiven(s) THEN UsdFromBtc(s) ELSE BtcFromUsd(s)

\* The fee cap, taken from the amount that is given, and converted.
FeeCap(s, amounts) ==
  LET fromBtc == maxProtocolFee(amounts.btc, FeeCapBasisPoints)
      fromUsd == maxProtocolFee(amounts.usd, FeeCapBasisPoints)
  IN  CASE Intraledger(s) -> Zero
        [] ~Intraledger(s) /\ SatsGiven(s) ->
             [btc |-> fromBtc, usd |-> convertFromBtcToCeil(amounts, fromBtc)]
        [] OTHER -> [btc |-> convertFromUsd(amounts, fromUsd), usd |-> fromUsd]

Key(s) == <<From[s], Hash[s], Amount[s]>>

MakeFlow(s, amounts, fee, routed) ==
  [key |-> Key(s), btc |-> amounts.btc, usd |-> amounts.usd, btcFee |-> fee.btc,
   usdFee |-> fee.usd, routed |-> routed, pending |-> FALSE, old |-> FALSE]

\* PriceRatio refuses a ratio with a zero.
Quoted(s) == {a \in Converted(s) : ValidRatio(a)}

\* withoutRoute and withRoute.
FlowsWithoutRoute(s) ==
  {MakeFlow(s, a, FeeCap(s, a), FALSE) : a \in Quoted(s)}
FlowsWithRoute(s) ==
  UNION {{MakeFlow(s, a, [btc |-> f, usd |-> convertFromBtcToCeil(a, f)], TRUE) :
            a \in Quoted(s)} : f \in RouteFees}

Amounts(flow) == [btc |-> flow.btc, usd |-> flow.usd]

\* The fee left out (mutant).
AmountsWithoutFee(flow) == [btc |-> flow.btc, usd |-> flow.usd]

totalAmountsForPayment(flow) ==
  [btc |-> flow.btc + flow.btcFee, usd |-> flow.usd + flow.usdFee]

-----------------------------------------------------------------------------
(* PaymentFlowStateRepository *)

Stored == {i \in Places : flows[i] # None}
Matching(key) == {i \in Stored : flows[i].key = key}

\* The record a query finds: the one that was inserted first.
Finds(key, i) == i \in Matching(key) /\ \A j \in Matching(key) : i <= j

\* The first place after all records.
persistNew(flow) ==
  \E i \in Places :
    /\ \A j \in Stored : j < i
    /\ \A j \in 1..(i - 1) : \E k \in Stored : j <= k
    /\ flows' = [flows EXCEPT ![i] = flow]

isExpired(flow) == flow.old /\ ~flow.pending

\* A record becomes older than the expiry time.
Expires(i) ==
  /\ i \in Stored /\ ~flows[i].old
  /\ flows' = [flows EXCEPT ![i].old = TRUE]
  /\ UNCHANGED <<sendVars, marking, dropping, moneyVars, lndVars, jobVars, received, probes, stops>>

\* The cron job: records marked pending stay.
deleteExpiredLightningPaymentFlows ==
  /\ \E i \in Stored : isExpired(flows[i])
  /\ flows' = [i \in Places |->
       IF i \in Stored /\ isExpired(flows[i]) THEN None ELSE flows[i]]
  /\ UNCHANGED <<sendVars, marking, dropping, moneyVars, lndVars, jobVars, received, probes, stops>>

\* An update that sets the flag and keeps the amounts of the record (mutant).
OnlyFlagLands(s) ==
  /\ s \in marking /\ marking' = marking \ {s}
  /\ \/ Matching(Key(s)) = {} /\ UNCHANGED flows
     \/ \E i \in Places : Finds(Key(s), i) /\ flows' = [flows EXCEPT ![i].pending = TRUE]
  /\ UNCHANGED <<sendVars, dropping, moneyVars, lndVars, jobVars, received, probes, stops>>

\* An unawaited update or delete reaches the database.
UpdateLands(s) ==
  /\ s \in marking /\ marking' = marking \ {s}
  /\ \/ Matching(Key(s)) = {} /\ UNCHANGED flows
     \/ \E i \in Places : Finds(Key(s), i) /\ flows' = [flows EXCEPT ![i] = used[s]]
  /\ UNCHANGED <<sendVars, dropping, moneyVars, lndVars, jobVars, received, probes, stops>>

DeleteLands(s) ==
  /\ s \in dropping /\ dropping' = dropping \ {s}
  /\ \/ Matching(Key(s)) = {} /\ UNCHANGED flows
     \/ \E i \in Places : Finds(Key(s), i) /\ flows' = [flows EXCEPT ![i] = None]
  /\ UNCHANGED <<sendVars, marking, moneyVars, lndVars, jobVars, received, probes, stops>>

\* estimateLightningFee: the payer asks for the fee, as often as they like; the probe
\* finds a route or does not.
ProbeFee(s) ==
  /\ ~Intraledger(s) /\ probes < MaxProbes /\ probes' = probes + 1
  /\ \E flow \in FlowsWithoutRoute(s) \cup FlowsWithRoute(s) : persistNew(flow)
  /\ UNCHANGED <<sendVars, marking, dropping, moneyVars, lndVars, jobVars, received, stops>>

-----------------------------------------------------------------------------
(* The ledger *)

\* recordSend, recordReceive and recordIntraledger: what an entry adds to an account.
Leg(from, to, total, account) ==
  LET entry == Entry(Currency(from), Currency(to), total, Zero)
  IN    (IF account = from THEN entry.debited ELSE 0)
      + (IF account = to THEN entry.credited ELSE 0)
      + (IF account = "bank" THEN entry.bank ELSE 0)
      + (IF account = "dealerBtc" THEN entry.dealerBtc ELSE 0)
      + (IF account = "dealerUsd" THEN entry.dealerUsd ELSE 0)

Post(from, to, total) == book' = [a \in Accounts |-> book[a] + Leg(from, to, total, a)]

\* MainBook.void of the entries of a send.
Void(s) ==
  /\ book' = [a \in Accounts |->
       book[a] - Leg(From[s], Lnd, totalAmountsForPayment(used[s]), a)]
  /\ back' = [back EXCEPT ![s] =
       [btc |-> used[s].btc + used[s].btcFee,
        usd |-> IF From[s] \in Usd THEN used[s].usd + used[s].usdFee ELSE 0]]

GiveBack(s, to, amounts) ==
  /\ Post(Lnd, to, amounts)
  /\ back' = [back EXCEPT ![s] =
       [btc |-> amounts.btc, usd |-> IF to \in Usd THEN amounts.usd ELSE 0]]

\* settlePendingLnSend: every pending entry of the hash.
Settle(s) ==
  journal' = [t \in Sends |->
    IF Hash[t] = Hash[s] /\ journal[t] = "pending" THEN "settled" ELSE journal[t]]

\* reimburseFee with the amounts of a flow: nothing when the fee was used up.
reimburseFee(s, flow) ==
  IF flow.btcFee > cost[s]
    THEN GiveBack(s, From[s], getReimbursement(Amounts(flow), flow.btcFee, cost[s]))
    ELSE UNCHANGED <<book, back>>

\* An invoice of a wallet is paid from outside: WalletInvoiceReceiver and recordReceive.
ReceiveInvoice(r) ==
  /\ r \in Receipts \ received /\ received' = received \cup {r}
  /\ \E p \in Prices :
       Post(Lnd, r.wallet,
            [btc |-> r.sats,
             usd |-> IF r.wallet \in Usd /\ r.cents > 0 THEN r.cents
                                                        ELSE convertFromBtc(p, r.sats)])
  /\ UNCHANGED <<sendVars, recordVars, journal, back, lndVars, jobVars, probes, stops>>

-----------------------------------------------------------------------------
(* Sending *)

Goto(s, point) == pc' = [pc EXCEPT ![s] = point]

\* getPaymentFlow: the record of an earlier probe or attempt, unless it has expired.
FindFlow(s) ==
  /\ pc[s] = "start" /\ ~Intraledger(s)
  /\ \/ Matching(Key(s)) = {} /\ Goto(s, "build") /\ UNCHANGED <<used, dropping>>
     \/ \E i \in Places :
          /\ Finds(Key(s), i)
          /\ \/ /\ isExpired(flows[i]) /\ dropping' = dropping \cup {s}
                /\ Goto(s, "build") /\ UNCHANGED used
             \/ /\ ~isExpired(flows[i]) /\ used' = [used EXCEPT ![s] = flows[i]]
                /\ Goto(s, "ready") /\ UNCHANGED dropping
  /\ UNCHANGED <<flows, marking, moneyVars, lndVars, jobVars, received, probes, stops>>

\* No record: a new flow, stored.
BuildFlow(s) ==
  /\ pc[s] = "build"
  /\ \E flow \in FlowsWithoutRoute(s) :
       persistNew(flow) /\ used' = [used EXCEPT ![s] = flow]
  /\ Goto(s, "ready")
  /\ UNCHANGED <<marking, dropping, moneyVars, lndVars, jobVars, received, probes, stops>>

\* intraledgerPaymentSendWalletId builds a flow and stores none; a wallet cannot pay itself.
BuildIntraledger(s) ==
  /\ pc[s] = "start" /\ Intraledger(s) /\ To[s] # From[s]
  /\ \E flow \in FlowsWithoutRoute(s) : used' = [used EXCEPT ![s] = flow]
  /\ Goto(s, "ready")
  /\ UNCHANGED <<recordVars, moneyVars, lndVars, jobVars, received, probes, stops>>

\* lockWalletId: no other send of the wallet is between its checks and its answer.
WalletFree(s) == \A t \in Sends : From[t] = From[s] => pc[t] # "paying"

InTransit(s) == \E t \in Sends : Hash[t] = Hash[s] /\ journal[t] = "pending"

checkBalanceForSend(s) ==
  book[From[s]] >= In(Currency(From[s]), totalAmountsForPayment(used[s]))

\* executePaymentViaLn up to the call of lnd: checks, recordSend, payment sent.
Pay(s) ==
  /\ pc[s] = "ready" /\ ~Intraledger(s) /\ WalletFree(s)
  /\ \/ /\ InTransit(s) \/ ~checkBalanceForSend(s)
        /\ Goto(s, "done") /\ UNCHANGED <<book, journal, htlc>>
     \/ /\ ~InTransit(s) /\ checkBalanceForSend(s)
        /\ Post(From[s], Lnd, totalAmountsForPayment(used[s]))
        /\ journal' = [journal EXCEPT ![s] = "pending"]
        /\ htlc' = [htlc EXCEPT ![s] = "inflight"] /\ Goto(s, "paying")
  /\ UNCHANGED <<used, recordVars, back, cost, jobVars, received, probes, stops>>

\* executePaymentViaIntraledger of a send by wallet id.
PayIntraledger(s) ==
  /\ pc[s] = "ready" /\ Intraledger(s) /\ WalletFree(s)
  /\ IF checkBalanceForSend(s)
       THEN Post(From[s], To[s], Amounts(used[s])) /\ journal' = [journal EXCEPT ![s] = "settled"]
       ELSE UNCHANGED <<book, journal>>
  /\ Goto(s, "done")
  /\ UNCHANGED <<used, recordVars, back, lndVars, jobVars, received, probes, stops>>

\* lnd resolves a payment: a route of its choice within the fee cap, or the given route;
\* a hash is paid at most once.
LndResolves(s) ==
  /\ htlc[s] = "inflight"
  /\ \/ htlc' = [htlc EXCEPT ![s] = "failed"] /\ UNCHANGED cost
     \/ /\ \A t \in Sends : Hash[t] = Hash[s] => htlc[t] # "settled"
        /\ htlc' = [htlc EXCEPT ![s] = "settled"]
        /\ \E fee \in IF used[s].routed THEN {used[s].btcFee} ELSE 0..used[s].btcFee :
             cost' = [cost EXCEPT ![s] = fee]
  /\ UNCHANGED <<sendVars, recordVars, moneyVars, jobVars, received, probes, stops>>

\* The call returns the outcome.
PayReturns(s) ==
  /\ pc[s] = "paying" /\ htlc[s] \in {"settled", "failed"} /\ Goto(s, "done")
  /\ \/ journal[s] = "settled" /\ UNCHANGED moneyVars
     \/ /\ journal[s] = "pending" /\ Settle(s)
        /\ \/ htlc[s] = "failed" /\ Void(s)
           \/ htlc[s] = "settled" /\ used[s].routed /\ UNCHANGED <<book, back>>
           \/ htlc[s] = "settled" /\ ~used[s].routed /\ reimburseFee(s, used[s])
  /\ UNCHANGED <<used, recordVars, lndVars, jobVars, received, probes, stops>>

\* The call ends in LnPaymentPendingError: the flow is marked, without waiting.
PayTimesOut(s) ==
  /\ pc[s] = "paying" /\ Goto(s, "done")
  /\ used' = [used EXCEPT ![s].pending = TRUE] /\ marking' = marking \cup {s}
  /\ UNCHANGED <<flows, dropping, moneyVars, lndVars, jobVars, received, probes, stops>>

\* The process of a send stops, and what it has not sent to the database is lost.
Stop(s) ==
  /\ stops < MaxStops /\ stops' = stops + 1
  /\ pc[s] \in {"build", "ready", "paying"} \/ s \in marking \cup dropping
  /\ Goto(s, "done") /\ marking' = marking \ {s} /\ dropping' = dropping \ {s}
  /\ UNCHANGED <<used, flows, moneyVars, lndVars, jobVars, received, probes>>

-----------------------------------------------------------------------------
(* updatePendingPayment *)

\* inputAmountFromLedgerTransaction: the debit without the fee, in the wallet's currency.
LedgerKey(s) == <<From[s], Hash[s], In(Currency(From[s]), Amounts(used[s]))>>

isLnTxRecorded(s) == \E t \in Sends : Hash[t] = Hash[s] /\ journal[t] = "settled"

\* Amounts and fees are read back from the entry; nothing else of the flow is used.
reconstructPendingPaymentFlow(s) == [used[s] EXCEPT !.pending = TRUE]

\* markLightningPaymentFlowNotPending, or else the flow reconstructed from the ledger.
TakeFlow(s) ==
  /\ job = Idle /\ journal[s] = "pending" /\ htlc[s] \in {"settled", "failed"}
  /\ ~isLnTxRecorded(s)
  /\ \/ /\ Matching(LedgerKey(s)) = {} /\ UNCHANGED flows
        /\ job' = [send |-> s, flow |-> reconstructPendingPaymentFlow(s)]
     \/ \E i \in Places :
          /\ Finds(LedgerKey(s), i) /\ flows' = [flows EXCEPT ![i].pending = FALSE]
          /\ job' = [send |-> s, flow |-> [flows[i] EXCEPT !.pending = FALSE]]
  /\ UNCHANGED <<sendVars, marking, dropping, moneyVars, lndVars, misread, received, probes, stops>>

SamePrice(f, g) == Amounts(f) = Amounts(g) /\ f.btcFee = g.btcFee /\ f.usdFee = g.usdFee

\* Settle, then reimburse the fee, void, or give a failed USD payment back in BTC.
Resolve(s) ==
  /\ job.send = s /\ job' = Idle
  /\ \/ journal[s] # "pending" /\ UNCHANGED <<moneyVars, misread>>
     \/ /\ journal[s] = "pending" /\ Settle(s)
        /\ misread' = IF SamePrice(job.flow, used[s]) THEN misread ELSE misread \cup {s}
        /\ \/ htlc[s] = "settled" /\ used[s].routed /\ UNCHANGED <<book, back>>
           \/ htlc[s] = "settled" /\ ~used[s].routed /\ reimburseFee(s, job.flow)
           \/ htlc[s] = "failed" /\ From[s] \notin Usd /\ Void(s)
           \/ /\ htlc[s] = "failed" /\ From[s] \in Usd
              /\ GiveBack(s, BtcWallet[From[s]], totalAmountsForPayment(job.flow))
  /\ UNCHANGED <<sendVars, recordVars, lndVars, received, probes, stops>>

-----------------------------------------------------------------------------
Step(s) ==
  \/ ProbeFee(s) \/ FindFlow(s) \/ BuildFlow(s) \/ BuildIntraledger(s)
  \/ Pay(s) \/ PayIntraledger(s) \/ LndResolves(s) \/ PayReturns(s) \/ PayTimesOut(s)
  \/ UpdateLands(s) \/ DeleteLands(s) \/ Stop(s) \/ TakeFlow(s) \/ Resolve(s)

Next ==
  \/ \E s \in Sends : Step(s)
  \/ \E i \in Places : Expires(i)
  \/ deleteExpiredLightningPaymentFlows
  \/ \E r \in Receipts : ReceiveInvoice(r)

Spec == Init /\ [][Next]_vars

-----------------------------------------------------------------------------
(* Properties *)

BtcAccounts == {Lnd, "bank", "dealerBtc"} \cup (Wallets \ Usd)
UsdAccounts == {"dealerUsd"} \cup Usd
TotalOf(accounts) == SumFunctionOnSet(book, accounts)
FundsOf(wallets) == SumFunctionOnSet(Funds, wallets)

\* EntryBuilder: payments, refunds and receipts across currencies never create or lose a
\* sat or a cent in the ledger as a whole.
BooksBalance ==
  /\ TotalOf(BtcAccounts) = FundsOf(Wallets \ Usd)
  /\ TotalOf(UsdAccounts) = FundsOf(Usd)

Settled(s) == ~Intraledger(s) /\ journal[s] = "settled"
Charged(s) == used[s].btc + used[s].btcFee - back[s].btc

\* reimburseFee, revert and reimburseFailedUsdPayment: when a Lightning payment is closed,
\* the sats its entries leave on the account of lnd are those lnd spent - unless the
\* reconciler worked with a flow of other amounts.
LndBooksExact ==
  \A s \in Sends \ misread : Settled(s) =>
    Charged(s) = IF htlc[s] = "settled" THEN used[s].btc + cost[s] ELSE 0

\* FeeReimbursement: a USD payer gets back no more cents than were taken for the fee.
ReimbursedWithinPrepaid ==
  \A s \in Sends \ misread : Settled(s) /\ htlc[s] = "settled" => back[s].usd <= used[s].usdFee

\* The roundings of the builder and of the reimbursement: on the payments of a USD wallet
\* the dealer is never a whole cent short of the value of the sats it gave, and not at all
\* when the fee was computed in sats.
DealerCovered ==
  \A s \in Sends \ misread : Settled(s) /\ From[s] \in Usd =>
    LET kept == used[s].usd + used[s].usdFee - back[s].usd
        short == (IF htlc[s] = "settled" THEN Charged(s) ELSE 0) * used[s].usd
                   - kept * used[s].btc
    IN  short <= IF SatsGiven(s) THEN 0 ELSE used[s].btc - 1

\* markLightningPaymentFlowNotPending: when a record of the payment is marked pending, the
\* reconciler works with the amounts that were charged, whatever probes came after.
PendingRecordIsOwn ==
  [][\A s \in Sends :
       /\ job.send # s /\ job'.send = s
       /\ \E i \in Matching(LedgerKey(s)) : flows[i].pending
       => SamePrice(job'.flow, used[s])]_vars

\* The account of lnd agrees with lnd once all payments are closed.
BooksMatchLnd ==
  (\A s \in Sends : journal[s] # "pending") =>
    book[Lnd] = SumFunctionOnSet([s \in Sends |-> used[s].btc + cost[s]],
                                 {s \in Sends : htlc[s] = "settled"})
                  - SumFunctionOnSet([r \in received |-> r.sats], received)
=============================================================================
