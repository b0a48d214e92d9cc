# Galoy backend: TLA+ models, checks and proofs

This directory specifies the parts of the Galoy bitcoin bank (`src/backend/src`) that
move money: what a request, a cron pass or an event handler does to the ledger, the
locks, the invoice documents and lnd, step by step, and what must hold however these
steps interleave and wherever they stop. TLC checks the specifications on small
instances; TLAPS proves the central results for every instance.

## The system and its parts

The bank keeps a double-entry ledger (medici on mongodb). Mongodb is the source of
truth, and `ARCHITECTURE.md` says of it that "There is no transaction used yet". Redis
carries the locks (redlock). lnd holds the channels and the hot wallet, bitcoind the cold
storage. Three kinds of processes run over them: the graphql servers (any number of
replicas), `trigger` (reacts to events of lnd) and `cron` (sweeps everything the other two
may have missed). Every await between two calls is a point where the others run.

| part | source | state it owns | here |
| --- | --- | --- | --- |
| Lightning send | `app/payments/send-lightning.ts`, `services/ledger/facade.ts` | journals, wallet locks, payment flows | `LnSend` |
| Reconciler of pending payments | `app/payments/update-pending-payments.ts` | hash locks, the same journals | `LnSend` |
| Lightning receive | `app/wallets/update-pending-invoices.ts`, `servers/trigger.ts` | invoice documents, receipts | `InvoiceReceive` |
| Invoice paid inside the ledger | `app/payments/send-lightning.ts` (299-463) | intraledger entries, the same documents | `InvoiceReceive` |
| On-chain send | `app/wallets/send-on-chain.ts`, `get-on-chain-fee.ts`, `servers/trigger.ts` (58-102) | journals and their hashes, wallet locks | `OnChainSend` |
| On-chain receive | `app/wallets/update-on-chain-receipt.ts`, `servers/trigger.ts` (185-196) | receipts per output, transaction locks | `OnChainReceive` |
| Cold storage | `app/cold-storage`, `domain/cold-storage` | the hot wallet's balance, its ledger account | to cold in `OnChainSend`, back in `OnChainReceive` |
| Locks | `services/lock/index.ts` | redis keys with a lease | in the first four modules |
| lnd and its wrapper | `services/lnd/index.ts`, `onchain-service.ts` | payments, invoices, the hot wallet | environment of all modules |
| Fees, price ratio, entry builder | `domain/payments`, `domain/ledger/fee-reimbursement.ts`, `domain/shared/calculator.ts`, `services/ledger/domain/entry-builder.ts` | none (pure) | `Amounts` |
| Payment flow records, intraledger sends | `domain/payments/payment-flow-builder.ts`, `services/mongoose/payment-flow.ts`, `app/payments/get-protocol-fee.ts`, `send-intraledger.ts` | payment_flow_state, the books in two currencies | `PaymentFlows` |
| Ln payments collection | `app/lightning/update-ln-payments.ts`, `delete-ln-payments.ts` | LnPayments, the node's list of payments | `LnPayments` |
| Routing revenue, escrow | `services/lnd/utils.ts`, `services/ledger/admin-legacy.ts` | journals, DbMetadata | `NodeBooks` |
| Swap out | `app/swap`, `domain/swap`, `services/ledger/admin.ts` | swap fee journals and their metadata | `SwapOut` |
| Users, login, rate limits | `app/users`, `services/kratos`, `services/rate-limit` | kratos, redis | not modelled |
| graphql, notifications, tracing, price feed, generated clients, migrations, debug | | | not modelled: I/O, wiring or generated |

## Modules

    LnSend ............ senders, reconcilers, ledger, locks, lnd
      LnSendContract .. what a sender is promised (abstract specification)
      MCLnSend ........ instances for TLC
      LnSendProofs .... locks, refunds, the contract, the books of an account
    InvoiceReceive .... handlers of a hold invoice, intraledger payers, lnd
      MCInvoiceReceive  instances for TLC
      InvoiceReceiveProofs
    OnChainSend ....... on-chain requests, the trigger's settle, the rebalance, lnd
      OnChainSendContract  what a sender is promised (abstract specification)
      MCOnChainSend ... instances for TLC
      OnChainSendProofs
    OnChainReceive .... scans of trigger and cron, transactions and their outputs
      MCOnChainReceive  instances for TLC
      OnChainReceiveProofs
    Amounts ........... divisions, conversions, fees, legs of an entry (operators)
    PaymentFlows ...... flows and their records, entries in two currencies, lnd
      MCPaymentFlows .. instances for TLC
      PaymentFlowsProofs  arithmetic, flows and records, the books as a whole
    LnPayments ........ senders' records, the synchronising task, the deleting task
      MCLnPayments .... instances for TLC
      LnPaymentsProofs
    NodeBooks ......... routing revenue and escrow, tasks of cron
      MCNodeBooks ..... instances for TLC
    SwapOut ........... the cron task, loopd, the triggers that book fees
      MCSwapOut ....... instances for TLC
    CronProofs ........ proofs about NodeBooks and SwapOut
    SetTheorems ....... sums over finite sets, smallest and largest elements (lemmas)

### LnSend

A request (`Attempts`) is one run of `executePaymentViaLn`; its id is also the id of the
journal it records. `pc` is its control point, one per await:
`CheckLimits` (newCheckWithdrawalLimits, before the lock), `LockWalletId`,
`CheckInTransit`, `CheckBalance`, `CheckSignal` (signal.aborted), `RecordSend`, `Pay`,
then lnd's answer (`PayReturns`), a timeout (`PayTimesOut`) or a dropped connection
(`ReplyLost`), `SettlePendingLnSend` and `ResolveSend` (revert or fee reimbursement).

A worker is one run of `updatePendingPaymentsByWalletId`: `ListPendingPayments` takes the
snapshot for a wallet, `TakePayment` the next entry, `LookupPayment` asks lnd,
`LockPaymentHash`, `CheckRecorded` (isLnTxRecorded), `MarkFlow`,
`SettlePendingLnPayment` and `ResolvePending`. Sender and worker hold different locks,
so they can meet on one journal; what separates them is `modifiedCount` of updateMany,
which is `PendingIn(h) = {}` in the model.

The state of the ledger is the balance of each wallet and, per journal, whether its legs
are pending (`journal`), whether it was voided, and how many refund and fee entries refer
to it. With `AtomicSettle = FALSE` updateMany flips the legs of a journal in two steps.
lnd (`LndSettles`, `LndFails`) resolves a payment at any time, also after the sender
stopped waiting. `StopAt` lists the control points where a process may crash or get a
database error. Amounts are in one unit: the price is constant and all payments are of
one size, because what matters here is which entries are written, not their sizes.

`LnSendContract` is the promise to the sender: amount and maximum fee are held; then the
payment is delivered and the unspent fee given back once, or everything is given back
once and the payment is never delivered. `StageOf` and `ChargeOf` map a state of LnSend
to it.

### InvoiceReceive

An invoice is a hold invoice in lnd (`lnd`) and a walletinvoices document (`record`). A
handler is one run of `updatePendingInvoice` or `declineHeldInvoice`, started by the cron
sweep (`HandleHeldInvoices`), by an event of lnd (`InvoiceUpdated`) or when the trigger
starts (`ListenerExisting`). `snap` is the `paid` flag it read first and `looked` what lnd
answered first: both are used later, behind the lock. `Return(h, truthy)` is the end of
`updatePendingInvoice`, which marks the document as paid on every truthy result, an Error
included (line 277). lnd answers a second settle of an invoice with success
(`SettleInvoice`). A payer is one run of `executePaymentViaIntraledger` on the same
invoice. `Crash`, `CallFails`, `SettleReplyLost` and `PayerFails` are the faults, at any
step, at most `MaxFaults` of them; a crashed holder's lock is `Dead` until its ttl.

### OnChainSend

A request is one run of `payOnChainByWalletId`, and the id of its journal. Whether the
address belongs to a wallet of the bank (`payee`) and whether everything is sent
(`sendAll`) is chosen initially. The control points of the outside path are
`EstimateFee` (first estimate, before the lock), `LockWalletId`, `CheckBalance` (second
estimate), `AddOnChainTxSend` (third estimate and the pending journal under a random
hash), `PayToAddress` or `PayToAddressUnknown`, then `SetOnChainTxSendHash`, or
`RevertOnChainPayment` and `Void`; of the path inside the ledger, `ICheckBalance` and
`AddOnChainIntraledgerTxTransfer`. Each estimate reads lnd's miner fee and the imbalance of
the wallet anew: the latter is a sum over a window of days that payments of the wallet move,
and here any number between two constants (both 0 for the method "flat"). The bank's part is
`onChainWithdrawalFee` (`BankFee`) with the two different minimums the code uses.
Steps that only read and may refuse the request (limits, prices, balances of lnd) are a
refusal that may happen at the step they belong to.

`Mined` is the chain, `SettlePendingOnChainPayment` the trigger's handler, which finds
entries by the transaction's hash and is not repeated. `RebalanceStart`, `RebalancePay`
and `AddColdStorageTxReceive` are `rebalanceToColdWallet`, which spends from the same
`hot` wallet; `lndBook` is what the ledger says of it. `StopRequest`, `EventLost`,
`RebalanceFails` and `PayToAddressUnknown` are the faults.

`OnChainSendContract` is the promise to the sender: a charge is taken once and before
anything is sent, no more is sent than was charged, the payment is final only once it is
confirmed, or the whole charge is given back, once, and nothing is ever sent. Apart from
that, balances only change by transfers between wallets. `StageOf`, `ChargeOf` and `PaidOf`
map a state of OnChainSend to it. A journal between the two writes of
`revertOnChainPayment` is still held; after a crash there it stays so, because the
contract promises no progress.

### OnChainReceive

A scanner is one run of `updateOnChainReceipt`, started by a block
(`OnchainBlockEvent`, MIN_CONFIRMATIONS + 1 blocks deep) or by cron (`CronScan`,
ONCHAIN_SCAN_DEPTH). `Scan` lists the incoming transactions that are deep enough, counting
from a block height that may be old; a visit is one pair of a transaction and a wallet, or the
hot wallet for a withdrawal from cold storage: `Visit`, `LockOnChainTxHash` (or
`LockGivenUp`), `CheckRecorded`, and one `BookOutput` per output. `CallFails` keeps the
difference between the two loops: an error ends the visit of a wallet, and skips the output
of a withdrawal. `booked` counts the journals of each output, and `lost` has the outputs that
a fault made the last visit of a pair pass over; amounts and fees are left out.

### Amounts and PaymentFlows

`Amounts` has the three divisions of `AmountCalculator`, the conversions of `PriceRatio`
(with their minimum of one unit), `maxProtocolFee`, `getReimbursement` and the legs
`EntryBuilder` gives a journal, the dealer's two accounts included, as operators on
natural numbers of sats and cents.

`PaymentFlows` uses them in a state machine. A send first looks for a flow (`FindFlow`),
or builds one at the price of the moment (`BuildFlow`, `BuildIntraledger`), and then pays
(`Pay`, `PayIntraledger`); `ProbeFee` is `estimateLightningFee`, which stores a flow too.
`flows` is the collection in the order of insertion: its key is not unique, a query takes
the oldest match, `Expires` and `deleteExpiredLightningPaymentFlows` age and remove
records. `UpdateLands` and `DeleteLands` are the two writes nobody awaits: they reach the
database at any later time, or never when the process stops (`Stop`). `TakeFlow` and
`Resolve` are the reconciler, which works with the record it finds under the key it
reads back from the ledger, or with amounts reconstructed from the ledger. `misread`
remembers payments that were resolved with other amounts than those charged, `book` is
the balance of every account. The interleavings inside `executePaymentViaLn` and inside the
reconciler are those of LnSend; here each of them is one step so that amounts can be
carried along. That is only right while the sends of a hash are those of one wallet, whose
lock covers check and entry: `OnePayerAssumption` says so, and two payers of a hash are left
to LnSend. The limits before the lock only refuse and are left out, and so is the
invoice of a USD wallet that fixes the cents of its intraledger payer.

### LnPayments

The bank's copy of the node's list of payments. `Pay` is what `executePaymentViaLn` leaves
behind: a record to be persisted, which lands later (`persistNew`) or is lost.
`UpdateStarts`, `ListPage`, `UpdatePayment` and `PageEnds` are `updateLnPayments`: the
partial records are read once, then the node's settled and failed payments page by page,
newest first; a payment on the page that is not among the records read ends the page. A page
may be shorter than `PageSize`, because ln-service asks lnd for a page and filters it.
`checkAndDeletePaymentForHash` is the deleting task; its calls to the node are not awaited.

### NodeBooks

One cron process at a time, whose tasks run one after the other. `updateEscrows` reads the
escrow, `updateLndEscrow` books the difference; `getRoutingFees` reads the window of days,
`addLndRoutingRevenue` books them one by one, `storeLastEntry` stores the date. `TaskFails`
ends a task, `CronStops` the process. Days are those of the process's clock, taken to be
UTC; `end` is the day the code stores, which is not the end of the window it has read.

### SwapOut

`ReadBalances` and `swapOut` are the cron task. A trigger is a process with or without a
listener (`listening`): `startSwapMonitor` opens one at start if loopd passes the health check
at that moment, never tries again, and does not notice the end of the stream
(`StreamEnds`). There are two triggers, because a deployment starts the new one before the
old one is gone. The listener does not await `handleSwapOutCompleted`, so that a trigger has
several calls of it at a time (`Slots`); `findByHash`, `commit` and `persistAll` are the steps
of a call. loopd is external: it reports the swaps it knows again to a new listener
(`Restart`), which is how a fee that a stopped trigger has missed is booked at all, and may
report one twice to the same listener. `overlaps` and `cut` remember the two ways in which the
check before the entry can be passed twice, `dropped` the swaps a trigger gave up when the
database failed. The code opens a listener on each of two loopds; the model has the one whose
node swaps.

## Runs

| run | what happens | what it shows |
| --- | --- | --- |
| `send_reconcilers` | one USD payment, its sender, two reconcilers, a stop at any step, both locks may expire | `ImplementsContract`, `BankCovered` |
| `send_wallet` | two payments of a wallet that can afford one, lost replies, updateMany in parts | `NoOverdraft` |
| `send_retry` | one invoice paid twice by one wallet, two reconcilers | `OneInTransit`, `RefundedOnlyIfFailed` |
| `send_live` | a BTC and a USD payment, crash of the sender while lnd pays, fairness | `PendingSettles`, `FailedRefunded`, `ResolvedOnce`, `LedgerMatchesNetwork` |
| `receive_invoice` | two handlers and two payers of one invoice, one fault anywhere, fairness | `CreditOnlySettled`, `CreditedNotPending`, `WalletPaysOnce`, `PaidInsideClosed`, `HeldResolved` |
| `onchain_send` | two on-chain requests of one wallet on either path, miner fees and imbalances that move, a rebalance, one fault anywhere, fairness | `OverdraftBounded`, `SentStaysCharged`, `PendingUntilMined`, `BooksFollowHotWallet`, `KnownHashSettles`, `RefusedRefunded`, `ImplementsContract` |
| `onchain_receive` | two scanners, a transaction with three outputs to two wallets, a cold storage withdrawal with two outputs for the hot wallet, a stale height, two faults, fairness | `BookedOnce`, `AllOutputsOrNone`, `EveryDeepTxBooked` |
| `payment_flows` | an outside payment and a transfer of a USD wallet, a receipt, a probe, two prices, two places for records, one stop | `BooksBalance`, `LndBooksExact`, `ReimbursedWithinPrepaid`, `DealerCovered`, `PendingRecordIsOwn` |
| `node_books` | five days, two forwards a day, two changes of the escrow, a stopped and a failed task, fairness | `DayBookedInFull`, `OnlyEvesSkipped`, `EscrowSettles` |
| `swap_out` | a swap, two triggers that listen or not, each with two calls at a time, two restarts, streams that end, a repeated report, a failed call, fairness | `SwapFeeOnce`, `SwapFeeBooked`, `SwapTypeOK` |
| `ln_payments` | two payments, one of them retried, pages of one or two, two faults, fairness | `GoneIsOnRecord`, `CompleteIsTrue`, `CompleteStays`, `PartialCompletes`, `CatchesUp` |
| `receive_twice` | violated | two handlers credit one payment twice |

`TypeOK` (`SwapTypeOK` in `SwapOut`, where a run checks it too) is proved for every module that
has one.

Bounds. Two requests are enough for every race the code has between requests: each
pair meets either on a wallet lock, on a hash, or on neither. Two workers are enough for
a race between reconcilers and a third process, the sender, is always present. `MaxFee`
is 2 where the fee matters so that none, part and all of it can be spent. One invoice
suffices in `InvoiceReceive`, since nothing is shared between invoices but a payer's wallet
lock; two handlers and two payers of one wallet cover each pairing. `MaxFaults = 1`
covers every single fault; the proofs cover any number. In `onchain_send` the fees are
chosen so that the minimum, the ratio and the dust threshold each decide some case, both
requests together exceed the wallet, the imbalance moves the bank's part from nothing to
half the amount, and the hot wallet pays for a request and then a
rebalance, but not in the other order (`MaxRebalances = 1`). In `onchain_receive` one
transaction gets mined (`MaxMined = 1`; which one is open): transactions have separate
locks and journals, and a scan treats them one after the other. `MaxConfirmations` exceeds
the trigger's window, so that a transaction can leave it unbooked and only cron is left.
In `payment_flows` the two prices and a fee cap of half the amount make every rounding
happen with amounts of a few units: the proofs cover all others. Two places for records
let a probe and a payment, or two attempts, leave two records of one key. In `node_books` five
days give two windows after one another and a day that falls between them. In `swap_out`
one swap is enough, as entries, metadata and checks are per swap and calls do not wait for
each other; two calls in each of two triggers cover a fee that is booked, cut off, repeated
and overlapped, within a process and across two. In
`ln_payments` two hashes and three sends give a retried payment beside a newer one, which is
what blocks a page; the page may hold one or two.

Fairness. A request and a worker that started run on (node's event loop); lnd resolves
every payment it has in flight (HTLCs time out); cron lists again and again every
wallet with pending payments and every unpaid invoice, so these starts are strongly fair
(the worker is busy in between); a hash lock that keeps coming free is obtained by a worker
that keeps trying (strong fairness on `LockPaymentHash`), and a dead lock expires. On
chain, blocks are found, transactions are mined and the trigger handles the events it
gets; cron keeps scanning (strongly fair, as its scanner may be running), and a scanner
that waits for a transaction's lock gets it when it keeps coming free: giving up on a live
holder after the three retries (1.2 s, against a visit of a few database calls) is
counted as a fault, giving up on a dead one is not. A cron run starts again and again and
does its tasks (`node_books`, `ln_payments`), and a running trigger handles the events of its
listener (`swap_out`). That a trigger has a listener is not assumed: `SwapFeeBooked` speaks of
behaviours in which one keeps it. `CatchesUp` assumes besides that two months pass for every payment and
that the deleting task, which every cron run comes to, meets it (`TimePasses`). No fairness
is assumed of the arrival of requests, of payers, or of faults.

## What the code does not provide

The run `receive_twice` refutes what a comment says (update-pending-invoices.ts:159: "we're
getting the invoice another time, now behind the lock, to avoid potential race condition").
The document is read into `invoiceToUpdate`, but line 166 tests `walletInvoice.paid`, read
before the lock, so that two handlers credit one payment twice: the call to lnd does not
stop the second, since lnd reports a settled invoice as settled again.

Five more configurations are kept beside the project for whoever changes the code. TLC
refutes the property of each, and the properties of the runs are worded around them:

- `LnSend_limit_race.cfg`, `WithdrawalLimitRespected`: `newCheckWithdrawalLimits`
  (send-lightning.ts:481) runs before `lockWalletId` (492) and is not repeated behind it.
- `LnSend_retry_stuck.cfg`, `PendingSettles`: `isLnTxRecorded`
  (update-pending-payments.ts:145) counts any non-pending entry of the hash; those of an
  earlier failed attempt hide a later pending one.
- `LnSend_two_payers.cfg`, `LedgerMatchesNetwork`: the in-transit check is under the sender's
  own wallet lock, while `settlePendingLnSend` (facade.ts:142) flips every journal with the
  hash.
- `OnChainSend_mined.cfg`, `MinedSettles`: the journal carries a random hash until
  `setOnChainTxSendHash` (send-on-chain.ts:421). The trigger settles by the transaction's hash,
  once. If the block is handled first the payment stays pending, although schema.ts:33 says it
  is so "until the transaction get mined". `KnownHashSettles` is what does hold.
- `PaymentFlows_stale.cfg`, `BooksMatchLnd`: the reconciler may take the record of a fee probe
  made at another price, when the payment's own write has not landed. `misread` is the
  exception in `LndBooksExact`, and `PendingRecordIsOwn` says when it cannot occur.

The background jobs have gaps that their properties name as exceptions: routing revenue of
the eve of a run is never booked, because the date stored is that of the run while the
window ends the day before yesterday (`OnlyEvesSkipped`, utils.ts:277); days are booked again
after a run that was cut off (`DayBookedInFull`); a swap's fee is booked twice by two calls at
once, or after a stop between entry and metadata (`SwapFeeOnce`), and not at all while no
trigger has a listener (`SwapFeeBooked`); an output is never booked that a fault made a visit
pass over which booked another output of the same wallet (`EveryDeepTxBooked`); a page of payments is given
up at the first payment that is not incomplete (`PartialCompletes`); the record of a failed
payment stays as it is when the payment is made again (`CompleteIsTrue`).

## Proofs

Every invariant and every action property of the passing runs is proved, for arbitrary
sets of wallets, requests, workers, invoices, handlers, payers, transactions, scanners,
days, swaps and triggers, under the assumptions named in each module: typing of the
constants; finite sets of wallets and payments where something is summed over them or
counted; that the lowest miner fee and imbalance do not exceed the highest; in PaymentFlows, that a sat
is worth at most a cent and that a hash has one payer. What more a theorem assumes about
locks or lnd stands in its ASSUME and is named below.

### LnSendProofs

- `TypeCorrect`: `TypeOK` is inductive once a worker past `next` is known to have a job and
  one past `markFlow` a payer.
- `NeverOverdrawn`: `NoOverdraft`, if wallet locks keep their lease. The invariant adds that
  a request between lock and record holds its wallet's lock, and that one between the
  balance check and the record still finds the cost covered; nobody else debits without the
  lock, and everything else credits.
- `NeverTwiceInTransit`: `OneInTransit`, under the same assumption. A request past the
  in-transit check still finds nothing pending under its wallet and hash (`Clear`).
- `RefundsAreSafe`: `RefundedOnlyIfFailed`, if besides a hash is paid from one wallet and no
  reply is lost. lnd answers for a hash, and a hash that was tried again has several
  payments. The invariant (`RetryInv`) says that the answer a reconciler carries past
  isLnTxRecorded is about the payment it is at: that one is pending, nothing of the hash is
  settled, and by `OneInTransit` no other is pending.
- `SendImplementsContract`: every step of LnSend is a step of the contract or a stutter, if
  each hash has one payer, updateMany is one step, and no reply is lost. The invariant
  (`ContractInv`) ties the result a sender or worker carries to what lnd has resolved, and
  gives the right to resolve a journal to the one process whose settle found it pending. Each
  of the three assumptions is needed: without it TLC finds a counterexample
  (`LnSend_two_payers.cfg` shows the first).
- `ClosedOnce`: `ResolvedOnce`, from that right.
- `BankIsCovered`: `BankCovered`. The invariant (`BooksInv`) is an equation for each account:
  its funds and the charges of all its payments, as the contract counts them, sum to what it
  opened with. Every step that moves money changes one balance and one charge by the same
  amount.
- `BooksMatchNetwork`: `LedgerMatchesNetwork`, if besides no process stops between settling a
  journal and resolving it. `Finished` says that a settled journal is settled up or somebody
  is about to resolve it; that is what such a stop breaks.

### InvoiceReceiveProofs

- `ReceiptsBacked` and `CreditClosesInvoice`: `CreditOnlySettled` and `CreditedNotPending`.
  The invariant follows a handler: past the settle lnd has settled the invoice, past
  markAsPaid the document is not pending, and no action undoes either.
- `PaidInsideOnce` and `PaidInsideCloses`: `WalletPaysOnce`, because a payer between its
  check and its entry holds the wallet and no payment of it is recorded, and
  `PaidInsideClosed`.
- `SequentialCreditOnce`: with one handler `CreditedOnce` holds, with any faults: the
  violation of `receive_twice` needs two.

### OnChainSendProofs and OnChainReceiveProofs

- `OverdraftLimited`: `OverdraftBounded`. A request past the lock holds it; at the record
  the balance covers the amount, the bank's fee of the second estimate at some imbalance and
  the lowest miner fee; only the holder debits. The third estimate is of a smaller amount, and
  `FeeBound` limits what its other minimum and another imbalance can add: the part the ratio
  applies to grows with the amount and moves no further than the imbalance, and rounding up
  is monotone and subadditive (`RatioMonotone`, `RatioSubadditive`).
- `ChargedWhileSent` and `PendingTillMined`: `SentStaysCharged` and `PendingUntilMined`. The
  invariant `LifeOf` says, for each control point, what journal, hash and transaction can be.
- `SendImplementsContract`: `ImplementsContract`, with no assumption beyond those on the
  constants. `LifeOf` gives the stage at which a step is taken, and a step shows the contract
  one request only (`OwnOnly`).
- `BooksFollow`: `BooksFollowHotWallet`. In between, the ledger's account is ahead of the hot
  wallet by what was recorded and not yet sent (`Due`) and behind it by a transfer to cold
  storage that was sent and not yet recorded (`ToCold`); with these two terms the difference
  stays within the spread of the miner fee for each transaction that was sent (`HotInv`).
- `OutputsBookedOnce`: `BookedOnce`, and that nothing is booked before it is deep enough. A
  scanner that books holds the transaction's lock and its remaining outputs are unbooked; the
  pairs it visits were listed deep enough, and blocks only add depth (reorganisations are
  not modelled).
- `BookedWhole`: `AllOutputsOrNone`, from the same invariant, which also says that the outputs
  a booking has passed are booked or in `lost`.

These modules and InvoiceReceive take it that a lease outlives a running holder (180 s); a
crashed holder's lease ends.

### PaymentFlowsProofs

- `LndBooksExactHolds`, `ReimbursedHolds` and `DealerCoveredHolds`: the three properties for
  all amounts, prices of at most a cent for a sat, fee caps, route fees, numbers of sends,
  probes and stops. First the arithmetic: `Round`, `Floor` and `Ceil` bound the divisions
  from both sides, `Builder` concludes that the cents of a flow's fee cover its sats, up to
  half a sat's worth when the fee was computed in cents (`Priced`), and `Reimbursement` that
  what is left of a fee is given back within that bound. The invariant (`Inv`) says that
  every record, every flow in use and the reconciler's flow are `Priced`, that a hash has at
  most one pending entry (it has one payer: `OnePayerAssumption`), and what has been given
  back when a payment is closed (`Closed`). It is needed because a payment may use a record
  that another call built long before.
- `PendingRecordsAreOwn`: `PendingRecordIsOwn`. A mark says little by itself: updates land
  late, replace the oldest record of the key whoever inserted it, and outlive the payment.
  The invariant (`MarkInv`) says that a marked record has a payment of its hash behind it
  which, if it is still pending, charged the amounts of the record, and that a query finds
  this record before any other. The reconciler takes up a payment only when nothing of the hash is
  settled, so the payment behind the mark is the one it is at.
- `BooksBalanceHolds`: `BooksBalance`. Every entry is posted by legs that cancel in both
  currencies (`EntryBalances`, `LegsBalance`), and the sum over the accounts changes by the sum
  over the at most four accounts with a leg.

### LnPaymentsProofs and CronProofs

- `DeletedIsOnRecord`, `RecordsAreTrue`, `RecordsAreFinal`, `PaymentsTypeCorrect`: one
  invariant (`PaymentsInv`). A page that was read is older than the node's lists; of a payment
  on it the list still tells the truth, unless it was made again. The records the job has
  completed are ones it will not meet again (`Passed`), so that it counts no record twice; this is
  what keeps the count of records it is still to complete from going negative.
- `DaysAreBookedInFull`, `EvesAloneAreSkipped`, `BooksTypeCorrect`: what a run has read of a day
  is all that was earned on it, as the window ends before yesterday; the number of times
  a day is booked grows beyond one only with a run that stored no date.
- `SwapFeesOnce`, `SwapsTypeCorrect`: unless one of the two exceptions has happened to the
  swap, at most one call is past its check, and an entry has its metadata or its call is
  about to write them. The channels hold what no swap has taken (`Liquidity`).

### SetTheorems

The sum over a finite set is `SumFunctionOnSet`. The library's induction rules cannot be
used by the provers, so the lemmas about sums argue by a smallest counterexample: among the
finite subsets for which a claim fails, one has no smaller such subset. `SumInsert`, `SumAdd`,
`SumLe` and `SumPoints` (what one or several changed values do to a sum) carry the theorems on
books.

### Only model-checked

Everything with fairness (`PendingSettles`, `FailedRefunded`, `HeldResolved`,
`KnownHashSettles`, `RefusedRefunded`, `EveryDeepTxBooked`, `EscrowSettles`, `SwapFeeBooked`,
`PartialCompletes`, `CatchesUp`), which is out of the prover's reach.

## Not modelled

- `onChannelUpdated` (trigger): books the fee of a channel the node has opened, in one call
  when lnd reports it, without a lock or a record that would tell a repeated event.
- Intraledger and trade limits: they compare another sum of the same volumes in the same way
  and before the same locks as the withdrawal limit of LnSend.
- Reorganisations of the chain, several lnd nodes, and a second cron process beside the first.
- Rate limits: a counter kept by a library; the code wraps its errors.
- Login and sessions: their state is kept by kratos and twilio.
- Generated protobuf clients, graphql resolvers, notifications, tracing, the price feed,
  migrations and debug scripts: I/O around the modelled parts. The price enters the models as
  a choice from a set at every point where it is read.
