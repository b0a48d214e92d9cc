--------------------------- MODULE OnChainReceive ---------------------------
(***************************************************************************)
(* Receiving bitcoin on chain: updateOnChainReceipt, run by the trigger on *)
(* every block with a small scan depth and by the cron job with a large    *)
(* one, in several processes at a time.  A scan lists the transactions lnd *)
(* received and credits, under the lock of the transaction's hash, the     *)
(* outputs that pay a wallet of the bank (processTxForWallet); when no     *)
(* wallet owns an output it books the transaction as a withdrawal from     *)
(* cold storage (processTxForHotWallet).                                   *)
(*                                                                         *)
(* Amounts, deposit fees and prices are left out: what matters is which    *)
(* outputs are booked, and how often.  Blocks are not reorganised: the     *)
(* code does not look at a transaction again after booking it.             *)
(***************************************************************************)
EXTENDS Integers, Sequences, FiniteSets

CONSTANTS
  Txs, Wallets, Scanners,
  Owner,             \* owner of every output of a transaction: a wallet, Hot or Cold
  Hot, Cold,         \* an address of lnd's own, an address of cold storage
  FromCold,          \* transactions isWithdrawalTransaction recognises
  MinConfirmations,  \* ONCHAIN_MIN_CONFIRMATIONS
  MaxConfirmations,  \* cap on confirmations, within ONCHAIN_SCAN_DEPTH
  MaxMined,          \* bound on transactions that are mined
  MaxLag,            \* bound on how far the cached block height is behind
  MaxFaults,         \* bound on crashes, failed calls and slow visits
  None, Dead         \* a lock that is free, a lock whose holder crashed

ASSUME OnChainReceiveAssumption ==
  /\ Owner \in [Txs -> Seq(Wallets \cup {Hot, Cold})]
  /\ Hot \notin Wallets /\ Cold \notin Wallets /\ Hot # Cold
  /\ FromCold \subseteq Txs
  /\ {MaxMined, MaxLag, MaxFaults, MaxConfirmations} \subseteq Nat /\ MinConfirmations \in Nat \ {0}
  /\ None # Dead /\ {None, Dead} \cap Scanners = {}

VARIABLES
  confirmations,  \* depth of a transaction in the chain; 0: not mined
  booked,         \* number of ledger journals for an output of a transaction
  txLock,         \* holder of lockOnChainTxHash
  pc,             \* control point of a scanner
  todo,           \* the pairs of transaction and wallet (Hot: none) it still visits
  job,            \* the pair it is visiting
  left,           \* outputs it still books for the pair
  lost,           \* outputs of a pair that a fault made its last visit pass over
  faults

scanVars == <<pc, todo, job, left>>
vars == <<confirmations, booked, txLock, scanVars, lost, faults>>

Pairs == Txs \X (Wallets \cup {Hot})
NoJob == <<None, None>>
Points == {"idle", "visit", "lock", "check", "book"}
AllOutputs == UNION {DOMAIN Owner[t] : t \in Txs}

\* Types of all the variables.
TypeOK ==
  /\ confirmations \in [Txs -> 0..MaxConfirmations]
  /\ DOMAIN booked = Txs /\ \A t \in Txs : booked[t] \in [DOMAIN Owner[t] -> Nat]
  /\ txLock \in [Txs -> Scanners \cup {None, Dead}]
  /\ pc \in [Scanners -> Points] /\ todo \in [Scanners -> SUBSET Pairs]
  /\ job \in [Scanners -> Pairs \cup {NoJob}] /\ left \in [Scanners -> SUBSET AllOutputs]
  /\ \A s \in Scanners : pc[s] \in {"lock", "check", "book"} => job[s] \in Pairs
  /\ \A s \in Scanners : left[s] # {} => pc[s] = "book"
  /\ lost \in [Pairs -> SUBSET AllOutputs] /\ faults \in 0..MaxFaults

Init ==
  /\ confirmations = [t \in Txs |-> 0]
  /\ booked = [t \in Txs |-> [o \in DOMAIN Owner[t] |-> 0]]
  /\ txLock = [t \in Txs |-> None]
  /\ pc = [s \in Scanners |-> "idle"] /\ todo = [s \in Scanners |-> {}]
  /\ job = [s \in Scanners |-> NoJob] /\ left = [s \in Scanners |-> {}]
  /\ lost = [p \in Pairs |-> {}] /\ faults = 0

Goto(s, point) == pc' = [pc EXCEPT ![s] = point]

\* walletRepo.listByAddresses over the addresses of the outputs.
WalletsOf(t) == {Owner[t][o] : o \in DOMAIN Owner[t]} \cap Wallets

\* The outputs a visit books: those of the wallet; for the hot wallet, all that do not
\* return to cold storage.
OwnOutputs(p) ==
  {o \in DOMAIN Owner[p[1]] : IF p[2] = Hot THEN Owner[p[1]][o] # Cold ELSE Owner[p[1]][o] = p[2]}

\* isOnChainTxRecorded and isToHotWalletTxRecorded: a journal for the hash and the account.
Recorded(p) == \E o \in OwnOutputs(p) : booked[p[1]][o] > 0

-----------------------------------------------------------------------------
(* The chain *)

\* A block: mined transactions get deeper, and some of the others are mined.
NewBlock ==
  \E mined \in SUBSET {t \in Txs : confirmations[t] = 0} :
    /\ Cardinality(mined \cup {t \in Txs : confirmations[t] > 0}) <= MaxMined
    /\ confirmations' = [t \in Txs |->
         IF (confirmations[t] > 0 \/ t \in mined) /\ confirmations[t] < MaxConfirmations
           THEN confirmations[t] + 1 ELSE confirmations[t]]
    /\ confirmations' # confirmations
    /\ UNCHANGED <<booked, txLock, scanVars, lost, faults>>

-----------------------------------------------------------------------------
(* updateOnChainReceipt *)

PairsOf(t) == IF WalletsOf(t) = {} THEN {<<t, Hot>>} ELSE {t} \X WalletsOf(t)

\* listIncomingTransactions and the test of the confirmations.  The height it counts
\* back from is cached, so that the list may reach further than asked.
Scan(s, depth) ==
  /\ pc[s] = "idle"
  /\ \E lag \in 0..MaxLag :
       todo' = [todo EXCEPT ![s] =
         UNION {PairsOf(t) : t \in
                {u \in Txs : confirmations[u] \in MinConfirmations..(depth + lag)}}]
  /\ Goto(s, "visit")
  /\ UNCHANGED <<confirmations, booked, txLock, job, left, lost, faults>>

\* onchainBlockEventHandler.
OnchainBlockEvent(s) == Scan(s, MinConfirmations + 1)

\* The cron job, with ONCHAIN_SCAN_DEPTH.
CronScan(s) == Scan(s, MaxConfirmations)

\* The next wallet of the next transaction.  A transaction of nobody that did not come
\* from cold storage is passed over.
Visit(s) ==
  /\ pc[s] = "visit"
  /\ IF todo[s] = {}
       THEN Goto(s, "idle") /\ UNCHANGED <<todo, job>>
       ELSE \E p \in todo[s] :
              /\ todo' = [todo EXCEPT ![s] = @ \ {p}]
              /\ IF p[2] = Hot /\ p[1] \notin FromCold
                   THEN UNCHANGED <<pc, job>>
                   ELSE Goto(s, "lock") /\ job' = [job EXCEPT ![s] = p]
  /\ UNCHANGED <<confirmations, booked, txLock, left, lost, faults>>

\* A visit ends, and the scan goes on.
EndVisit(s) ==
  /\ Goto(s, "visit") /\ job' = [job EXCEPT ![s] = NoJob] /\ left' = [left EXCEPT ![s] = {}]

Release(s) == txLock' = [txLock EXCEPT ![job[s][1]] = IF @ = s THEN None ELSE @]

LockOnChainTxHashAlways(s) ==
  /\ pc[s] = "lock"
  /\ txLock' = [txLock EXCEPT ![job[s][1]] = s] /\ Goto(s, "check")
  /\ UNCHANGED <<confirmations, booked, todo, job, left, lost, faults>>

\* lockOnChainTxHash, which retries while another process holds the lock.
LockOnChainTxHash(s) ==
  /\ pc[s] = "lock" /\ txLock[job[s][1]] = None
  /\ txLock' = [txLock EXCEPT ![job[s][1]] = s] /\ Goto(s, "check")
  /\ UNCHANGED <<confirmations, booked, todo, job, left, lost, faults>>

\* The retries end before the lease of a crashed holder does, or before a slow visit
\* of another process; the visit is given up.
LockGivenUp(s) ==
  /\ pc[s] = "lock" /\ txLock[job[s][1]] # None
  /\ faults' = IF txLock[job[s][1]] = Dead THEN faults ELSE faults + 1
  /\ faults' <= MaxFaults
  /\ EndVisit(s)
  /\ UNCHANGED <<confirmations, booked, txLock, todo, lost>>

CheckRecordedPerTx(s) ==
  /\ pc[s] = "check"
  /\ IF \E o \in DOMAIN Owner[job[s][1]] : booked[job[s][1]][o] > 0
       THEN EndVisit(s) /\ Release(s) /\ UNCHANGED lost
       ELSE /\ left' = [left EXCEPT ![s] = OwnOutputs(job[s])] /\ lost' = [lost EXCEPT ![job[s]] = {}]
            /\ Goto(s, "book") /\ UNCHANGED <<job, txLock>>
  /\ UNCHANGED <<confirmations, booked, todo, faults>>

\* Nothing is booked if the ledger holds a journal for the hash and the wallet already.
CheckRecorded(s) ==
  /\ pc[s] = "check"
  /\ IF Recorded(job[s])
       THEN EndVisit(s) /\ Release(s) /\ UNCHANGED lost
       ELSE /\ left' = [left EXCEPT ![s] = OwnOutputs(job[s])] /\ lost' = [lost EXCEPT ![job[s]] = {}]
            /\ Goto(s, "book") /\ UNCHANGED <<job, txLock>>
  /\ UNCHANGED <<confirmations, booked, todo, faults>>

\* The outputs are visited in the order of the transaction.
NextOutput(s, o) == o \in left[s] /\ \A q \in left[s] : o <= q

BookFirstOnly(s) ==
  /\ pc[s] = "book"
  /\ \E o \in left[s] : NextOutput(s, o) /\ booked' = [booked EXCEPT ![job[s][1]][o] = @ + 1]
  /\ EndVisit(s) /\ Release(s)
  /\ UNCHANGED <<confirmations, todo, lost, faults>>

\* addOnChainTxReceive or addColdStorageTxSend for the next output; after the last
\* one the lock is released.
BookOutput(s) ==
  /\ pc[s] = "book"
  /\ \/ left[s] = {} /\ EndVisit(s) /\ Release(s) /\ UNCHANGED booked
     \/ \E o \in left[s] :
          /\ NextOutput(s, o)
          /\ booked' = [booked EXCEPT ![job[s][1]][o] = @ + 1]
          /\ left' = [left EXCEPT ![s] = @ \ {o}]
          /\ UNCHANGED <<pc, job, txLock>>
  /\ UNCHANGED <<confirmations, todo, lost, faults>>

-----------------------------------------------------------------------------
(* Faults *)

PassOver(p, outputs) == lost' = [q \in Pairs |-> IF q = p THEN lost[q] \cup outputs ELSE lost[q]]

\* A call of the visit fails.  For a wallet, what is left of the visit is dropped; for
\* the hot wallet, an output that cannot be booked is skipped.
CallFails(s) ==
  /\ pc[s] \in {"lock", "check", "book"} /\ faults < MaxFaults
  /\ faults' = faults + 1
  /\ \/ /\ job[s][2] = Hot
        /\ \E o \in left[s] : /\ NextOutput(s, o) /\ left' = [left EXCEPT ![s] = @ \ {o}]
                              /\ PassOver(job[s], {o})
        /\ UNCHANGED <<pc, job, txLock>>
     \/ /\ job[s][2] # Hot \/ left[s] = {}
        /\ PassOver(job[s], left[s]) /\ EndVisit(s) /\ Release(s)
  /\ UNCHANGED <<confirmations, booked, todo>>

\* The process of a scan stops; a lock it holds stays until its lease ends.
Crash(s) ==
  /\ pc[s] # "idle" /\ faults < MaxFaults
  /\ faults' = faults + 1 /\ PassOver(job[s], left[s])
  /\ txLock' = [t \in Txs |-> IF txLock[t] = s THEN Dead ELSE txLock[t]]
  /\ Goto(s, "idle") /\ todo' = [todo EXCEPT ![s] = {}]
  /\ job' = [job EXCEPT ![s] = NoJob] /\ left' = [left EXCEPT ![s] = {}]
  /\ UNCHANGED <<confirmations, booked>>

\* The lease of a crashed holder ends.
TxLockExpires(t) ==
  /\ txLock[t] = Dead /\ txLock' = [txLock EXCEPT ![t] = None]
  /\ UNCHANGED <<confirmations, booked, scanVars, lost, faults>>

-----------------------------------------------------------------------------
ScanStep(s) == Visit(s) \/ LockOnChainTxHash(s) \/ CheckRecorded(s) \/ BookOutput(s)

Next ==
  \/ NewBlock
  \/ \E s \in Scanners : \/ OnchainBlockEvent(s) \/ CronScan(s) \/ ScanStep(s)
                         \/ LockGivenUp(s) \/ CallFails(s) \/ Crash(s)
  \/ \E t \in Txs : TxLockExpires(t)

Spec == Init /\ [][Next]_vars

\* A scan that started runs on, the cron job keeps scanning whatever the trigger does,
\* leases end, and blocks are found.
Fairness ==
  /\ WF_vars(NewBlock)
  /\ \A s \in Scanners : WF_vars(ScanStep(s)) /\ SF_vars(LockOnChainTxHash(s))
  /\ SF_vars(\E s \in Scanners : CronScan(s))
  /\ \A t \in Txs : WF_vars(TxLockExpires(t))

FairSpec == Spec /\ Fairness

-----------------------------------------------------------------------------
(* Properties *)

\* No output is booked twice, whatever scans overlap, fail or are repeated: the lock makes
\* the look-up of the journal and its creation one step for the others.
BookedOnce == \A t \in Txs : \A o \in DOMAIN Owner[t] : booked[t][o] <= 1

\* Nothing is booked before it is MinConfirmations deep.
BookedWhenDeep ==
  \A t \in Txs : \A o \in DOMAIN Owner[t] : booked[t][o] > 0 => confirmations[t] >= MinConfirmations

\* The receipt of a wallet is all or nothing to everybody who does not hold the lock, but
\* for the outputs that a failed call or a stopped process made the visit pass over.
AllOutputsOrNone ==
  \A t \in Txs : \A p \in PairsOf(t) :
    Recorded(p) /\ (\A s \in Scanners : job[s] # p) =>
      \A o \in OwnOutputs(p) : booked[t][o] > 0 \/ o \in lost[p]

\* The pairs of a transaction that are to be booked.
Due(t) == {p \in PairsOf(t) : p[2] = Hot => t \in FromCold}

\* Each output of a transaction that is deep enough, to a wallet or of a withdrawal from cold
\* storage, comes to be booked, although the trigger sees it for two blocks only and faults
\* end or skip some of the visits: a later scan of the cron job makes up for them.  Only an
\* output that a fault made a visit pass over which booked another output of the same pair
\* stays unbooked, since the pair counts as recorded from then on.
EveryDeepTxBooked ==
  \A t \in Txs : \A p \in Due(t) : \A o \in OwnOutputs(p) :
    confirmations[t] >= MinConfirmations ~> booked[t][o] > 0 \/ (Recorded(p) /\ o \in lost[p])
=============================================================================
