------------------------ MODULE OnChainReceiveProofs ------------------------
(***************************************************************************)
(* Receipts on chain are booked once, not too early, and completely unless *)
(* a fault intervenes: for any transactions, wallets and scanners, and any *)
(* number of faults.                                                       *)
(***************************************************************************)
EXTENDS OnChainReceive, TLAPS

\* Counting one journal more for an output leaves counts that are natural numbers.
LEMMA CountUp ==
  ASSUME NEW D, NEW b \in [D -> Nat], NEW o
  PROVE  [b EXCEPT ![o] = @ + 1] \in [D -> Nat]
<1>1. CASE o \in D
  BY <1>1
<1>2. CASE o \notin D
  <2>1. [b EXCEPT ![o] = @ + 1] = b
    BY <1>2
  <2> QED
    BY <2>1, Zenon
<1> QED
  BY <1>1, <1>2

\* Types, and a lemma that they are preserved by every step.
LEMMA TypeStep ==
  ASSUME TypeOK, [Next]_vars
  PROVE  TypeOK'
<1> USE OnChainReceiveAssumption DEF TypeOK, Points, scanVars
<1>1. CASE UNCHANGED vars
  BY <1>1 DEF vars
<1>2. CASE NewBlock
  <2>1. confirmations' \in [Txs -> 0..MaxConfirmations]
    BY <1>2, SMTT(60) DEF NewBlock
  <2> QED
    BY <1>2, <2>1, SMTT(60) DEF NewBlock
<1>3. ASSUME NEW s \in Scanners, NEW depth \in Int, Scan(s, depth) PROVE TypeOK'
  <2>1. \A t \in Txs : PairsOf(t) \subseteq Pairs
    BY SMTT(60) DEF PairsOf, WalletsOf, Pairs
  <2>2. todo' \in [Scanners -> SUBSET Pairs]
    BY <1>3, <2>1, SMTT(60) DEF Scan
  <2> QED
    BY <1>3, <2>2, SMTT(60) DEF Scan, Goto
<1>4. ASSUME NEW s \in Scanners, Visit(s) PROVE TypeOK'
  <2>1. \A r \in Scanners : left'[r] # {} => pc'[r] = "book"
    BY <1>4, ZenonT(60) DEF Visit, Goto
  <2>2. \A r \in Scanners : pc'[r] \in {"lock", "check", "book"} => job'[r] \in Pairs
    BY <1>4, SMTT(60) DEF Visit, Goto
  <2>3. pc' \in [Scanners -> Points]
    BY <1>4, SMTT(60) DEF Visit, Goto
  <2>4. todo' \in [Scanners -> SUBSET Pairs]
    <3>1. PICK p : todo' = [todo EXCEPT ![s] = @ \ {p}] \/ UNCHANGED todo
      BY <1>4, Zenon DEF Visit
    <3> QED
      BY <3>1, SMTT(60)
  <2>5. job' \in [Scanners -> Pairs \cup {NoJob}]
    BY <1>4, SMTT(60) DEF Visit
  <2> QED
    BY <1>4, <2>1, <2>2, <2>3, <2>4, <2>5, SMTT(60) DEF Visit
<1>5. ASSUME NEW s \in Scanners, EndVisit(s), Release(s) \/ UNCHANGED txLock,
             faults' \in 0..MaxFaults, lost' \in [Pairs -> SUBSET AllOutputs],
             UNCHANGED <<confirmations, booked, todo>>
      PROVE  TypeOK'
  <2>1. txLock' \in [Txs -> Scanners \cup {None, Dead}]
    BY <1>5, ZenonT(60) DEF Release
  <2> QED
    BY <1>5, <2>1, SMTT(60) DEF EndVisit, Goto
<1>6. ASSUME NEW s \in Scanners, LockOnChainTxHash(s) PROVE TypeOK'
  BY <1>6, ZenonT(60) DEF LockOnChainTxHash, Goto, Pairs
<1>7. ASSUME NEW s \in Scanners, LockGivenUp(s) PROVE TypeOK'
  BY <1>5, <1>7, SMTT(60) DEF LockGivenUp
<1>8. ASSUME NEW s \in Scanners, CheckRecorded(s) PROVE TypeOK'
  <2>1. OwnOutputs(job[s]) \subseteq AllOutputs
    BY <1>8, SMTT(60) DEF CheckRecorded, OwnOutputs, AllOutputs, Pairs
  <2>2. CASE Recorded(job[s])
    BY <1>5, <1>8, <2>2, SMTT(60) DEF CheckRecorded
  <2>3. CASE ~Recorded(job[s])
    <3>1. \A r \in Scanners : left'[r] # {} => pc'[r] = "book"
      BY <1>8, <2>3, ZenonT(60) DEF CheckRecorded, Goto
    <3>2. left' \in [Scanners -> SUBSET AllOutputs]
      BY <1>8, <2>1, <2>3, ZenonT(60) DEF CheckRecorded
    <3>3. /\ pc' \in [Scanners -> Points]
          /\ \A r \in Scanners : pc'[r] \in {"lock", "check", "book"} => job'[r] \in Pairs
      BY <1>8, <2>3, ZenonT(60) DEF CheckRecorded, Goto
    <3>4. UNCHANGED <<confirmations, booked, txLock, todo, job, faults>>
      BY <1>8, <2>3 DEF CheckRecorded
    <3>5. lost' \in [Pairs -> SUBSET AllOutputs]
      BY <1>8, <2>3, ZenonT(60) DEF CheckRecorded
    <3> QED
      BY <3>1, <3>2, <3>3, <3>4, <3>5
  <2> QED
    BY <2>2, <2>3, SMTT(60)
<1>9. ASSUME NEW s \in Scanners, BookOutput(s) PROVE TypeOK'
  <2>1. CASE left[s] = {} /\ EndVisit(s) /\ Release(s) /\ UNCHANGED booked
    BY <1>5, <1>9, <2>1, SMTT(60) DEF BookOutput
  <2>2. ASSUME NEW o \in left[s],
               booked' = [booked EXCEPT ![job[s][1]][o] = @ + 1],
               left' = [left EXCEPT ![s] = @ \ {o}], UNCHANGED <<pc, job, txLock>>
        PROVE  TypeOK'
    <3>1. DOMAIN booked' = Txs /\ \A t \in Txs : booked'[t] \in [DOMAIN Owner[t] -> Nat]
      <4>1. DOMAIN booked' = Txs
        BY <2>2
      <4>2. \A t \in Txs : t # job[s][1] => booked'[t] = booked[t]
        BY <2>2
      <4>3. job[s][1] \in Txs /\ booked'[job[s][1]] = [booked[job[s][1]] EXCEPT ![o] = @ + 1]
        BY <1>9, <2>2, ZenonT(60) DEF BookOutput, Pairs
      <4>4. booked'[job[s][1]] \in [DOMAIN Owner[job[s][1]] -> Nat]
        <5> DEFINE b == booked[job[s][1]]
                   D == DOMAIN Owner[job[s][1]]
        <5>1. b \in [D -> Nat]
          BY <4>3, SMTT(60)
        <5> HIDE DEF b, D
        <5>2. [b EXCEPT ![o] = @ + 1] \in [D -> Nat]
          BY <5>1, CountUp, Zenon
        <5> QED
          BY <4>3, <5>2 DEF b, D
      <4> QED
        BY <4>1, <4>2, <4>4, Zenon
    <3>2. \A r \in Scanners : left'[r] # {} => pc'[r] = "book"
      BY <1>9, <2>2, ZenonT(60) DEF BookOutput
    <3>3. left' \in [Scanners -> SUBSET AllOutputs]
      BY <2>2, SMTT(60)
    <3>4. UNCHANGED <<confirmations, txLock, pc, todo, job, lost, faults>>
      BY <1>9, <2>2 DEF BookOutput
    <3> QED
      BY <3>1, <3>2, <3>3, <3>4, SMTT(60)
  <2> QED
    BY <1>9, <2>1, <2>2, Zenon DEF BookOutput
<1>10. ASSUME NEW s \in Scanners, CallFails(s) PROVE TypeOK'
  <2>1. faults' \in 0..MaxFaults
    BY <1>10, SMTT(60) DEF CallFails
  <2>2. lost' \in [Pairs -> SUBSET AllOutputs]
    <3>1. PICK X : X \subseteq left[s] /\ PassOver(job[s], X)
      BY <1>10, Zenon DEF CallFails
    <3>2. X \subseteq AllOutputs
      BY <3>1, Zenon
    <3> QED
      BY <3>1, <3>2, ZenonT(60) DEF PassOver
  <2>3. CASE EndVisit(s) /\ Release(s)
    BY <1>5, <1>10, <2>1, <2>2, <2>3, ZenonT(60) DEF CallFails
  <2>4. ASSUME NEW o \in left[s],
               left' = [left EXCEPT ![s] = @ \ {o}], UNCHANGED <<pc, job, txLock>>
        PROVE  TypeOK'
    <3>1. \A r \in Scanners : left'[r] # {} => pc'[r] = "book"
      BY <2>4, SMTT(60)
    <3> QED
      BY <1>10, <2>1, <2>2, <2>4, <3>1, ZenonT(60) DEF CallFails
  <2> QED
    BY <1>10, <2>3, <2>4, ZenonT(60) DEF CallFails
<1>11. ASSUME NEW s \in Scanners, Crash(s) PROVE TypeOK'
  <2>1. faults' \in 0..MaxFaults /\ txLock' \in [Txs -> Scanners \cup {None, Dead}]
    BY <1>11, SMTT(60) DEF Crash
  <2>2. lost' \in [Pairs -> SUBSET AllOutputs]
    BY <1>11, ZenonT(60) DEF Crash, PassOver
  <2> QED
    BY <1>11, <2>1, <2>2, SMTT(60) DEF Crash, Goto
<1>12. ASSUME NEW t \in Txs, TxLockExpires(t) PROVE TypeOK'
  BY <1>12, SMTT(60) DEF TxLockExpires
<1>13. ASSUME NEW s \in Scanners, OnchainBlockEvent(s) PROVE TypeOK'
  BY <1>3, <1>13, SMTT(60) DEF OnchainBlockEvent
<1>14. ASSUME NEW s \in Scanners, CronScan(s) PROVE TypeOK'
  BY <1>3, <1>14, SMTT(60) DEF CronScan
<1> HIDE DEF TypeOK, Points
<1> QED
  BY <1>1, <1>2, <1>4, <1>6, <1>7, <1>8, <1>9, <1>10, <1>11, <1>12, <1>13, <1>14, ZenonT(60)
  DEF Next, ScanStep

-----------------------------------------------------------------------------
(* The invariant *)

Holding == {"check", "book"}

\* A scanner holds the lock of the transaction whose journals it reads and writes.
LockHeld == \A s \in Scanners : pc[s] \in Holding => txLock[job[s][1]] = s

\* What a scan visits was listed: it is a pair of the transaction, and deep enough.
Listed(p) == p \in PairsOf(p[1]) /\ confirmations[p[1]] >= MinConfirmations
JobsListed ==
  \A s \in Scanners :
    /\ \A p \in todo[s] : Listed(p)
    /\ pc[s] \in {"lock", "check", "book"} => Listed(job[s])

\* The outputs a scanner has left are not booked.
LeftFresh ==
  \A s \in Scanners : \A o \in left[s] : o \in OwnOutputs(job[s]) /\ booked[job[s][1]][o] = 0

\* The others of its pair are, or it has passed them over.
Progress ==
  \A s \in Scanners : pc[s] = "book" =>
    \A o \in OwnOutputs(job[s]) : o \in left[s] \cup lost[job[s]] \/ booked[job[s][1]][o] > 0

Booking(p) == \E s \in Scanners : pc[s] = "book" /\ job[s] = p
Whole(p) == \A o \in OwnOutputs(p) : booked[p[1]][o] > 0 \/ o \in lost[p]

\* A pair that nobody is booking is booked whole or not at all, but for what was passed over.
Complete ==
  \A t \in Txs : \A p \in PairsOf(t) : Recorded(p) => Booking(p) \/ Whole(p)

ScanInv ==
  /\ TypeOK /\ LockHeld /\ JobsListed /\ LeftFresh /\ Progress /\ Complete
  /\ BookedOnce /\ BookedWhenDeep

\* A pair of a transaction concerns outputs of that transaction.
LEMMA PairOfTx ==
  ASSUME NEW t \in Txs, NEW p \in PairsOf(t)
  PROVE  p \in Pairs /\ p[1] = t /\ OwnOutputs(p) \subseteq DOMAIN Owner[t]
<1>1. p \in Pairs /\ p[1] = t
  BY DEF PairsOf, Pairs, WalletsOf
<1> QED
  BY <1>1 DEF OwnOutputs

\* Two pairs of one transaction have no output in common.
LEMMA OwnDisjoint ==
  ASSUME NEW t \in Txs, NEW p \in PairsOf(t), NEW q \in PairsOf(t), p # q,
         NEW o \in OwnOutputs(p)
  PROVE  o \notin OwnOutputs(q)
<1>1. p \in {t} \X Wallets /\ q \in {t} \X Wallets
  BY DEF PairsOf, WalletsOf
<1>2. p[2] # q[2] /\ p[1] = t /\ q[1] = t /\ p[2] # Hot /\ q[2] # Hot
  BY <1>1, OnChainReceiveAssumption, SMTT(60)
<1> QED
  BY <1>2 DEF OwnOutputs

\* The lock of a transaction stays with its scanner until the visit ends.
LEMMA LockHeldStep ==
  ASSUME TypeOK, LockHeld, Next
  PROVE  LockHeld'
<1> USE DEF LockHeld, Holding, scanVars
<1>1. CASE UNCHANGED <<txLock, pc, job>>
  BY <1>1
<1>2. ASSUME NEW s \in Scanners, pc[s] \notin Holding, pc'[s] \notin Holding, UNCHANGED txLock,
             \A r \in Scanners \ {s} : pc'[r] = pc[r] /\ job'[r] = job[r]
      PROVE  LockHeld'
  BY <1>2
<1>3. ASSUME NEW s \in Scanners, LockOnChainTxHash(s) PROVE LockHeld'
  BY <1>3, OnChainReceiveAssumption, SMTT(60) DEF LockOnChainTxHash, Goto, TypeOK, Pairs
<1>4. ASSUME NEW s \in Scanners, EndVisit(s), Release(s) PROVE LockHeld'
  <2>1. \A r \in Scanners \ {s} : pc'[r] = pc[r] /\ job'[r] = job[r]
    BY <1>4 DEF EndVisit, Goto, TypeOK
  <2>2. pc'[s] = "visit"
    BY <1>4 DEF EndVisit, Goto, TypeOK
  <2>3. \A t \in Txs : txLock[t] # s => txLock'[t] = txLock[t]
    BY <1>4 DEF Release, TypeOK
  <2>4. \A r \in Scanners : pc[r] \in Holding => job[r][1] \in Txs
    BY DEF TypeOK, Pairs
  <2> QED
    BY <2>1, <2>2, <2>3, <2>4
<1>5. ASSUME NEW s \in Scanners, CheckRecorded(s), ~Recorded(job[s]) PROVE LockHeld'
  BY <1>5 DEF CheckRecorded, Goto, TypeOK
<1>6. ASSUME NEW s \in Scanners, Crash(s) PROVE LockHeld'
  <2>1. \A r \in Scanners \ {s} : pc'[r] = pc[r] /\ job'[r] = job[r]
    BY <1>6 DEF Crash, Goto, TypeOK
  <2>2. pc'[s] = "idle"
    BY <1>6 DEF Crash, Goto, TypeOK
  <2>3. \A r \in Scanners : pc[r] \in Holding => job[r][1] \in Txs
    BY DEF TypeOK, Pairs
  <2> QED
    BY <1>6, <2>1, <2>2, <2>3 DEF Crash
<1>7. ASSUME NEW t \in Txs, TxLockExpires(t) PROVE LockHeld'
  BY <1>7, OnChainReceiveAssumption, SMTT(60) DEF TxLockExpires, TypeOK
<1>8. ASSUME NEW s \in Scanners, NEW depth, Scan(s, depth) PROVE LockHeld'
  BY <1>2, <1>8 DEF Scan, Goto, TypeOK
<1>9. ASSUME NEW s \in Scanners, Visit(s) PROVE LockHeld'
  BY <1>2, <1>9 DEF Visit, Goto, TypeOK
<1>10. ASSUME NEW s \in Scanners, LockGivenUp(s) PROVE LockHeld'
  BY <1>2, <1>10 DEF LockGivenUp, EndVisit, Goto, TypeOK
<1> QED
  BY <1>1, <1>3, <1>4, <1>5, <1>6, <1>7, <1>8, <1>9, <1>10, ZenonT(60)
  DEF Next, ScanStep, OnchainBlockEvent, CronScan, NewBlock, CheckRecorded, BookOutput, CallFails

\* Transactions only get deeper.
LEMMA DeeperStep ==
  ASSUME TypeOK, Next
  PROVE  \A t \in Txs : confirmations'[t] >= confirmations[t]
<1>1. CASE NewBlock
  BY <1>1, OnChainReceiveAssumption, SMTT(60) DEF NewBlock, TypeOK
<1>2. CASE UNCHANGED confirmations
  BY <1>2 DEF TypeOK
<1> QED
  BY <1>1, <1>2, ZenonT(60) DEF Next, ScanStep, OnchainBlockEvent, CronScan, Scan, Visit, LockOnChainTxHash,
     LockGivenUp, CheckRecorded, BookOutput, CallFails, Crash, TxLockExpires

\* A scan visits only what it listed.
LEMMA JobsListedStep ==
  ASSUME TypeOK, JobsListed, Next
  PROVE  JobsListed'
<1> DEFINE Active == {"lock", "check", "book"}
<1> USE DEF Listed
<1>1. \A p \in Pairs : confirmations[p[1]] >= MinConfirmations => confirmations'[p[1]] >= MinConfirmations
  <2>1. \A p \in Pairs : p[1] \in Txs
    BY DEF Pairs
  <2>2. confirmations' \in [Txs -> 0..MaxConfirmations]
    BY TypeStep DEF TypeOK
  <2>3. confirmations \in [Txs -> 0..MaxConfirmations] /\ MinConfirmations \in Nat
    BY OnChainReceiveAssumption, ZenonT(60) DEF TypeOK
  <2> QED
    BY <2>1, <2>2, <2>3, DeeperStep, SMTT(60)
<1>2. ASSUME NEW s \in Scanners,
             \A r \in Scanners \ {s} : pc'[r] = pc[r] /\ job'[r] = job[r] /\ todo'[r] = todo[r],
             \A p \in todo'[s] : p \in Pairs /\ Listed(p),
             pc'[s] \in Active => job'[s] \in Pairs /\ Listed(job'[s])
      PROVE  JobsListed'
  BY <1>1, <1>2, SMTT(60) DEF JobsListed, TypeOK
<1>3. CASE UNCHANGED scanVars
  BY <1>1, <1>3 DEF JobsListed, TypeOK, scanVars
<1>4. ASSUME NEW s \in Scanners, NEW depth \in Int, Scan(s, depth) PROVE JobsListed'
  <2>1. ASSUME NEW p \in todo'[s] PROVE p \in Pairs /\ Listed(p)
    <3>1. PICK t \in Txs : p \in PairsOf(t) /\ confirmations[t] >= MinConfirmations
      BY <1>4, <2>1, OnChainReceiveAssumption DEF Scan, TypeOK
    <3> QED
      BY <3>1, PairOfTx DEF Listed
  <2> QED
    BY <1>2, <1>4, <2>1, SMTT(60) DEF Scan, Goto, TypeOK
<1>5. ASSUME NEW s \in Scanners, Visit(s) PROVE JobsListed'
  BY <1>2, <1>5 DEF Visit, Goto, TypeOK, JobsListed
<1>6. ASSUME NEW s \in Scanners, pc[s] \in Active, pc'[s] \in Active => job'[s] = job[s],
             \A r \in Scanners \ {s} : pc'[r] = pc[r] /\ job'[r] = job[r] /\ todo'[r] = todo[r],
             todo'[s] \subseteq todo[s]
      PROVE  JobsListed'
  BY <1>2, <1>6, ZenonT(60) DEF TypeOK, JobsListed
<1>7. ASSUME NEW s \in Scanners, LockOnChainTxHash(s) \/ LockGivenUp(s) \/ CheckRecorded(s)
      PROVE  JobsListed'
  BY <1>6, <1>7, ZenonT(60) DEF LockOnChainTxHash, LockGivenUp, CheckRecorded, EndVisit, Goto, TypeOK
<1>8. ASSUME NEW s \in Scanners, BookOutput(s) \/ CallFails(s) PROVE JobsListed'
  BY <1>6, <1>8, ZenonT(60) DEF BookOutput, CallFails, EndVisit, Goto, TypeOK
<1>9. ASSUME NEW s \in Scanners, Crash(s) PROVE JobsListed'
  BY <1>2, <1>9 DEF Crash, Goto, TypeOK
<1>10. ASSUME NEW s \in Scanners, OnchainBlockEvent(s) \/ CronScan(s) PROVE JobsListed'
  BY <1>4, <1>10, OnChainReceiveAssumption DEF OnchainBlockEvent, CronScan
<1>11. ASSUME NEW t \in Txs, TxLockExpires(t) PROVE JobsListed'
  BY <1>3, <1>11 DEF TxLockExpires
<1>12. CASE NewBlock
  BY <1>3, <1>12 DEF NewBlock
<1> QED
  BY <1>5, <1>7, <1>8, <1>9, <1>10, <1>11, <1>12 DEF Next, ScanStep

BookInv == LeftFresh /\ Progress /\ Complete /\ BookedOnce /\ BookedWhenDeep

\* What is booked stays booked deep enough while nothing is added.
LEMMA CountsKept ==
  ASSUME ScanInv, Next, UNCHANGED booked
  PROVE  BookedOnce' /\ BookedWhenDeep'
<1>1. BookedOnce'
  BY DEF ScanInv, BookedOnce
<1>2. BookedWhenDeep'
  <2>1. confirmations' \in [Txs -> 0..MaxConfirmations]
    BY TypeStep, ZenonT(60) DEF ScanInv, TypeOK
  <2> QED
    BY <2>1, DeeperStep, OnChainReceiveAssumption, SMTT(60) DEF ScanInv, BookedWhenDeep, TypeOK
<1> QED
  BY <1>1, <1>2

\* A step that neither books nor begins or ends the booking of a pair.
LEMMA BookFrame ==
  ASSUME ScanInv, Next, UNCHANGED <<booked, left, lost>>,
         \A r \in Scanners : pc'[r] = "book" <=> pc[r] = "book",
         \A r \in Scanners : pc[r] = "book" => job'[r] = job[r]
  PROVE  BookInv'
<1>1. LeftFresh'
  BY ZenonT(60) DEF ScanInv, TypeOK, LeftFresh
<1>2. Progress'
  BY DEF ScanInv, Progress
<1>3. Complete'
  BY DEF ScanInv, Complete, Recorded, Booking, Whole
<1> QED
  BY <1>1, <1>2, <1>3, CountsKept, ZenonT(60) DEF BookInv

\* A scanner stops booking a pair: after the last output, or by a fault.
LEMMA BookingEnds ==
  ASSUME ScanInv, Next, NEW s \in Scanners, pc[s] = "book", pc'[s] # "book", left'[s] = {},
         UNCHANGED booked, PassOver(job[s], left[s]),
         \A r \in Scanners \ {s} : pc'[r] = pc[r] /\ job'[r] = job[r] /\ left'[r] = left[r]
  PROVE  BookInv'
<1>1. LeftFresh'
  BY DEF ScanInv, LeftFresh
<1>2. /\ \A p \in Pairs : lost[p] \subseteq lost'[p]
      /\ job[s] \in Pairs /\ left[s] \subseteq lost'[job[s]]
  BY ZenonT(60) DEF PassOver, ScanInv, TypeOK
<1>3. Progress'
  <2> SUFFICES ASSUME NEW r \in Scanners, pc'[r] = "book", NEW o \in OwnOutputs(job'[r])
               PROVE  o \in left'[r] \cup lost'[job'[r]] \/ booked[job'[r][1]][o] > 0
    BY ZenonT(60) DEF Progress
  <2>1. pc[r] = "book" /\ job'[r] = job[r] /\ left'[r] = left[r] /\ job[r] \in Pairs
    BY ZenonT(60) DEF ScanInv, TypeOK
  <2> QED
    BY <1>2, <2>1, ZenonT(60) DEF ScanInv, Progress
<1>4. Complete'
  <2> SUFFICES ASSUME NEW t \in Txs, NEW p \in PairsOf(t), Recorded(p)
               PROVE  Booking(p)' \/ Whole(p)'
    BY ZenonT(60) DEF Complete, Recorded
  <2>1. p \in Pairs
    BY PairOfTx, Zenon
  <2>2. CASE p = job[s]
    BY <1>2, <2>2, ZenonT(60) DEF ScanInv, Progress, Whole
  <2>3. CASE p # job[s]
    <3>1. Booking(p) \/ Whole(p)
      BY ZenonT(60) DEF ScanInv, Complete
    <3>2. Booking(p) => Booking(p)'
      BY <2>3, ZenonT(60) DEF Booking
    <3>3. Whole(p) => Whole(p)'
      BY <1>2, <2>1, ZenonT(60) DEF Whole
    <3> QED
      BY <3>1, <3>2, <3>3
  <2> QED
    BY <2>2, <2>3
<1> QED
  BY <1>1, <1>3, <1>4, CountsKept DEF BookInv

\* A scanner begins with a pair that has no journal.
LEMMA BookingStarts ==
  ASSUME ScanInv, Next, NEW s \in Scanners, CheckRecorded(s), ~Recorded(job[s])
  PROVE  BookInv'
<1>1. /\ pc[s] = "check" /\ pc'[s] = "book" /\ job' = job /\ left'[s] = OwnOutputs(job[s])
      /\ booked' = booked /\ job[s] \in Pairs /\ \A p \in Pairs \ {job[s]} : lost'[p] = lost[p]
      /\ \A r \in Scanners \ {s} : pc'[r] = pc[r] /\ left'[r] = left[r]
  BY ZenonT(60) DEF CheckRecorded, Goto, ScanInv, TypeOK
<1>2. \A o \in OwnOutputs(job[s]) : booked[job[s][1]][o] = 0
  <2>1. job[s][1] \in Txs
    BY <1>1, ZenonT(60) DEF ScanInv, TypeOK, Pairs
  <2>2. \A o \in OwnOutputs(job[s]) : booked[job[s][1]][o] \in Nat
    BY <2>1, ZenonT(60) DEF ScanInv, TypeOK, OwnOutputs
  <2> QED
    BY <2>2 DEF Recorded
<1>3. LeftFresh'
  BY <1>1, <1>2 DEF ScanInv, LeftFresh
<1>4. Progress'
  <2> SUFFICES ASSUME NEW r \in Scanners, r # s, pc[r] = "book", NEW o \in OwnOutputs(job[r])
               PROVE  o \in left[r] \cup lost'[job[r]] \/ booked[job[r][1]][o] > 0
    BY <1>1, ZenonT(60) DEF Progress
  <2>1. job[r] # job[s] /\ job[r] \in Pairs
    BY <1>1, ZenonT(60) DEF ScanInv, LockHeld, Holding, TypeOK
  <2> QED
    BY <1>1, <2>1, ZenonT(60) DEF ScanInv, Progress
<1>5. Complete'
  <2> SUFFICES ASSUME NEW t \in Txs, NEW p \in PairsOf(t), Recorded(p)
               PROVE  Booking(p)' \/ Whole(p)'
    BY <1>1, ZenonT(60) DEF Complete, Recorded
  <2>1. p \in Pairs /\ p # job[s]
    BY PairOfTx, ZenonT(60)
  <2>2. Booking(p) \/ Whole(p)
    BY ZenonT(60) DEF ScanInv, Complete
  <2> QED
    BY <1>1, <2>1, <2>2, ZenonT(60) DEF Booking, Whole
<1> QED
  BY <1>1, <1>3, <1>4, <1>5, CountsKept DEF BookInv

\* Two scanners never book outputs of one transaction.
LEMMA OneBooks ==
  ASSUME ScanInv, NEW s \in Scanners, NEW r \in Scanners, pc[s] = "book", pc[r] = "book",
         job[s][1] = job[r][1]
  PROVE  r = s
  BY DEF ScanInv, LockHeld, Holding

\* The next output of a pair is booked.
LEMMA BookingGoesOn ==
  ASSUME ScanInv, Next, NEW s \in Scanners, pc[s] = "book", NEW o \in left[s],
         booked' = [booked EXCEPT ![job[s][1]][o] = @ + 1],
         left' = [left EXCEPT ![s] = @ \ {o}], UNCHANGED <<confirmations, pc, job, lost>>
  PROVE  BookInv'
<1> DEFINE t == job[s][1]
<1>1. /\ t \in Txs /\ job[s] \in PairsOf(t) /\ o \in OwnOutputs(job[s]) /\ booked[t][o] = 0
      /\ o \in DOMAIN Owner[t] /\ confirmations[t] >= MinConfirmations
  BY ZenonT(60) DEF ScanInv, TypeOK, JobsListed, Listed, LeftFresh, Pairs, OwnOutputs
<1>2. /\ \A u \in Txs : u # t => booked'[u] = booked[u]
      /\ \A q \in DOMAIN Owner[t] : q # o => booked'[t][q] = booked[t][q]
      /\ booked'[t][o] = 1
  BY <1>1 DEF ScanInv, TypeOK
<1>3. left'[s] = left[s] \ {o} /\ \A r \in Scanners \ {s} : left'[r] = left[r]
  BY DEF ScanInv, TypeOK
<1>4. \A r \in Scanners : pc[r] = "book" => job[r][1] \in Txs /\ (r # s => job[r][1] # t)
  BY OneBooks DEF ScanInv, TypeOK, Pairs
<1>5. \A u \in Txs : \A q \in DOMAIN Owner[u] : booked[u][q] > 0 => booked'[u][q] > 0
  BY <1>1, <1>2
<1>6. \A p \in Pairs : OwnOutputs(p) \subseteq DOMAIN Owner[p[1]] /\ p[1] \in Txs
  BY DEF OwnOutputs, Pairs
<1> HIDE DEF t
<1>7. LeftFresh'
  <2> SUFFICES ASSUME NEW r \in Scanners, NEW q \in left'[r]
               PROVE  q \in OwnOutputs(job[r]) /\ booked'[job[r][1]][q] = 0
    BY DEF LeftFresh
  <2>1. q \in left[r] /\ pc[r] = "book"
    BY <1>3 DEF ScanInv, TypeOK
  <2>2. q \in OwnOutputs(job[r]) /\ booked[job[r][1]][q] = 0 /\ job[r] \in Pairs
    BY <2>1 DEF ScanInv, LeftFresh, TypeOK
  <2>3. CASE r = s
    BY <1>2, <1>3, <1>6, <2>2, <2>3 DEF t
  <2>4. CASE r # s
    BY <1>2, <1>4, <2>1, <2>2, <2>4, ZenonT(60)
  <2> QED
    BY <2>3, <2>4, ZenonT(60)
<1>8. Progress'
  <2> SUFFICES ASSUME NEW r \in Scanners, pc[r] = "book", NEW q \in OwnOutputs(job[r]),
                      q \notin lost[job[r]]
               PROVE  q \in left'[r] \/ booked'[job[r][1]][q] > 0
    BY ZenonT(60) DEF Progress
  <2>1. q \in left[r] \/ booked[job[r][1]][q] > 0
    BY ZenonT(60) DEF ScanInv, Progress
  <2>2. job[r] \in Pairs
    BY DEF ScanInv, TypeOK
  <2>3. CASE q \in left[r]
    BY <1>2, <1>3, <2>3 DEF t
  <2> QED
    BY <1>5, <1>6, <2>1, <2>2, <2>3, ZenonT(60)
<1>9. Complete'
  <2> SUFFICES ASSUME NEW u \in Txs, NEW p \in PairsOf(u), Recorded(p)'
               PROVE  Booking(p) \/ Whole(p)'
    BY DEF Complete, Booking
  <2>1. p \in Pairs /\ p[1] = u /\ OwnOutputs(p) \subseteq DOMAIN Owner[u]
    BY PairOfTx
  <2>2. CASE p = job[s]
    BY <2>2 DEF Booking
  <2>3. CASE p # job[s]
    <3>1. u = t => o \notin OwnOutputs(p)
      BY <1>1, <2>3, OwnDisjoint
    <3>2. Recorded(p)
      BY <1>2, <2>1, <3>1, ZenonT(60) DEF Recorded
    <3>3. Booking(p) \/ Whole(p)
      BY <3>2 DEF ScanInv, Complete
    <3> QED
      BY <1>5, <2>1, <3>3 DEF Whole
  <2> QED
    BY <2>2, <2>3
<1>10. BookedOnce'
  BY <1>1, <1>2 DEF ScanInv, BookedOnce
<1>11. BookedWhenDeep'
  BY <1>1, <1>2, ZenonT(60) DEF ScanInv, BookedWhenDeep
<1> QED
  BY <1>7, <1>8, <1>9, <1>10, <1>11 DEF BookInv

\* An output of a withdrawal from cold storage is skipped.
LEMMA BookingSkips ==
  ASSUME ScanInv, Next, NEW s \in Scanners, NEW o \in left[s], PassOver(job[s], {o}),
         left' = [left EXCEPT ![s] = @ \ {o}], UNCHANGED <<booked, pc, job>>
  PROVE  BookInv'
<1>1. \A r \in Scanners : left'[r] \subseteq left[r] /\ (r # s => left'[r] = left[r])
  BY ZenonT(60) DEF ScanInv, TypeOK
<1>2. LeftFresh'
  BY <1>1, ZenonT(60) DEF ScanInv, LeftFresh
<1>3. /\ \A p \in Pairs : lost[p] \subseteq lost'[p]
      /\ job[s] \in Pairs /\ o \in lost'[job[s]] /\ left'[s] = left[s] \ {o}
  BY ZenonT(60) DEF PassOver, ScanInv, TypeOK
<1>4. Progress'
  <2> SUFFICES ASSUME NEW r \in Scanners, pc[r] = "book", NEW q \in OwnOutputs(job[r])
               PROVE  q \in left'[r] \cup lost'[job[r]] \/ booked[job[r][1]][q] > 0
    BY ZenonT(60) DEF Progress
  <2>1. job[r] \in Pairs /\ (q \in left[r] \cup lost[job[r]] \/ booked[job[r][1]][q] > 0)
    BY ZenonT(60) DEF ScanInv, TypeOK, Progress
  <2> QED
    BY <1>1, <1>3, <2>1, ZenonT(60)
<1>5. Complete'
  <2> SUFFICES ASSUME NEW t \in Txs, NEW p \in PairsOf(t), Recorded(p)
               PROVE  Booking(p) \/ Whole(p)'
    BY ZenonT(60) DEF Complete, Recorded, Booking
  <2>1. p \in Pairs
    BY PairOfTx, Zenon
  <2>2. Booking(p) \/ Whole(p)
    BY ZenonT(60) DEF ScanInv, Complete
  <2> QED
    BY <1>3, <2>1, <2>2, ZenonT(60) DEF Whole
<1> QED
  BY <1>2, <1>4, <1>5, CountsKept DEF BookInv

\* To pass over nothing leaves all as it is.
LEMMA PassNothing ==
  ASSUME TypeOK, NEW p
  PROVE  PassOver(p, {}) <=> lost' = lost
<1>1. lost = [q \in Pairs |-> lost[q]]
  BY Zenon DEF TypeOK
<1>2. [q \in Pairs |-> IF q = p THEN lost[q] \cup {} ELSE lost[q]] = [q \in Pairs |-> lost[q]]
  BY SMT
<1> QED
  BY <1>1, <1>2, Zenon DEF PassOver

\* Every step keeps the invariant.
LEMMA ScanInvStep ==
  ASSUME ScanInv, [Next]_vars
  PROVE  ScanInv'
<1>1. CASE UNCHANGED vars
  <2>1. TypeOK'
    BY TypeStep DEF ScanInv
  <2>2. LockHeld' /\ JobsListed' /\ LeftFresh' /\ Progress'
    BY <1>1, ZenonT(60) DEF ScanInv, vars, scanVars, LockHeld, JobsListed, Listed, LeftFresh, Progress
  <2>3. Complete' /\ BookedOnce' /\ BookedWhenDeep'
    BY <1>1, ZenonT(60) DEF ScanInv, vars, scanVars, Complete, Recorded, Booking, Whole, BookedOnce, BookedWhenDeep
  <2> QED
    BY <2>1, <2>2, <2>3 DEF ScanInv
<1>2. CASE Next
  <2>1. TypeOK' /\ LockHeld' /\ JobsListed'
    BY <1>2, TypeStep, LockHeldStep, JobsListedStep DEF ScanInv
  <2>2. ASSUME NewBlock \/ \E t \in Txs : TxLockExpires(t) PROVE BookInv'
    BY <1>2, <2>2, BookFrame, Zenon DEF NewBlock, TxLockExpires, scanVars
  <2>3. ASSUME NEW s \in Scanners, NEW depth, Scan(s, depth) PROVE BookInv'
    BY <1>2, <2>3, BookFrame, ZenonT(60) DEF Scan, Goto, ScanInv, TypeOK
  <2>4. ASSUME NEW s \in Scanners, Visit(s) PROVE BookInv'
    BY <1>2, <2>4, BookFrame, ZenonT(60) DEF Visit, Goto, ScanInv, TypeOK
  <2>5. ASSUME NEW s \in Scanners, LockOnChainTxHash(s) PROVE BookInv'
    BY <1>2, <2>5, BookFrame, ZenonT(60) DEF LockOnChainTxHash, Goto, ScanInv, TypeOK
  <2>6. ASSUME NEW s \in Scanners, pc[s] \in {"lock", "check"}, EndVisit(s), UNCHANGED <<booked, lost>>
        PROVE  BookInv'
    <3>1. left' = left
      BY <2>6, ZenonT(60) DEF EndVisit, ScanInv, TypeOK
    <3> QED
      BY <1>2, <2>6, <3>1, BookFrame, ZenonT(60) DEF EndVisit, Goto, ScanInv, TypeOK
  <2>7. ASSUME NEW s \in Scanners, LockGivenUp(s) \/ CheckRecorded(s) PROVE BookInv'
    BY <1>2, <2>6, <2>7, BookingStarts, ZenonT(60) DEF LockGivenUp, CheckRecorded
  <2>8. ASSUME NEW s \in Scanners, pc[s] = "book", EndVisit(s), UNCHANGED booked,
               PassOver(job[s], left[s])
        PROVE  BookInv'
    BY <1>2, <2>8, BookingEnds, ZenonT(60) DEF EndVisit, Goto, ScanInv, TypeOK
  <2>9. ASSUME NEW s \in Scanners, BookOutput(s) PROVE BookInv'
    <3>1. CASE left[s] = {} /\ EndVisit(s) /\ UNCHANGED booked
      <4>1. PassOver(job[s], left[s])
        BY <2>9, <3>1, PassNothing, Zenon DEF BookOutput, ScanInv
      <4> QED
        BY <2>8, <2>9, <3>1, <4>1, Zenon DEF BookOutput
    <3> QED
      BY <1>2, <2>9, <3>1, BookingGoesOn, Zenon DEF BookOutput
  <2>10. ASSUME NEW s \in Scanners, CallFails(s) PROVE BookInv'
    <3>1. CASE EndVisit(s) /\ PassOver(job[s], left[s]) /\ pc[s] = "book"
      BY <2>8, <2>10, <3>1, ZenonT(60) DEF CallFails
    <3>2. CASE EndVisit(s) /\ PassOver(job[s], left[s]) /\ pc[s] # "book"
      <4>1. left[s] = {}
        BY <3>2, Zenon DEF ScanInv, TypeOK
      <4>2. lost' = lost
        BY <2>10, <4>1, PassNothing, Zenon DEF CallFails, ScanInv
      <4> QED
        BY <2>6, <2>10, <3>2, <4>2, Zenon DEF CallFails
    <3>3. ASSUME NEW o \in left[s], left' = [left EXCEPT ![s] = @ \ {o}], PassOver(job[s], {o}),
                 UNCHANGED <<pc, job, txLock>>
          PROVE  BookInv'
      BY <1>2, <2>10, <3>3, BookingSkips, Zenon DEF CallFails
    <3> QED
      BY <2>10, <3>1, <3>2, <3>3, Zenon DEF CallFails
  <2>11. ASSUME NEW s \in Scanners, Crash(s) PROVE BookInv'
    <3>1. /\ pc'[s] = "idle" /\ left'[s] = {}
          /\ \A r \in Scanners \ {s} : pc'[r] = pc[r] /\ job'[r] = job[r] /\ left'[r] = left[r]
      BY <2>11, ZenonT(60) DEF Crash, Goto, ScanInv, TypeOK
    <3>2. CASE pc[s] = "book"
      BY <1>2, <2>11, <3>1, <3>2, BookingEnds, ZenonT(60) DEF Crash
    <3>3. CASE pc[s] # "book"
      <4>1. left' = left /\ left[s] = {}
        BY <2>11, <3>3, ZenonT(60) DEF Crash, ScanInv, TypeOK
      <4>2. lost' = lost
        BY <2>11, <4>1, PassNothing, Zenon DEF Crash, ScanInv
      <4> QED
        BY <1>2, <2>11, <3>1, <3>3, <4>1, <4>2, BookFrame, ZenonT(60) DEF Crash
    <3> QED
      BY <3>2, <3>3
  <2>12. BookInv'
    BY <1>2, <2>2, <2>3, <2>4, <2>5, <2>7, <2>9, <2>10, <2>11
    DEF Next, ScanStep, OnchainBlockEvent, CronScan
  <2> QED
    BY <2>1, <2>12 DEF ScanInv, BookInv
<1> QED
  BY <1>1, <1>2

\* Initially nothing is mined, listed or booked.
LEMMA ScanInvInit ==
  ASSUME Init
  PROVE  ScanInv
<1> USE OnChainReceiveAssumption DEF Init
<1>1. TypeOK
  BY DEF TypeOK, Points
<1>2. LockHeld /\ JobsListed /\ LeftFresh /\ Progress
  BY ZenonT(60) DEF LockHeld, Holding, JobsListed, LeftFresh, Progress
<1>3. \A t \in Txs : \A o \in DOMAIN Owner[t] : booked[t][o] = 0
  BY ZenonT(60)
<1>4. BookedOnce /\ BookedWhenDeep
  BY <1>3 DEF BookedOnce, BookedWhenDeep
<1>5. Complete
  BY <1>3, PairOfTx DEF Complete, Recorded
<1> QED
  BY <1>1, <1>2, <1>4, <1>5, ZenonT(60) DEF ScanInv

\* Whatever scans, crashes and failed calls happen, the state of updateOnChainReceipt keeps
\* the types of OnChainReceive, locks and visits included.
THEOREM TypeCorrect == Spec => []TypeOK
<1>1. ScanInv => TypeOK
  BY DEF ScanInv
<1> QED
  BY <1>1, ScanInvInit, ScanInvStep, PTL DEF Spec

\* However many scans of trigger and cron overlap, stop and are repeated, no output of a
\* transaction is booked twice, and none before the transaction is deep enough.
THEOREM OutputsBookedOnce == Spec => [](BookedOnce /\ BookedWhenDeep)
<1>1. ScanInv => BookedOnce /\ BookedWhenDeep
  BY DEF ScanInv
<1> QED
  BY <1>1, ScanInvInit, ScanInvStep, PTL DEF Spec

\* A receipt or a withdrawal with several outputs is booked whole or not at all for
\* everybody but the scanner that is booking it, except for the outputs that a failed call
\* or a stopped process made the visit pass over.
THEOREM BookedWhole == Spec => []AllOutputsOrNone
<1>1. ScanInv => AllOutputsOrNone
  <2> SUFFICES ASSUME ScanInv, NEW t \in Txs, NEW p \in PairsOf(t),
                      Recorded(p), \A s \in Scanners : job[s] # p
               PROVE  \A o \in OwnOutputs(p) : booked[t][o] > 0 \/ o \in lost[p]
    BY DEF AllOutputsOrNone
  <2>1. p[1] = t
    BY PairOfTx, ZenonT(60)
  <2> QED
    BY <2>1, ZenonT(60) DEF ScanInv, Complete, Booking, Whole
<1> QED
  BY <1>1, ScanInvInit, ScanInvStep, PTL DEF Spec
=============================================================================
