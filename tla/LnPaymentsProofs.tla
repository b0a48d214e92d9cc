-------------------------- MODULE LnPaymentsProofs --------------------------
(***************************************************************************)
(* Theorems about the collection of Lightning payments, for any finite     *)
(* number of payments and any size of the pages.                           *)
(***************************************************************************)
EXTENDS LnPayments, TLAPS

INSTANCE SetTheorems

\* Min finds the least element of a set of natural numbers.
LEMMA MinInSet ==
  ASSUME NEW T, T \subseteq Nat, T # {}
  PROVE  Min(T) \in T /\ \A y \in T : Min(T) <= y
BY LeastNatural, Zenon DEF Min

\* The node has settled p, or had when p was deleted.
Settled(p) == lnd[p] = "settled" \/ gone[p] = "settled"

\* The job will not come to p again.
Passed(p) ==
  /\ p \notin DOMAIN page
  /\ \/ Settled(p) /\ at[p] >= after
     \/ list = "failed" /\ (Settled(p) \/ at[p] >= after)

Node ==
  \A p \in Payments :
    /\ at[p] = 0 <=> lnd[p] = "none" /\ gone[p] = "none"
    /\ gone[p] = "settled" => lnd[p] = "none"
    /\ gone[p] # "none" /\ lnd[p] # "none" => p \in retried
    /\ at[p] <= sends

Records ==
  \A p \in Payments :
    /\ p \in deletes \/ gone[p] # "none" => record[p] \in Statuses
    /\ record[p] \in Statuses =>
         /\ at[p] > 0
         /\ \/ p \in retried \/ lnd[p] = record[p]
            \/ lnd[p] = "none" /\ gone[p] = record[p]

OnPage ==
  \A p \in DOMAIN page :
    /\ after <= page[p] /\ page[p] <= at[p] /\ page[p] > 0
    /\ p \in retried \/ lnd[p] = list \/ (lnd[p] = "none" /\ gone[p] = list)
    /\ list = "settled" => Settled(p)

Pages ==
  /\ job # "page" => page = NoPage
  /\ job = "off" => incomplete = {}
  /\ OnPage
  /\ \A p \in incomplete : record[p] = "partial" \/ (record[p] \in Statuses /\ Passed(p))

Counted == processed <= Cardinality({p \in incomplete : Passed(p)})

PaymentsInv == TypeOK /\ Node /\ Records /\ Pages /\ Counted

\* The invariant holds at first.
LEMMA PaymentsInit == Init => PaymentsInv
<1> SUFFICES ASSUME Init PROVE PaymentsInv
  OBVIOUS
<1> USE LnPaymentsAssumption DEF Init
<1>1. page \in [{} -> 0..MaxSends]
  BY Zenon DEF NoPage
<1>2. Cardinality({}) = 0 /\ {p \in incomplete : Passed(p)} = {}
  BY FS_EmptySet, Zenon
<1>3. TypeOK
  <2>1. \E P \in SUBSET Payments : page \in [P -> 0..MaxSends]
    BY <1>1, Zenon
  <2>2. processed \in 0..Cardinality(incomplete)
    BY <1>2
  <2> QED
    BY <2>1, <2>2 DEF TypeOK, Statuses
<1>4. Node /\ Records
  BY DEF Node, Records, Statuses
<1>5. Pages
  BY Zenon DEF Pages, OnPage, NoPage
<1> QED
  BY <1>2, <1>3, <1>4, <1>5 DEF PaymentsInv, Counted

\* The count of the job stays covered while the job keeps what it has passed.
LEMMA CountKept ==
  ASSUME TypeOK, Counted, incomplete' = incomplete, processed' = processed,
         \A p \in incomplete : Passed(p) => Passed(p)'
  PROVE  Counted' /\ processed' \in 0..Cardinality(incomplete')
<1> DEFINE P == {p \in incomplete : Passed(p)}
           Q == {p \in incomplete' : Passed(p)'}
<1>1. IsFiniteSet(incomplete)
  BY LnPaymentsAssumption, FS_Subset, Zenon DEF TypeOK
<1>2. P \in SUBSET Q /\ Q \in SUBSET incomplete
  OBVIOUS
<1>3. IsFiniteSet(Q) /\ Cardinality(Q) \in Nat /\ Cardinality(P) \in Nat /\ Cardinality(incomplete) \in Nat
  BY <1>1, <1>2, FS_Subset, FS_CardinalityType, Zenon
<1>4. Cardinality(P) <= Cardinality(Q) /\ Cardinality(Q) <= Cardinality(incomplete)
  BY <1>1, <1>2, <1>3, FS_Subset, Zenon
<1> HIDE DEF P, Q
<1> QED
  BY <1>3, <1>4 DEF TypeOK, Counted, P, Q

\* Payments that are made, resolved, or grow old.
LEMMA NodeStep ==
  ASSUME PaymentsInv, NEW p \in Payments, Pay(p) \/ Resolves(p) \/ Ages(p)
  PROVE  PaymentsInv'
<1> USE LnPaymentsAssumption
<1>1. /\ record' = record /\ deletes' = deletes /\ gone' = gone
      /\ job' = job /\ incomplete' = incomplete /\ processed' = processed /\ list' = list
      /\ after' = after /\ page' = page /\ retried \subseteq retried'
  BY Zenon DEF Pay, Resolves, Ages, nodeVars, jobVars
<1>2. \A q \in Payments : Passed(q) => Passed(q)'
  BY <1>1 DEF PaymentsInv, TypeOK, Node, Passed, Settled, Pay, Resolves, Ages, Statuses
<1>3. Node'
  BY DEF PaymentsInv, TypeOK, Node, Pay, Resolves, Ages, Statuses
<1>4. Records'
  BY <1>1 DEF PaymentsInv, TypeOK, Node, Records, Pay, Resolves, Ages, Statuses
<1>5. Pages'
  <2>1. \A q \in DOMAIN page : q \in Payments
    BY Zenon DEF PaymentsInv, TypeOK
  <2>2. \A q \in DOMAIN page :
         /\ after <= page[q] /\ page[q] <= at'[q] /\ page[q] > 0
         /\ q \in retried' \/ lnd'[q] = list \/ (lnd'[q] = "none" /\ gone[q] = list)
         /\ list = "settled" => Settled(q)'
    BY <1>1, <2>1 DEF PaymentsInv, TypeOK, Node, Pages, OnPage, Settled, Pay, Resolves, Ages, Statuses
  <2>3. incomplete \subseteq Payments
    BY Zenon DEF PaymentsInv, TypeOK
  <2> QED
    BY <1>1, <1>2, <2>2, <2>3, Zenon DEF PaymentsInv, Pages, OnPage
<1>6. Counted' /\ processed' \in 0..Cardinality(incomplete')
  BY <1>1, <1>2, CountKept, Zenon DEF PaymentsInv, TypeOK
<1>7. TypeOK'
  <2>1. \E P \in SUBSET Payments : page' \in [P -> 0..MaxSends]
    BY <1>1, Zenon DEF PaymentsInv, TypeOK
  <2>2. lnd' \in [Payments -> {"none", "inflight"} \cup Statuses]
    BY <1>1, Zenon DEF PaymentsInv, TypeOK, Pay, Resolves, Ages, Statuses
  <2>3. at' \in [Payments -> 0..MaxSends] /\ sends' \in 0..MaxSends
    BY <1>1 DEF PaymentsInv, TypeOK, Pay, Resolves, Ages
  <2>4. gone' \in [Payments -> {"none"} \cup Statuses]
    BY <1>1, Zenon DEF PaymentsInv, TypeOK, Pay, Resolves, Ages, Statuses
  <2>5. /\ old' \subseteq Payments /\ retried' \subseteq Payments
        /\ writes' \subseteq Payments /\ deletes' \subseteq Payments /\ faults' \in 0..MaxFaults
    BY <1>1, Zenon DEF PaymentsInv, TypeOK, Pay, Resolves, Ages
  <2> QED
    BY <1>1, <1>6, <2>1, <2>2, <2>3, <2>4, <2>5, Zenon DEF PaymentsInv, TypeOK
<1> QED
  BY <1>3, <1>4, <1>5, <1>6, <1>7, Zenon DEF PaymentsInv

\* The node deletes a payment, or does not.
LEMMA DeleteStep ==
  ASSUME PaymentsInv, NEW p \in Payments, DeleteLands(p) \/ DeleteLost(p)
  PROVE  PaymentsInv'
<1> USE LnPaymentsAssumption
<1>1. /\ record' = record /\ deletes' = deletes \ {p} /\ retried' = retried /\ at' = at
      /\ job' = job /\ incomplete' = incomplete /\ processed' = processed /\ list' = list
      /\ after' = after /\ page' = page
  BY Zenon DEF DeleteLands, DeleteLost, nodeVars, jobVars
<1>2. \A q \in Payments :
        \/ lnd'[q] = lnd[q] /\ gone'[q] = gone[q]
        \/ /\ q \in deletes /\ lnd[q] \in Statuses /\ lnd'[q] = "none" /\ gone'[q] = lnd[q]
  BY Zenon DEF PaymentsInv, TypeOK, DeleteLands, DeleteLost, nodeVars, Statuses
<1>3. \A q \in Payments : Settled(q) => Settled(q)'
  BY <1>2, Zenon DEF PaymentsInv, Node, Settled, Statuses
<1>4. \A q \in Payments : Passed(q) => Passed(q)'
  BY <1>1, <1>3, Zenon DEF Passed
<1>5. Node'
  BY <1>1, <1>2, Zenon DEF PaymentsInv, TypeOK, Node, DeleteLands, DeleteLost, nodeVars, Statuses
<1>6. Records'
  BY <1>1, <1>2, ZenonT(60) DEF PaymentsInv, TypeOK, Node, Records, Statuses
<1>7. Pages'
  <2>1. \A q \in DOMAIN page : q \in Payments
    BY Zenon DEF PaymentsInv, TypeOK
  <2>2. \A q \in DOMAIN page :
         /\ q \in retried \/ lnd'[q] = list \/ (lnd'[q] = "none" /\ gone'[q] = list)
         /\ list = "settled" => Settled(q)'
    BY <1>2, <1>3, <2>1, Zenon DEF PaymentsInv, Pages, OnPage, Statuses
  <2>3. incomplete \subseteq Payments
    BY Zenon DEF PaymentsInv, TypeOK
  <2> QED
    BY <1>1, <1>4, <2>2, <2>3, Zenon DEF PaymentsInv, Pages, OnPage
<1>8. Counted' /\ processed' \in 0..Cardinality(incomplete')
  BY <1>1, <1>4, CountKept, Zenon DEF PaymentsInv, TypeOK
<1>9. TypeOK'
  <2>1. \E P \in SUBSET Payments : page' \in [P -> 0..MaxSends]
    BY <1>1, Zenon DEF PaymentsInv, TypeOK
  <2>2. lnd' \in [Payments -> {"none", "inflight"} \cup Statuses]
    BY <1>1, Zenon DEF PaymentsInv, TypeOK, DeleteLands, DeleteLost, nodeVars, Statuses
  <2>3. at' \in [Payments -> 0..MaxSends] /\ sends' \in 0..MaxSends
    BY <1>1, Zenon DEF PaymentsInv, TypeOK, DeleteLands, DeleteLost, nodeVars
  <2>4. gone' \in [Payments -> {"none"} \cup Statuses]
    BY <1>1, Zenon DEF PaymentsInv, TypeOK, DeleteLands, DeleteLost, nodeVars, Statuses
  <2>5. old' \subseteq Payments /\ retried' \subseteq Payments
    BY <1>1, Zenon DEF PaymentsInv, TypeOK, DeleteLands, DeleteLost, nodeVars
  <2>6. writes' \subseteq Payments /\ deletes' \subseteq Payments
    BY <1>1, Zenon DEF PaymentsInv, TypeOK, DeleteLands, DeleteLost, nodeVars
  <2>7. faults' \in 0..MaxFaults
    BY <1>1 DEF PaymentsInv, TypeOK, DeleteLands, DeleteLost
  <2> QED
    BY <1>1, <1>8, <2>1, <2>2, <2>3, <2>4, <2>5, <2>6, <2>7, Zenon DEF PaymentsInv, TypeOK
<1> QED
  BY <1>5, <1>6, <1>7, <1>8, <1>9, Zenon DEF PaymentsInv

\* Records the sender persists, and those of the task that deletes payments.
LEMMA WriteStep ==
  ASSUME PaymentsInv, NEW p \in Payments,
         persistNew(p) \/ WriteLost(p) \/ checkAndDeletePaymentForHash(p)
  PROVE  PaymentsInv'
<1> USE LnPaymentsAssumption
<1>1. nodeVars' = nodeVars /\ jobVars' = jobVars
  BY Zenon DEF persistNew, WriteLost, checkAndDeletePaymentForHash
<1>2. /\ lnd' = lnd /\ at' = at /\ old' = old /\ gone' = gone /\ retried' = retried /\ sends' = sends
      /\ job' = job /\ incomplete' = incomplete /\ processed' = processed /\ list' = list
      /\ after' = after /\ page' = page
  BY <1>1, Zenon DEF nodeVars, jobVars
<1>3. /\ record' \in [Payments -> {"none", "partial"} \cup Statuses]
      /\ \A q \in Payments :
            record'[q] = record[q] \/ (record[q] = "none" /\ record'[q] = "partial")
  <2>1. record \in [Payments -> {"none", "partial"} \cup Statuses]
    BY Zenon DEF PaymentsInv, TypeOK
  <2> QED
    BY <2>1, Zenon DEF persistNew, WriteLost, checkAndDeletePaymentForHash
<1>4. /\ deletes' \subseteq Payments
      /\ \A q \in deletes' : q \in deletes \/ (record[q] \in Statuses /\ record' = record)
  BY Zenon DEF PaymentsInv, TypeOK, persistNew, WriteLost, checkAndDeletePaymentForHash
<1>5. writes' \subseteq Payments /\ faults' \in 0..MaxFaults
  <2>1. writes \subseteq Payments /\ faults \in 0..MaxFaults
    BY Zenon DEF PaymentsInv, TypeOK
  <2>2. writes' = writes \/ writes' = writes \ {p}
    BY Zenon DEF persistNew, WriteLost, checkAndDeletePaymentForHash
  <2>3. CASE persistNew(p)
    BY <2>1, <2>2, <2>3, Zenon DEF persistNew
  <2>4. CASE WriteLost(p)
    BY <2>1, <2>2, <2>4 DEF WriteLost
  <2>5. CASE checkAndDeletePaymentForHash(p)
    BY <2>1, <2>2, <2>5, Zenon DEF checkAndDeletePaymentForHash
  <2> QED
    BY <2>3, <2>4, <2>5, Zenon
<1>6. \A q \in Payments : Passed(q) => Passed(q)'
  BY <1>2, Zenon DEF Passed, Settled
<1>7. Node'
  BY <1>2, Zenon DEF PaymentsInv, Node
<1>8. Records'
  BY <1>2, <1>3, <1>4, Zenon DEF PaymentsInv, Records, Statuses
<1>9. Pages'
  <2>1. OnPage'
    BY <1>2, Zenon DEF PaymentsInv, Pages, OnPage, Settled
  <2>2. \A q \in incomplete : record'[q] = "partial" \/ (record'[q] \in Statuses /\ Passed(q)')
    BY <1>3, <1>6, Zenon DEF PaymentsInv, TypeOK, Pages, Statuses
  <2> QED
    BY <1>2, <2>1, <2>2, Zenon DEF PaymentsInv, Pages
<1>10. Counted' /\ processed' \in 0..Cardinality(incomplete')
  BY <1>2, <1>6, CountKept, Zenon DEF PaymentsInv, TypeOK
<1>11. TypeOK'
  BY <1>2, <1>3, <1>4, <1>5, <1>10, Zenon DEF PaymentsInv, TypeOK
<1> QED
  BY <1>7, <1>8, <1>9, <1>10, <1>11 DEF PaymentsInv

\* The job starts, or is over: it has nothing to show for it.
LEMMA FreshStep ==
  ASSUME PaymentsInv, UNCHANGED <<nodeVars, record, writes, deletes>>, faults' \in 0..MaxFaults,
         job' \in {"off", "list"}, list' \in Statuses, after' \in 0..(MaxSends + 1), page' = NoPage,
         incomplete' \subseteq Payments, processed' = 0,
         \A p \in incomplete' : record[p] = "partial", job' = "off" => incomplete' = {}
  PROVE  PaymentsInv'
<1> USE LnPaymentsAssumption
<1>1. /\ lnd' = lnd /\ at' = at /\ old' = old /\ gone' = gone /\ retried' = retried /\ sends' = sends
      /\ record' = record /\ writes' = writes /\ deletes' = deletes
  BY Zenon DEF nodeVars
<1>2. /\ IsFiniteSet(incomplete') /\ IsFiniteSet({p \in incomplete' : Passed(p)'})
      /\ Cardinality(incomplete') \in Nat /\ Cardinality({p \in incomplete' : Passed(p)'}) \in Nat
  <2>1. incomplete' \in SUBSET Payments /\ {p \in incomplete' : Passed(p)'} \in SUBSET Payments
    OBVIOUS
  <2> QED
    BY <2>1, FS_Subset, FS_CardinalityType, Zenon
<1>3. Counted' /\ processed' \in 0..Cardinality(incomplete')
  BY <1>2 DEF Counted
<1>4. TypeOK'
  <2>1. page' \in [{} -> 0..MaxSends]
    BY Zenon DEF NoPage
  <2>2. \E P \in SUBSET Payments : page' \in [P -> 0..MaxSends]
    BY <2>1, Zenon
  <2> QED
    BY <1>1, <1>3, <2>2, Zenon DEF PaymentsInv, TypeOK
<1>5. Node' /\ Records'
  BY <1>1, Zenon DEF PaymentsInv, Node, Records
<1>6. Pages'
  BY <1>1, Zenon DEF Pages, OnPage, NoPage
<1> QED
  BY <1>3, <1>4, <1>5, <1>6, Zenon DEF PaymentsInv

\* The job turns a page, or to another list: what it has passed it does not come to again.
LEMMA TurnStep ==
  ASSUME PaymentsInv, UNCHANGED <<nodeVars, record, writes, deletes>>, faults' \in 0..MaxFaults,
         job' \in {"list", "page"}, list' \in Statuses, after' \in 0..(MaxSends + 1),
         NEW P \in SUBSET Payments, page' \in [P -> 0..MaxSends], job' # "page" => page' = NoPage,
         incomplete' = incomplete, processed' = processed, OnPage',
         \A p \in Payments : Passed(p) => Passed(p)'
  PROVE  PaymentsInv'
<1> USE LnPaymentsAssumption
<1>1. /\ lnd' = lnd /\ at' = at /\ old' = old /\ gone' = gone /\ retried' = retried /\ sends' = sends
      /\ record' = record /\ writes' = writes /\ deletes' = deletes
  BY Zenon DEF nodeVars
<1>2. incomplete \subseteq Payments
  BY Zenon DEF PaymentsInv, TypeOK
<1>3. Counted' /\ processed' \in 0..Cardinality(incomplete')
  BY <1>2, CountKept, Zenon DEF PaymentsInv
<1>4. TypeOK'
  BY <1>1, <1>3, Zenon DEF PaymentsInv, TypeOK
<1>5. Node' /\ Records'
  BY <1>1, Zenon DEF PaymentsInv, Node, Records
<1>6. Pages'
  BY <1>1, <1>2, Zenon DEF PaymentsInv, Pages
<1> QED
  BY <1>3, <1>4, <1>5, <1>6, Zenon DEF PaymentsInv

\* A page starts with one of its payments.
LEMMA HeadIsOnPage ==
  ASSUME TypeOK, page # NoPage
  PROVE  HeadOfPage \in DOMAIN page
<1>1. PICK P \in SUBSET Payments : page \in [P -> 0..MaxSends]
  BY Zenon DEF TypeOK
<1>2. DOMAIN page # {}
  BY <1>1, Zenon DEF NoPage
<1>3. \E p \in DOMAIN page : \A q \in DOMAIN page : page[q] <= page[p]
  BY <1>1, <1>2, LnPaymentsAssumption, LargestValue, Zenon
<1> QED
  BY <1>3, Zenon DEF HeadOfPage

\* A page of a list with payments has payments.
LEMMA PageNotEmpty ==
  ASSUME TypeOK, NEW S \in SUBSET Payments, S # {}, NEW n \in 1..PageSize
  PROVE  PageOf(S, n) # {} /\ PageOf(S, n) \subseteq S
<1>1. \A q \in S : at[q] \in 0..MaxSends
  BY Zenon DEF TypeOK
<1>2. PICK p \in S : \A q \in S : at[q] <= at[p]
  BY <1>1, LnPaymentsAssumption, LargestValue, Zenon
<1>3. {q \in S : at[q] > at[p]} = {}
  BY <1>1, <1>2
<1>4. Cardinality({q \in S : at[q] > at[p]}) < n
  BY <1>3, FS_EmptySet, LnPaymentsAssumption
<1> QED
  BY <1>4, Zenon DEF PageOf

\* The job goes on to the other list, or is over.
LEMMA NextListStep ==
  ASSUME PaymentsInv, UNCHANGED <<nodeVars, record, writes, deletes>>, faults' \in 0..MaxFaults,
         job = "list", NextList
  PROVE  PaymentsInv'
<1> USE LnPaymentsAssumption
<1>1. CASE list = "settled"
  <2>1. /\ list' = "failed" /\ after' = MaxSends + 1 /\ job' = "list" /\ page' = NoPage
        /\ incomplete' = incomplete /\ processed' = processed
    BY <1>1, Zenon DEF NextList
  <2>2. lnd' = lnd /\ gone' = gone
    BY Zenon DEF nodeVars
  <2>3. \A p \in Payments : Passed(p) => Passed(p)'
    BY <1>1, <2>1, <2>2, Zenon DEF Passed, Settled, NoPage
  <2>4. page' \in [{} -> 0..MaxSends] /\ OnPage'
    BY <2>1, Zenon DEF NoPage, OnPage
  <2>5. list' \in Statuses /\ after' \in 0..(MaxSends + 1)
    BY <2>1 DEF Statuses
  <2>6. {} \in SUBSET Payments
    OBVIOUS
  <2> QED
    BY <2>1, <2>3, <2>4, <2>5, <2>6, TurnStep, Zenon
<1>2. CASE list # "settled"
  <2>1. Reset
    BY <1>2, Zenon DEF NextList
  <2> QED
    BY <2>1, FreshStep DEF Reset, Statuses
<1> QED
  BY <1>1, <1>2, Zenon

\* A page is read.
LEMMA ListPageStep ==
  ASSUME PaymentsInv, ListPage
  PROVE  PaymentsInv'
<1> USE LnPaymentsAssumption
<1> DEFINE rest == Listed(list, after)
<1>1. UNCHANGED <<nodeVars, record, writes, deletes>> /\ job = "list" /\ faults' = faults
  BY Zenon DEF ListPage
<1>2. faults' \in 0..MaxFaults
  BY <1>1, Zenon DEF PaymentsInv, TypeOK
<1>3. CASE processed >= Cardinality(incomplete) \/ rest = {}
  <2>1. NextList
    BY <1>3, Zenon DEF ListPage
  <2> QED
    BY <1>1, <1>2, <2>1, NextListStep, Zenon
<1>4. CASE ~ (processed >= Cardinality(incomplete) \/ rest = {})
  <2>1. PICK n \in 1..PageSize :
           /\ job' = "page" /\ page' = [p \in PageOf(rest, n) |-> at[p]]
           /\ after' = Min({at[p] : p \in PageOf(rest, n)})
           /\ UNCHANGED <<incomplete, processed, list>>
    BY <1>4, Zenon DEF ListPage
  <2> DEFINE Page == PageOf(rest, n)
  <2>2. TypeOK /\ rest \in SUBSET Payments /\ rest # {}
    BY <1>4, Zenon DEF PaymentsInv, Listed
  <2>3. Page # {} /\ Page \subseteq rest
    BY <2>2, PageNotEmpty, Zenon
  <2>4. \A p \in Page : lnd[p] = list /\ at[p] < after /\ p \in Payments /\ at[p] \in 0..MaxSends
    BY <2>2, <2>3, Zenon DEF Listed, TypeOK
  <2>5. /\ after' \in {at[p] : p \in Page}
        /\ \A p \in Page : after' <= at[p]
    <3>1. {at[p] : p \in Page} \subseteq Nat /\ {at[p] : p \in Page} # {}
      BY <2>3, <2>4
    <3>2. \A p \in Page : at[p] \in {at[q] : q \in Page}
      OBVIOUS
    <3> QED
      BY <2>1, <3>1, <3>2, MinInSet, Zenon
  <2>6. lnd' = lnd /\ gone' = gone /\ at' = at /\ retried' = retried
    BY <1>1, Zenon DEF nodeVars
  <2>7. DOMAIN page' = Page /\ page' \in [Page -> 0..MaxSends] /\ \A p \in Page : page'[p] = at[p]
    BY <2>1, <2>4, Zenon
  <2>8. after' < after /\ after' \in 0..MaxSends
    <3> PICK p \in Page : after' = at[p]
      BY <2>5, Zenon
    <3> QED
      BY <2>4, Zenon
  <2>9. OnPage'
    <3> HIDE DEF Page
    <3>1. list # "none" /\ \A p \in Payments : at[p] = 0 => lnd[p] = "none"
      BY Zenon DEF PaymentsInv, TypeOK, Node, Statuses
    <3>2. \A p \in Page : at[p] # 0
      BY <2>4, <3>1, Zenon
    <3>3. list' = list
      BY <2>1, Zenon
    <3>4. \A p \in DOMAIN page' : after' <= page'[p] /\ page'[p] <= at'[p] /\ page'[p] > 0
      BY <2>4, <2>5, <2>6, <2>7, <3>2
    <3>5. \A p \in DOMAIN page' : lnd'[p] = list'
      BY <2>4, <2>6, <2>7, <3>3, Zenon
    <3> QED
      BY <3>4, <3>5, Zenon DEF OnPage, Settled
  <2>10. \A p \in Payments : Passed(p) => Passed(p)'
    BY <2>1, <2>2, <2>4, <2>6, <2>7, <2>8
       DEF PaymentsInv, Node, TypeOK, Passed, Settled, Statuses
  <2>11. list' \in Statuses /\ after' \in 0..(MaxSends + 1)
    BY <2>1, <2>2, <2>8 DEF TypeOK
  <2>12. Page \in SUBSET Payments
    BY <2>4, Zenon
  <2> QED
    BY <1>1, <1>2, <2>1, <2>7, <2>9, <2>10, <2>11, <2>12, TurnStep, Zenon
<1> QED
  BY <1>3, <1>4, Zenon

\* A payment of the page is completed, or ends the page.
LEMMA UpdatePaymentStep ==
  ASSUME PaymentsInv, UpdatePayment
  PROVE  PaymentsInv'
<1> USE LnPaymentsAssumption
<1> PICK p : p = HeadOfPage
  OBVIOUS
<1>1. /\ job = "page" /\ page # NoPage /\ TypeOK
      /\ nodeVars' = nodeVars /\ writes' = writes /\ deletes' = deletes /\ job' = job
      /\ incomplete' = incomplete /\ list' = list /\ after' = after /\ faults' = faults
  BY Zenon DEF UpdatePayment, PaymentsInv
<1>2. PICK P \in SUBSET Payments : page \in [P -> 0..MaxSends]
  BY <1>1, Zenon DEF TypeOK
<1>3. p \in P
  BY <1>1, <1>2, HeadIsOnPage, Zenon
<1>4. /\ lnd' = lnd /\ at' = at /\ old' = old /\ gone' = gone /\ retried' = retried /\ sends' = sends
  BY <1>1, Zenon DEF nodeVars
<1>5. list \in Statuses /\ after \in 0..(MaxSends + 1) /\ faults \in 0..MaxFaults
  BY <1>1, Zenon DEF TypeOK
<1>6. CASE p \in incomplete
  <2>1. /\ record' = [record EXCEPT ![p] = list] /\ processed' = processed + 1
        /\ page' = [q \in DOMAIN page \ {p} |-> page[q]]
    BY <1>6, Zenon DEF UpdatePayment
  <2>2. /\ DOMAIN page' = P \ {p} /\ page' \in [P \ {p} -> 0..MaxSends]
        /\ \A q \in P \ {p} : page'[q] = page[q]
    BY <1>2, <2>1, Zenon
  <2>3. /\ record' \in [Payments -> {"none", "partial"} \cup Statuses] /\ record'[p] = list
        /\ \A q \in Payments \ {p} : record'[q] = record[q]
    BY <1>1, <1>3, <1>5, <2>1, Zenon DEF TypeOK
  <2>4. /\ after <= page[p] /\ page[p] <= at[p] /\ page[p] > 0
        /\ p \in retried \/ lnd[p] = list \/ (lnd[p] = "none" /\ gone[p] = list)
        /\ list = "settled" => Settled(p)
    BY <1>2, <1>3, Zenon DEF PaymentsInv, Pages, OnPage
  <2>5. \A q \in Payments : Passed(q) => Passed(q)'
    BY <1>1, <1>2, <1>4, <2>2, Zenon DEF Passed, Settled
  <2>6. Passed(p)' /\ ~ Passed(p)
    <3>1. at[p] \in Nat /\ page[p] \in Nat
      BY <1>1, <1>2, <1>3 DEF TypeOK
    <3>2. at[p] >= after
      BY <1>5, <2>4, <3>1
    <3> QED
      BY <1>1, <1>2, <1>3, <1>4, <1>5, <2>2, <2>4, <3>2, Zenon DEF Passed, Settled, Statuses
  <2>7. Node'
    BY <1>4, Zenon DEF PaymentsInv, Node
  <2>8. Records'
    <3>1. at[p] > 0
      BY <1>1, <1>2, <1>3, <2>4 DEF TypeOK
    <3>2. \A q \in Payments \ {p} :
            /\ q \in deletes \/ gone[q] # "none" => record'[q] \in Statuses
            /\ record'[q] \in Statuses =>
                 /\ at[q] > 0
                 /\ q \in retried \/ lnd[q] = record'[q] \/ (lnd[q] = "none" /\ gone[q] = record'[q])
      BY <2>3, Zenon DEF PaymentsInv, Records
    <3> QED
      BY <1>1, <1>4, <1>5, <2>3, <2>4, <3>1, <3>2, Zenon DEF Records
  <2>9. Pages'
    <3>1. OnPage'
      BY <1>1, <1>2, <1>4, <2>2, Zenon DEF PaymentsInv, Pages, OnPage, Settled
    <3>2. \A q \in incomplete : record'[q] = "partial" \/ (record'[q] \in Statuses /\ Passed(q)')
      BY <1>1, <1>5, <2>3, <2>5, <2>6, Zenon DEF PaymentsInv, TypeOK, Pages
    <3> QED
      BY <1>1, <3>1, <3>2, Zenon DEF Pages
  <2>10. Counted' /\ processed' \in 0..Cardinality(incomplete')
    <3> DEFINE Old == {q \in incomplete : Passed(q)}
               New == {q \in incomplete' : Passed(q)'}
    <3>1. IsFiniteSet(incomplete) /\ incomplete \subseteq Payments
      BY <1>1, FS_Subset, Zenon DEF TypeOK
    <3>2. Old \in SUBSET incomplete /\ New \in SUBSET incomplete /\ Old \cup {p} \in SUBSET New
      BY <1>1, <1>6, <2>5, <2>6, <3>1, Zenon
    <3>3. p \notin Old
      BY <2>6, Zenon
    <3>4. processed <= Cardinality(Old) /\ processed \in Nat
      BY <1>1, <3>1, FS_CardinalityType DEF PaymentsInv, Counted, TypeOK
    <3>5. Counted' <=> processed' <= Cardinality(New)
      BY Zenon DEF Counted
    <3> HIDE DEF Old, New
    <3>6. IsFiniteSet(Old) /\ IsFiniteSet(New)
      BY <3>1, <3>2, FS_Subset, Zenon
    <3>7. Cardinality(Old \cup {p}) = Cardinality(Old) + 1 /\ Cardinality(Old \cup {p}) <= Cardinality(New)
      BY <3>2, <3>3, <3>6, FS_AddElement, FS_Subset, Zenon
    <3>8. Cardinality(New) <= Cardinality(incomplete)
      BY <3>1, <3>2, FS_Subset, Zenon
    <3>9. Cardinality(Old) \in Nat /\ Cardinality(New) \in Nat /\ Cardinality(incomplete) \in Nat
      BY <3>1, <3>6, FS_CardinalityType, Zenon
    <3> QED
      BY <1>1, <2>1, <3>4, <3>5, <3>7, <3>8, <3>9
  <2>11. TypeOK'
    <3>1. \E Q \in SUBSET Payments : page' \in [Q -> 0..MaxSends]
      BY <2>2, Zenon
    <3> QED
      BY <1>1, <1>4, <2>3, <2>10, <3>1, Zenon DEF TypeOK
  <2> QED
    BY <2>7, <2>8, <2>9, <2>10, <2>11, Zenon DEF PaymentsInv
<1>7. CASE p \notin incomplete
  <2>1. page' = NoPage /\ record' = record /\ processed' = processed
    BY <1>7, Zenon DEF UpdatePayment
  <2>2. \A q \in Payments : Passed(q) => Passed(q)'
    BY <1>1, <1>4, <2>1, Zenon DEF Passed, Settled, NoPage
  <2>3. page' \in [{} -> 0..MaxSends] /\ OnPage' /\ {} \in SUBSET Payments
    BY <2>1, Zenon DEF NoPage, OnPage
  <2> QED
    BY <1>1, <1>5, <2>1, <2>2, <2>3, TurnStep, Zenon
<1> QED
  BY <1>6, <1>7, Zenon

\* The other steps of the job: it starts, ends a page, meets an error, or is stopped.
LEMMA JobStep ==
  ASSUME PaymentsInv,
         UpdateStarts \/ ListFails \/ UpdateFails \/ PageEnds \/ CronStops \/ UNCHANGED vars
  PROVE  PaymentsInv'
<1> USE LnPaymentsAssumption
<1>1. UNCHANGED <<nodeVars, record, writes, deletes>> /\ faults \in 0..MaxFaults /\ TypeOK
  BY Zenon DEF UpdateStarts, ListFails, UpdateFails, PageEnds, CronStops, vars, PaymentsInv, TypeOK
<1>2. lnd' = lnd /\ gone' = gone /\ at' = at /\ retried' = retried
  BY <1>1, Zenon DEF nodeVars
<1>3. CASE UpdateStarts
  BY <1>1, <1>3, FreshStep DEF UpdateStarts, Statuses
<1>4. CASE ListFails
  <2>1. faults' \in 0..MaxFaults /\ job = "list" /\ NextList
    BY <1>1, <1>4 DEF ListFails
  <2> QED
    BY <1>1, <2>1, NextListStep, Zenon
<1>5. CASE UpdateFails
  <2>1. /\ faults' \in 0..MaxFaults /\ page' = NoPage /\ job' = "page" /\ incomplete' = incomplete
        /\ processed' = processed /\ list' = list /\ after' = after
    BY <1>1, <1>5 DEF UpdateFails
  <2>2. list' \in Statuses /\ after' \in 0..(MaxSends + 1)
    BY <1>1, <2>1, Zenon DEF TypeOK
  <2>3. \A p \in Payments : Passed(p) => Passed(p)'
    BY <1>2, <2>1, Zenon DEF Passed, Settled, NoPage
  <2>4. page' \in [{} -> 0..MaxSends] /\ OnPage' /\ {} \in SUBSET Payments
    BY <2>1, Zenon DEF NoPage, OnPage
  <2> QED
    BY <1>1, <2>1, <2>2, <2>3, <2>4, TurnStep, Zenon
<1>6. CASE PageEnds
  <2>1. /\ faults' = faults /\ page' = page /\ page = NoPage /\ job' = "list"
        /\ incomplete' = incomplete /\ processed' = processed /\ list' = list /\ after' = after
    BY <1>6, Zenon DEF PageEnds
  <2>2. list' \in Statuses /\ after' \in 0..(MaxSends + 1) /\ faults' \in 0..MaxFaults
    BY <1>1, <2>1, Zenon DEF TypeOK
  <2>3. \A p \in Payments : Passed(p) => Passed(p)'
    BY <1>2, <2>1, Zenon DEF Passed, Settled
  <2>4. page' \in [{} -> 0..MaxSends] /\ OnPage' /\ {} \in SUBSET Payments
    BY <2>1, Zenon DEF NoPage, OnPage
  <2> QED
    BY <1>1, <2>1, <2>2, <2>3, <2>4, TurnStep, Zenon
<1>7. CASE CronStops
  <2>1. faults' \in 0..MaxFaults /\ Reset
    BY <1>1, <1>7 DEF CronStops
  <2> QED
    BY <1>1, <2>1, FreshStep DEF Reset, Statuses
<1>8. CASE UNCHANGED vars
  <2>1. jobVars' = jobVars /\ faults' = faults
    BY <1>8, Zenon DEF vars
  <2>2. /\ job' = job /\ incomplete' = incomplete /\ processed' = processed /\ list' = list
        /\ after' = after /\ page' = page /\ old' = old /\ sends' = sends
        /\ record' = record /\ writes' = writes /\ deletes' = deletes
    BY <1>1, <2>1, Zenon DEF jobVars, nodeVars
  <2>3. \A p \in Payments : Passed(p)' = Passed(p)
    BY <1>2, <2>2, Zenon DEF Passed, Settled
  <2>4. TypeOK' /\ Node' /\ Records'
    BY <1>2, <2>1, <2>2, Zenon DEF PaymentsInv, TypeOK, Node, Records
  <2>5. Pages'
    BY <1>2, <2>2, Zenon DEF PaymentsInv, Pages, OnPage, Passed, Settled
  <2>6. Counted'
    BY <1>2, <2>2, <2>3, CountKept, Zenon DEF PaymentsInv, TypeOK
  <2> QED
    BY <2>4, <2>5, <2>6, Zenon DEF PaymentsInv
<1> QED
  BY <1>3, <1>4, <1>5, <1>6, <1>7, <1>8, Zenon

\* Every step keeps the invariant.
LEMMA PaymentsStep == PaymentsInv /\ [Next]_vars => PaymentsInv'
<1> SUFFICES ASSUME PaymentsInv, [Next]_vars PROVE PaymentsInv'
  OBVIOUS
<1>1. CASE UNCHANGED vars
  BY <1>1, JobStep, Zenon
<1>2. CASE UpdateStep
  BY <1>2, JobStep, ListPageStep, UpdatePaymentStep, Zenon DEF UpdateStep
<1>3. CASE ListFails \/ UpdateFails \/ CronStops
  BY <1>3, JobStep, Zenon
<1>4. ASSUME NEW p \in Payments,
             \/ Pay(p) \/ Resolves(p) \/ Ages(p) \/ persistNew(p) \/ WriteLost(p)
             \/ checkAndDeletePaymentForHash(p) \/ DeleteLands(p) \/ DeleteLost(p)
      PROVE  PaymentsInv'
  BY <1>4, NodeStep, WriteStep, DeleteStep, Zenon
<1> QED
  BY <1>1, <1>2, <1>3, <1>4, Zenon DEF Next

\* The invariant holds in every state.
LEMMA PaymentsAlways == Spec => []PaymentsInv
BY PaymentsInit, PaymentsStep, PTL DEF Spec

\* The variables of LnPayments keep their types: updateLnPayments never completes
\* more records than listIncomplete gave it, though lists change while it reads them.
THEOREM PaymentsTypeCorrect == Spec => []TypeOK
<1>1. PaymentsInv => TypeOK
  BY Zenon DEF PaymentsInv
<1> QED
  BY <1>1, PaymentsAlways, PTL

\* A payment that deleteLnPaymentsBefore has had deleted is on record, with the
\* status it had in the node unless it was made more than once.
THEOREM DeletedIsOnRecord == Spec => []GoneIsOnRecord
<1>1. PaymentsInv => GoneIsOnRecord
  BY Zenon DEF PaymentsInv, TypeOK, Node, Records, GoneIsOnRecord, Statuses
<1> QED
  BY <1>1, PaymentsAlways, PTL

\* What updateLnPayments has recorded of a payment is what the node says of it,
\* unless the payment was made again.
THEOREM RecordsAreTrue == Spec => []CompleteIsTrue
<1>1. PaymentsInv => CompleteIsTrue
  BY Zenon DEF PaymentsInv, Records, CompleteIsTrue
<1> QED
  BY <1>1, PaymentsAlways, PTL

\* No step changes a record that is complete.
LEMMA CompleteKept ==
  ASSUME PaymentsInv, [Next]_vars, NEW p \in Payments, record[p] \in Statuses
  PROVE  record'[p] = record[p]
<1>1. record \in [Payments -> {"none", "partial"} \cup Statuses] /\ TypeOK
  BY Zenon DEF PaymentsInv, TypeOK
<1>2. CASE UpdatePayment
  <2> PICK q : q = HeadOfPage
    OBVIOUS
  <2>1. q \in DOMAIN page
    BY <1>1, <1>2, HeadIsOnPage, Zenon DEF UpdatePayment
  <2>2. ~ Passed(q)
    BY <2>1, Zenon DEF Passed
  <2>3. q \in incomplete => record[q] \notin Statuses
    BY <2>2, Zenon DEF PaymentsInv, Pages, Statuses
  <2> QED
    BY <1>1, <1>2, <2>3, Zenon DEF UpdatePayment
<1>3. ASSUME NEW q \in Payments, persistNew(q) \/ checkAndDeletePaymentForHash(q)
      PROVE  record'[p] = record[p]
  BY <1>1, <1>3, Zenon DEF persistNew, checkAndDeletePaymentForHash, Statuses
<1>4. CASE record' = record
  BY <1>4, Zenon
<1> QED
  BY <1>2, <1>3, <1>4, Zenon DEF Next, UpdateStep, Pay, Resolves, Ages, WriteLost, DeleteLands,
     DeleteLost, UpdateStarts, ListPage, PageEnds, ListFails, UpdateFails, CronStops, vars

\* A complete record is final: neither a late persistNew nor another run of
\* updateLnPayments changes it.
THEOREM RecordsAreFinal == Spec => CompleteStays
<1>1. PaymentsInv /\ [Next]_vars
        => [\A p \in Payments : record[p] \in Statuses => record'[p] = record[p]]_vars
  BY CompleteKept, Zenon
<1> QED
  BY <1>1, PaymentsAlways, PTL DEF Spec, CompleteStays
=============================================================================
