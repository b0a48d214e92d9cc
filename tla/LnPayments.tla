----------------------------- MODULE LnPayments -----------------------------
(***************************************************************************)
(* The collection of Lightning payments: the bank's own copy of the list   *)
(* of payments its node keeps.  A sender adds a partial record once a      *)
(* payment has been tried (executePaymentViaLn), a task of the cron        *)
(* process completes the partial records from the node's lists of settled  *)
(* and of failed payments (updateLnPayments), and another deletes old      *)
(* payments from the node when their record is complete                    *)
(* (deleteLnPaymentsBefore).                                               *)
(*                                                                         *)
(* The node lists payments by pages, newest first.  Writes nobody waits    *)
(* for (persistNew of the sender, deletePaymentByHash) land later or are   *)
(* lost.                                                                   *)
(***************************************************************************)
EXTENDS Integers, FiniteSetsExt

CONSTANTS
  Payments,     \* payment hashes, numbered in the order in which they are first paid
  PageSize,     \* payments the node reads for a page
  MaxSends,     \* bound on payments made, retries included
  MaxFaults     \* bound on calls that fail and processes that stop

ASSUME LnPaymentsAssumption ==
  /\ Payments \subseteq Nat /\ IsFiniteSet(Payments) /\ PageSize \in Nat \ {0}
  /\ MaxSends \in Nat /\ MaxFaults \in Nat

VARIABLES
  lnd,        \* status of a payment in the node
  at,         \* when it was made last
  old,        \* payments made more than two months ago
  gone,       \* status of a payment when it was deleted from the node
  retried,    \* payments made again after they had failed
  record,     \* record of a payment; a complete one has its status
  writes,     \* records to be persisted by the sender
  deletes,    \* deletions sent to the node
  job,        \* control point of updateLnPayments
  incomplete, \* partial records it has read
  processed,  \* payments it has completed
  list,       \* the list it reads
  after,      \* its place in the list: payments made before are still to come
  page,       \* payments of the page it has read that are to be done, and when they were made
  sends, faults

Statuses == {"settled", "failed"}
NoPage == [p \in {} |-> 0]

nodeVars == <<lnd, at, old, gone, retried, sends>>
jobVars == <<job, incomplete, processed, list, after, page>>
vars == <<nodeVars, record, writes, deletes, jobVars, faults>>

\* Types of all the variables.
TypeOK ==
  /\ lnd \in [Payments -> {"none", "inflight"} \cup Statuses]
  /\ at \in [Payments -> 0..MaxSends] /\ sends \in 0..MaxSends
  /\ old \subseteq Payments /\ retried \subseteq Payments
  /\ gone \in [Payments -> {"none"} \cup Statuses]
  /\ record \in [Payments -> {"none", "partial"} \cup Statuses]
  /\ writes \subseteq Payments /\ deletes \subseteq Payments
  /\ job \in {"off", "list", "page"} /\ list \in Statuses
  /\ incomplete \subseteq Payments /\ processed \in 0..Cardinality(incomplete)
  /\ after \in 0..(MaxSends + 1) /\ \E P \in SUBSET Payments : page \in [P -> 0..MaxSends]
  /\ faults \in 0..MaxFaults

Init ==
  /\ lnd = [p \in Payments |-> "none"] /\ at = [p \in Payments |-> 0] /\ sends = 0
  /\ old = {} /\ gone = [p \in Payments |-> "none"] /\ retried = {}
  /\ record = [p \in Payments |-> "none"] /\ writes = {} /\ deletes = {}
  /\ job = "off" /\ incomplete = {} /\ processed = 0 /\ list = "settled" /\ after = 0 /\ page = NoPage
  /\ faults = 0

-----------------------------------------------------------------------------
(* Payments *)

\* A payment is made, or made again after it failed; whatever its outcome is, the
\* sender then writes to the collection.
Pay(p) ==
  /\ lnd[p] \in {"none", "failed"} /\ gone[p] # "settled" /\ sends < MaxSends
  /\ \A q \in Payments : q < p => at[q] > 0
  /\ sends' = sends + 1 /\ at' = [at EXCEPT ![p] = sends + 1]
  /\ lnd' = [lnd EXCEPT ![p] = "inflight"] /\ old' = old \ {p}
  /\ retried' = IF at[p] > 0 THEN retried \cup {p} ELSE retried
  /\ writes' = writes \cup {p}
  /\ UNCHANGED <<gone, record, deletes, jobVars, faults>>

Resolves(p) ==
  /\ lnd[p] = "inflight" /\ \E s \in Statuses : lnd' = [lnd EXCEPT ![p] = s]
  /\ UNCHANGED <<at, old, gone, retried, sends, record, writes, deletes, jobVars, faults>>

\* Two months pass.
Ages(p) ==
  /\ lnd[p] # "none" /\ p \notin old
  /\ \A q \in Payments : lnd[q] # "none" /\ at[q] < at[p] => q \in old
  /\ old' = old \cup {p}
  /\ UNCHANGED <<lnd, at, gone, retried, sends, record, writes, deletes, jobVars, faults>>

\* A new document in place of the one there is (mutant).
persistAnew(p) ==
  /\ p \in writes /\ writes' = writes \ {p}
  /\ record' = [record EXCEPT ![p] = "partial"]
  /\ UNCHANGED <<nodeVars, deletes, jobVars, faults>>

\* persistNew inserts a partial record, and leaves a record there is as it is.
persistNew(p) ==
  /\ p \in writes /\ writes' = writes \ {p}
  /\ record' = [record EXCEPT ![p] = IF @ = "none" THEN "partial" ELSE @]
  /\ UNCHANGED <<nodeVars, deletes, jobVars, faults>>

\* The server stops, or the write fails.
WriteLost(p) ==
  /\ p \in writes /\ writes' = writes \ {p}
  /\ faults < MaxFaults /\ faults' = faults + 1
  /\ UNCHANGED <<nodeVars, record, deletes, jobVars>>

-----------------------------------------------------------------------------
(* updateLnPayments *)

\* listIncomplete
UpdateStarts ==
  /\ job = "off" /\ \E p \in Payments : record[p] = "partial"
  /\ job' = "list" /\ incomplete' = {p \in Payments : record[p] = "partial"}
  /\ processed' = 0 /\ list' = "settled" /\ after' = MaxSends + 1 /\ page' = NoPage
  /\ UNCHANGED <<nodeVars, record, writes, deletes, faults>>

\* The job is over.
Reset ==
  /\ job' = "off" /\ incomplete' = {} /\ processed' = 0
  /\ list' = "settled" /\ after' = 0 /\ page' = NoPage

\* The first list only (mutant).
NoSecondList == Reset

\* On to the list of failed payments, from its start, after the one of settled.
NextList ==
  IF list = "settled"
    THEN /\ list' = "failed" /\ after' = MaxSends + 1 /\ job' = "list" /\ page' = NoPage
         /\ UNCHANGED <<incomplete, processed>>
    ELSE Reset

\* A list with the payments in flight (mutant).
ListedOrInFlight(s, cursor) == {p \in Payments : lnd[p] \in {s, "inflight"} /\ at[p] < cursor}

\* Payments of the list that were made before the cursor, and the newest of them, n
\* at most, that make up a page: the node reads PageSize payments and then leaves
\* out those that do not belong in the list.
Listed(s, cursor) == {p \in Payments : lnd[p] = s /\ at[p] < cursor}

PageOf(S, n) == {p \in S : Cardinality({q \in S : at[q] > at[p]}) < n}

\* A page is read, while there are records to complete and a page to read.
ListPage ==
  /\ job = "list"
  /\ LET rest == Listed(list, after)
     IN IF processed >= Cardinality(incomplete) \/ rest = {}
          THEN NextList
          ELSE \E n \in 1..PageSize :
                 /\ job' = "page" /\ page' = [p \in PageOf(rest, n) |-> at[p]]
                 /\ after' = Min({at[p] : p \in PageOf(rest, n)})
                 /\ UNCHANGED <<incomplete, processed, list>>
  /\ UNCHANGED <<nodeVars, record, writes, deletes, faults>>

ListFails ==
  /\ job = "list" /\ faults < MaxFaults /\ faults' = faults + 1
  /\ NextList
  /\ UNCHANGED <<nodeVars, record, writes, deletes>>

\* The payment of the page that comes next.
HeadOfPage == CHOOSE p \in DOMAIN page : \A q \in DOMAIN page : page[q] <= page[p]

\* A payment of the page is completed; one whose record is not among those read
\* ends the page, whatever is left of it.
UpdatePayment ==
  /\ job = "page" /\ page # NoPage
  /\ LET p == HeadOfPage
     IN IF p \in incomplete
          THEN /\ record' = [record EXCEPT ![p] = list]
               /\ processed' = processed + 1 /\ page' = [q \in DOMAIN page \ {p} |-> page[q]]
          ELSE page' = NoPage /\ UNCHANGED <<record, processed>>
  /\ UNCHANGED <<nodeVars, writes, deletes, job, incomplete, list, after, faults>>

\* update fails: the page ends.
UpdateFails ==
  /\ job = "page" /\ page # NoPage /\ HeadOfPage \in incomplete
  /\ faults < MaxFaults /\ faults' = faults + 1 /\ page' = NoPage
  /\ UNCHANGED <<nodeVars, record, writes, deletes, job, incomplete, processed, list, after>>

PageEnds ==
  /\ job = "page" /\ page = NoPage /\ job' = "list"
  /\ UNCHANGED <<nodeVars, record, writes, deletes, incomplete, processed, list, after, page,
                 faults>>

CronStops ==
  /\ job # "off" /\ faults < MaxFaults /\ faults' = faults + 1 /\ Reset
  /\ UNCHANGED <<nodeVars, record, writes, deletes>>

-----------------------------------------------------------------------------
(* deleteLnPaymentsBefore *)

\* What is old is deleted, whether the record is complete or not (mutant).
DeleteUnchecked(p) ==
  /\ job = "off" /\ p \in old /\ lnd[p] \in Statuses /\ record[p] # "none"
  /\ deletes' = deletes \cup {p}
  /\ UNCHANGED <<nodeVars, record, writes, jobVars, faults>>

\* Payments without a record are left alone (mutant).
DeleteKnown(p) ==
  /\ job = "off" /\ p \in old /\ lnd[p] \in Statuses /\ record[p] \in Statuses
  /\ deletes' = deletes \cup {p}
  /\ UNCHANGED <<nodeVars, record, writes, jobVars, faults>>

\* An old payment without a record gets a partial one; one with a complete record
\* is deleted, without waiting for the node.
checkAndDeletePaymentForHash(p) ==
  /\ job = "off" /\ p \in old /\ lnd[p] \in Statuses
  /\ \/ record[p] = "none" /\ record' = [record EXCEPT ![p] = "partial"] /\ UNCHANGED deletes
     \/ record[p] \in Statuses /\ deletes' = deletes \cup {p} /\ UNCHANGED record
  /\ UNCHANGED <<nodeVars, writes, jobVars, faults>>

\* The node deletes a payment, unless it is in flight.
DeleteLands(p) ==
  /\ p \in deletes /\ deletes' = deletes \ {p}
  /\ IF lnd[p] \in Statuses
       THEN /\ lnd' = [lnd EXCEPT ![p] = "none"] /\ gone' = [gone EXCEPT ![p] = lnd[p]]
            /\ old' = old \ {p}
       ELSE UNCHANGED <<lnd, gone, old>>
  /\ UNCHANGED <<at, retried, sends, record, writes, jobVars, faults>>

\* The process exits before the call has left.
DeleteLost(p) ==
  /\ p \in deletes /\ deletes' = deletes \ {p}
  /\ faults < MaxFaults /\ faults' = faults + 1
  /\ UNCHANGED <<nodeVars, record, writes, jobVars>>

-----------------------------------------------------------------------------
UpdateStep == UpdateStarts \/ ListPage \/ UpdatePayment \/ PageEnds

Next ==
  \/ \E p \in Payments : \/ Pay(p) \/ Resolves(p) \/ Ages(p) \/ persistNew(p) \/ WriteLost(p)
                         \/ checkAndDeletePaymentForHash(p) \/ DeleteLands(p) \/ DeleteLost(p)
  \/ UpdateStep \/ ListFails \/ UpdateFails \/ CronStops

Spec == Init /\ [][Next]_vars

\* The cron job is started again and again.
FairSpec == Spec /\ WF_vars(UpdateStep)

-----------------------------------------------------------------------------
\* A payment that is gone from the node has a complete record, and the record
\* says what became of it, unless it was made more than once.
GoneIsOnRecord ==
  \A p \in Payments : gone[p] # "none" =>
     record[p] \in Statuses /\ (p \notin retried => record[p] = gone[p])

\* A complete record says what the node says, unless the payment was made again
\* after it had failed: a complete record is not looked at again.
CompleteIsTrue ==
  \A p \in Payments : record[p] \in Statuses /\ lnd[p] # "none" /\ p \notin retried
     => record[p] = lnd[p]

\* A complete record stays as it is, whatever is written late.
CompleteStays ==
  [][\A p \in Payments : record[p] \in Statuses => record'[p] = record[p]]_vars

\* p comes after a payment of the same list whose record is not partial.
Blocked(p) ==
  \E q \in Payments : lnd[q] = lnd[p] /\ at[q] > at[p] /\ record[q] # "partial"

\* The partial record of a payment that has been resolved comes to be complete,
\* unless a newer payment of the same list has a complete record or none:
\* updateLnPaymentsPaginated gives up a page at such a payment.
PartialCompletes ==
  \A p \in Payments : lnd[p] \in Statuses /\ record[p] = "partial"
     ~> record[p] # "partial" \/ Blocked(p) \/ lnd[p] = "inflight"

\* Two months pass for every payment; the other task, which every run of the cron
\* process comes to, meets it and reaches the node.
TimePasses ==
  \A p \in Payments : /\ WF_vars(Ages(p)) /\ SF_vars(checkAndDeletePaymentForHash(p))
                      /\ WF_vars(DeleteLands(p))

\* If no more payments are made the collection catches up at last: every payment
\* that has been resolved has a complete record, since the newer payments before
\* it get a record, and are deleted, in their turn.
CatchesUp ==
  TimePasses => <>[](\A p \in Payments : lnd[p] \in Statuses => record[p] \in Statuses)
=============================================================================
