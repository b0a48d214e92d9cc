----------------------------- MODULE NodeBooks -----------------------------
(***************************************************************************)
(* The books the bank keeps on its own Lightning node: what the node earns *)
(* by routing payments (updateRoutingRevenues), and the sats its channels  *)
(* hold in escrow (updateEscrows).  Both are tasks of the cron process,    *)
(* which runs its tasks one after the other, each in a try/catch, may stop *)
(* at any point, and is started again.  Time is counted in days (of UTC,   *)
(* the time zone of the process); 0 is the epoch.                          *)
(***************************************************************************)
EXTENDS Integers, FiniteSetsExt

CONSTANTS
  MaxDay,       \* bound on days
  MaxFee,       \* bound on the fees of a day
  MaxEscrow,    \* bound on the sats in escrow
  MaxMoves,     \* bound on changes of the escrow
  MaxStops,     \* bound on runs that stop
  MaxFailures   \* bound on calls that fail

Bounds ==
  /\ MaxDay \in Nat \ {0} /\ MaxFee \in Nat /\ MaxEscrow \in Nat
  /\ MaxMoves \in Nat /\ MaxStops \in Nat /\ MaxFailures \in Nat

ASSUME NodeBooksAssumption == Bounds

VARIABLES
  today,
  fees,      \* earned by routing on a day
  revenue,   \* booked for a day
  last,      \* routingFeeLastEntry
  stored,    \* all values last has had
  unbooked,  \* days for which addLndRoutingRevenue failed
  escrow,    \* commit fees of the channels, in lnd
  booked,    \* escrow, in the ledger
  cron,      \* task of the cron process, "off": it does not run
  escrowInLnd, \* escrow the task has read from lnd
  forwards,  \* days and their fees it has read and not yet booked
  end,       \* day it will store
  moves, stops, failures

Days == 0..MaxDay
Nothing == [d \in {} |-> 0]

revenueVars == <<revenue, last, stored, unbooked>>
escrowVars == <<escrow, booked, moves>>
cronVars == <<cron, escrowInLnd, forwards, end>>
vars == <<today, fees, revenueVars, escrowVars, cronVars, stops, failures>>

Tasks == {"off", "escrow", "bookEscrow", "revenue", "record"}

\* Types of all the variables.
TypeOK ==
  /\ today \in Days \ {0} /\ last \in Days /\ end \in Days
  /\ fees \in [Days -> 0..MaxFee] /\ revenue \in [Days -> Nat]
  /\ stored \subseteq Days /\ unbooked \subseteq Days
  /\ escrow \in 0..MaxEscrow /\ booked \in 0..MaxEscrow /\ moves \in 0..MaxMoves
  /\ cron \in Tasks
  /\ escrowInLnd \in 0..MaxEscrow
  /\ \E D \in SUBSET Days : forwards \in [D -> 1..MaxFee]
  /\ stops \in 0..MaxStops /\ failures \in 0..MaxFailures

Init ==
  /\ today = 1 /\ last = 0 /\ stored = {} /\ unbooked = {} /\ end = 0
  /\ fees = [d \in Days |-> 0] /\ revenue = [d \in Days |-> 0]
  /\ escrow = 0 /\ booked = 0 /\ moves = 0
  /\ cron = "off" /\ escrowInLnd = 0 /\ forwards = Nothing
  /\ stops = 0 /\ failures = 0

-----------------------------------------------------------------------------
(* The node *)

\* A payment is routed.
Forward ==
  /\ fees[today] < MaxFee /\ fees' = [fees EXCEPT ![today] = @ + 1]
  /\ UNCHANGED <<today, revenueVars, escrowVars, cronVars, stops, failures>>

Midnight ==
  /\ today < MaxDay /\ today' = today + 1
  /\ UNCHANGED <<fees, revenueVars, escrowVars, cronVars, stops, failures>>

\* Channels open, close or change their commit fee.
ChannelsChange ==
  /\ moves < MaxMoves /\ moves' = moves + 1
  /\ escrow' \in (0..MaxEscrow) \ {escrow}
  /\ UNCHANGED <<today, fees, revenueVars, booked, cronVars, stops, failures>>

-----------------------------------------------------------------------------
(* The cron process *)

CronStarts ==
  /\ cron = "off" /\ cron' = "escrow"
  /\ UNCHANGED <<today, fees, revenueVars, escrowVars, escrowInLnd, forwards, end, stops, failures>>

CronStops ==
  /\ cron # "off" /\ stops < MaxStops /\ stops' = stops + 1
  /\ cron' = "off" /\ escrowInLnd' = 0 /\ forwards' = Nothing /\ end' = 0
  /\ UNCHANGED <<today, fees, revenueVars, escrowVars, failures>>

\* A task one of whose calls fails is given up, and the next one runs.
TaskFails ==
  /\ cron # "off" /\ failures < MaxFailures /\ failures' = failures + 1
  /\ cron' = IF cron \in {"escrow", "bookEscrow"} THEN "revenue" ELSE "off"
  /\ escrowInLnd' = 0 /\ forwards' = Nothing /\ end' = 0
  /\ UNCHANGED <<today, fees, revenueVars, escrowVars, stops>>

\* updateEscrows sums the commit fees of the channels the node has opened,
updateEscrows ==
  /\ cron = "escrow" /\ escrowInLnd' = escrow /\ cron' = "bookEscrow"
  /\ UNCHANGED <<today, fees, revenueVars, escrowVars, forwards, end, stops, failures>>

\* books an increase only (mutant),
RaiseLndEscrow ==
  /\ cron = "bookEscrow"
  /\ booked' = IF escrowInLnd > booked THEN escrowInLnd ELSE booked
  /\ escrowInLnd' = 0 /\ cron' = "revenue"
  /\ UNCHANGED <<today, fees, revenueVars, escrow, moves, forwards, end, stops, failures>>

\* or books what has changed since.
updateLndEscrow ==
  /\ cron = "bookEscrow"
  /\ LET diff == escrowInLnd - booked IN booked' = booked + diff
  /\ escrowInLnd' = 0 /\ cron' = "revenue"
  /\ UNCHANGED <<today, fees, revenueVars, escrow, moves, forwards, end, stops, failures>>

\* A window that ends with today (mutant), or is a day short (mutant).
WindowToToday == IF today - last < 1 THEN {} ELSE last..today

ShortWindow == IF (today - 1) - last < 1 THEN {} ELSE last..(today - 3)

\* updateRoutingRevenues covers the days from the last entry up to, and not
\* including, yesterday.
Window == IF (today - 1) - last < 1 THEN {} ELSE last..(today - 2)

\* It asks lnd for the forwards of those days, summed by day.
getRoutingFees ==
  /\ cron = "revenue"
  /\ IF Window = {}
       THEN cron' = "off" /\ UNCHANGED <<forwards, end>>
       ELSE /\ cron' = "record" /\ end' = today
            /\ forwards' = [d \in {e \in Window : fees[e] > 0} |-> fees[d]]
  /\ UNCHANGED <<today, fees, revenueVars, escrowVars, escrowInLnd, stops, failures>>

\* It books each day; an error is only logged.
addLndRoutingRevenue ==
  /\ cron = "record" /\ forwards # Nothing
  /\ LET day == Min(DOMAIN forwards)
     IN /\ forwards' = [d \in DOMAIN forwards \ {day} |-> forwards[d]]
        /\ \/ /\ revenue' = [revenue EXCEPT ![day] = @ + forwards[day]]
              /\ UNCHANGED <<unbooked, failures>>
           \/ /\ failures < MaxFailures /\ failures' = failures + 1
              /\ unbooked' = unbooked \cup {day} /\ UNCHANGED revenue
  /\ UNCHANGED <<today, fees, last, stored, escrowVars, cron, escrowInLnd, end, stops>>

\* It stores the day after the end of the window, which is the day it has read.
storeLastEntry ==
  /\ cron = "record" /\ forwards = Nothing
  /\ last' = end /\ stored' = stored \cup {end}
  /\ cron' = "off" /\ end' = 0
  /\ UNCHANGED <<today, fees, revenue, unbooked, escrowVars, escrowInLnd, forwards, stops, failures>>

-----------------------------------------------------------------------------
CronStep ==
  \/ CronStarts \/ updateEscrows \/ updateLndEscrow \/ getRoutingFees \/ addLndRoutingRevenue
  \/ storeLastEntry

Next ==
  \/ Forward \/ Midnight \/ ChannelsChange
  \/ CronStep \/ TaskFails \/ CronStops

Spec == Init /\ [][Next]_vars

\* The cron job is started again and again.
FairSpec == Spec /\ WF_vars(CronStep)

-----------------------------------------------------------------------------
\* What is booked for a day is what the node has earned on that whole day: once,
\* and once more at most for every run that has stopped or failed (a run of
\* updateRoutingRevenues that does not come to store its date is repeated).
DayBookedInFull ==
  \A d \in Days : \E n \in 0..(1 + stops + failures) : revenue[d] = n * fees[d]

\* A day before the date stored is booked, unless its entry failed or the day is
\* the eve of a run: updateRoutingRevenues stores the day it runs on, and has
\* read up to the day before yesterday only.
OnlyEvesSkipped ==
  \A d \in Days : d < last /\ fees[d] > 0 /\ revenue[d] = 0 => d \in unbooked \/ d + 1 \in stored

\* The escrow account comes to agree with the channels, whatever runs were cut
\* off or failed, once they no longer change.
EscrowSettles == <>[](booked = escrow)
=============================================================================
