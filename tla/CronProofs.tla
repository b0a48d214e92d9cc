----------------------------- MODULE CronProofs -----------------------------
(***************************************************************************)
(* Theorems about the tasks of the cron process that keep books on the     *)
(* node (NodeBooks) and move sats to its hot wallet (SwapOut), for every   *)
(* value of the constants.                                                 *)
(***************************************************************************)
EXTENDS NodeBooks, SwapOut, TLAPS

-----------------------------------------------------------------------------
(* The books on the node *)

\* A run has dealt with day d: one that has stored its date, or the one there is.
Covered(d) == d < last \/ (cron = "record" /\ d + 2 <= end /\ d \notin DOMAIN forwards)

BooksTypes == Bounds /\ TypeOK

Reading ==
  /\ last <= today /\ end <= today
  /\ IF cron = "record"
       THEN /\ last + 2 <= end
            /\ \A d \in DOMAIN forwards : last <= d /\ d + 2 <= end /\ forwards[d] = fees[d]
       ELSE forwards = Nothing
  /\ \A d \in Days : today <= d + 1 => revenue[d] = 0

\* Day d may have been booked n times.
Bookings(d, n) ==
  n <= stops + failures \/ (Covered(d) /\ n <= 1 + stops + failures)

BookedInFull == \A d \in Days : \E n \in Nat : Bookings(d, n) /\ revenue[d] = n * fees[d]

EvesSkipped ==
  \A d \in Days :
     Covered(d) /\ fees[d] > 0 /\ revenue[d] = 0 => d \in unbooked \/ d + 1 \in stored

BooksInv == BooksTypes /\ Reading /\ BookedInFull /\ EvesSkipped

\* The invariant of the node's books holds at first.
LEMMA BooksInit == Init => BooksInv
<1> SUFFICES ASSUME Bounds, Init PROVE BooksInv
  BY NodeBooksAssumption, Zenon
<1> USE DEF Bounds, Init
<1>1. forwards \in [{} -> 1..MaxFee]
  BY Zenon DEF Nothing
<1>2. BooksTypes
  <2>1. \E D \in SUBSET Days : forwards \in [D -> 1..MaxFee]
    BY <1>1, Zenon
  <2> QED
    BY <2>1 DEF BooksTypes, TypeOK, Days, Tasks
<1>3. Reading
  BY DEF Reading, Days
<1>4. BookedInFull
  BY DEF BookedInFull, Bookings, Days
<1>5. EvesSkipped
  BY DEF EvesSkipped, Days
<1> QED
  BY <1>2, <1>3, <1>4, <1>5, Zenon DEF BooksInv

\* The days of the node: what it earns today is booked on another day.
LEMMA DayStep ==
  ASSUME BooksInv, Forward \/ Midnight
  PROVE  BooksInv'
<1> USE DEF Bounds, Days
<1>0. Bounds /\ Days \subseteq Nat
  BY DEF BooksInv, BooksTypes
<1> PICK D \in SUBSET Days : forwards \in [D -> 1..MaxFee]
  BY Zenon DEF BooksInv, BooksTypes, TypeOK
<1>1. /\ revenue' = revenue /\ last' = last /\ stored' = stored /\ unbooked' = unbooked
      /\ cron' = cron /\ forwards' = forwards /\ end' = end /\ stops' = stops /\ failures' = failures
  BY Zenon DEF Forward, Midnight, revenueVars, cronVars
<1>2. \A d \in Days : fees'[d] = fees[d] \/ d = today
  BY Zenon DEF BooksInv, BooksTypes, TypeOK, Forward, Midnight
<1>3. \A d : Covered(d)' = Covered(d)
  BY <1>1, Zenon DEF Covered
<1>4. BooksTypes'
  <2>1. \E E \in SUBSET Days : forwards' \in [E -> 1..MaxFee]
    BY <1>1, Zenon
  <2>2. today' \in Days \ {0} /\ fees' \in [Days -> 0..MaxFee]
    <3>1. today \in Days \ {0} /\ fees \in [Days -> 0..MaxFee] /\ MaxFee \in Nat /\ MaxDay \in Nat
      BY Zenon DEF BooksInv, BooksTypes, TypeOK
    <3>2. CASE Forward
      <4>1. fees[today] + 1 \in 0..MaxFee
        BY <3>1, <3>2 DEF Forward
      <4> QED
        BY <3>1, <3>2, <4>1, Zenon DEF Forward
    <3>3. CASE Midnight
      BY <3>1, <3>3 DEF Midnight
    <3> QED
      BY <3>2, <3>3, Zenon
  <2>3. escrow' = escrow /\ booked' = booked /\ moves' = moves /\ escrowInLnd' = escrowInLnd
    BY Zenon DEF Forward, Midnight, escrowVars, cronVars
  <2> QED
    BY <1>1, <2>1, <2>2, <2>3, Zenon DEF BooksInv, BooksTypes, TypeOK
<1>5. Reading'
  <2>1. today' >= today
    BY DEF BooksInv, BooksTypes, TypeOK, Forward, Midnight
  <2>2. \A d \in DOMAIN forwards : d \in Days
    OBVIOUS
  <2>3. /\ today \in Nat /\ today' \in Nat /\ last \in Nat /\ end \in Nat
    BY <1>4 DEF BooksInv, BooksTypes, TypeOK
  <2>4. cron = "record" => \A d \in DOMAIN forwards : d # today
    BY <2>2, <2>3 DEF BooksInv, Reading
  <2>5. last' <= today' /\ end' <= today' /\ \A d \in Days : today' <= d + 1 => revenue'[d] = 0
    <3>1. last <= today /\ end <= today /\ \A d \in Days : today <= d + 1 => revenue[d] = 0
      BY Zenon DEF BooksInv, Reading
    <3>2. \A d \in Days : d \in Nat /\ (today' <= d + 1 => today <= d + 1)
      BY <1>0, <2>1, <2>3
    <3>3. last' <= today' /\ end' <= today'
      BY <1>1, <2>1, <2>3, <3>1
    <3> QED
      BY <1>1, <3>1, <3>2, <3>3, Zenon
  <2>6. cron' # "record" => forwards' = Nothing
    BY <1>1, Zenon DEF BooksInv, Reading
  <2>7. cron' = "record" =>
          /\ last' + 2 <= end'
          /\ \A d \in DOMAIN forwards' : last' <= d /\ d + 2 <= end' /\ forwards'[d] = fees'[d]
    BY <1>1, <1>2, <2>2, <2>4, Zenon DEF BooksInv, Reading
  <2> QED
    BY <2>5, <2>6, <2>7, Zenon DEF Reading
<1>6. BookedInFull'
  <2> SUFFICES ASSUME NEW d \in Days
               PROVE  \E n \in Nat : Bookings(d, n)' /\ revenue'[d] = n * fees'[d]
    BY Zenon DEF BookedInFull
  <2>1. \A n \in Nat : Bookings(d, n)' = Bookings(d, n)
    BY <1>1, <1>3, Zenon DEF Bookings
  <2>2. CASE d = today
    <3>1. revenue'[d] = 0 /\ fees'[d] \in Nat /\ Bookings(d, 0)
      BY <1>1, <1>4, <2>2 DEF BooksInv, BooksTypes, TypeOK, Reading, Bookings
    <3> QED
      BY <2>1, <3>1
  <2>3. CASE d # today
    BY <1>1, <1>2, <2>1, <2>3, Zenon DEF BooksInv, BookedInFull
  <2> QED
    BY <2>2, <2>3, Zenon
<1>7. EvesSkipped'
  <2>1. \A d \in Days : Covered(d) => d # today
    BY DEF BooksInv, BooksTypes, TypeOK, Reading, Covered
  <2> QED
    BY <1>1, <1>2, <1>3, <2>1, Zenon DEF BooksInv, EvesSkipped
<1> QED
  BY <1>4, <1>5, <1>6, <1>7, Zenon DEF BooksInv

\* The steps that book nothing: a day counts as dealt with only if it was, or if
\* the node earned nothing on it.
LEMMA QuietStep ==
  ASSUME BooksInv, BooksTypes', Reading', fees' = fees, revenue' = revenue, last' = last,
         stored' = stored, unbooked' = unbooked,
         \A d \in Days, n \in Nat : Bookings(d, n) => Bookings(d, n)',
         \A d \in Days : Covered(d)' => Covered(d) \/ fees[d] = 0
  PROVE  BooksInv'
<1>1. \A d \in Days : fees[d] \in Nat
  BY DEF BooksInv, BooksTypes, Bounds, TypeOK
<1>2. BookedInFull'
  BY Zenon DEF BooksInv, BookedInFull
<1>3. EvesSkipped'
  <2>1. \A d \in Days : ~ (fees[d] = 0 /\ fees[d] > 0)
    BY <1>1
  <2> QED
    BY <2>1, Zenon DEF BooksInv, EvesSkipped
<1> QED
  BY <1>2, <1>3, Zenon DEF BooksInv

\* The channels change, the run starts, and books the escrow.
LEMMA EscrowStep ==
  ASSUME BooksInv,
         \/ ChannelsChange \/ CronStarts \/ updateEscrows \/ updateLndEscrow
         \/ UNCHANGED vars
  PROVE  BooksInv'
<1>1. /\ today' = today /\ fees' = fees /\ revenueVars' = revenueVars
      /\ stops' = stops /\ failures' = failures
  BY Zenon DEF ChannelsChange, CronStarts, updateEscrows, updateLndEscrow, vars
<1>2. /\ revenue' = revenue /\ last' = last /\ stored' = stored /\ unbooked' = unbooked
      /\ forwards' = forwards /\ end' = end
  BY <1>1, Zenon DEF ChannelsChange, CronStarts, updateEscrows, updateLndEscrow, vars,
              revenueVars, cronVars
<1>3. cron' \in Tasks /\ (cron' = "record" <=> cron = "record")
  BY Zenon DEF BooksInv, BooksTypes, TypeOK, Tasks, ChannelsChange, CronStarts,
         updateEscrows, updateLndEscrow, vars, cronVars
<1>4. /\ escrow' \in 0..MaxEscrow /\ booked' \in 0..MaxEscrow /\ moves' \in 0..MaxMoves
      /\ escrowInLnd' \in 0..MaxEscrow
  <2>1. /\ escrow \in 0..MaxEscrow /\ booked \in 0..MaxEscrow /\ moves \in 0..MaxMoves
        /\ escrowInLnd \in 0..MaxEscrow /\ MaxEscrow \in Nat /\ MaxMoves \in Nat
    BY Zenon DEF BooksInv, BooksTypes, TypeOK, Bounds
  <2> QED
    BY <2>1 DEF ChannelsChange, CronStarts, updateEscrows, updateLndEscrow, vars,
                escrowVars, cronVars
<1>5. BooksTypes'
  BY <1>1, <1>2, <1>3, <1>4, Zenon DEF BooksInv, BooksTypes, TypeOK
<1>6. Reading'
  BY <1>1, <1>2, <1>3, Zenon DEF BooksInv, Reading
<1>7. \A d \in Days : Covered(d)' = Covered(d)
  BY <1>2, <1>3, Zenon DEF Covered
<1>8. \A d \in Days, n \in Nat : Bookings(d, n)' = Bookings(d, n)
  BY <1>1, <1>7, Zenon DEF Bookings
<1> QED
  BY <1>1, <1>2, <1>5, <1>6, <1>7, <1>8, QuietStep, Zenon

\* What may have been booked may have been, of a day that stays dealt with.
LEMMA BookingsKept ==
  ASSUME NEW d, NEW n \in Nat, Bookings(d, n), stops' = stops, failures' = failures,
         Covered(d) => Covered(d)'
  PROVE  Bookings(d, n)'
<1>1. stops' + failures' = stops + failures /\ 1 + stops' + failures' = 1 + stops + failures
  BY Zenon
<1>2. n <= stops + failures \/ (Covered(d)' /\ n <= 1 + stops + failures)
  BY Zenon DEF Bookings
<1>3. n <= stops' + failures' \/ (Covered(d)' /\ n <= 1 + stops' + failures')
  BY <1>1, <1>2, Zenon
<1> QED
  BY <1>3, Zenon DEF Bookings

\* One booking more.
LEMMA NextNumber ==
  ASSUME NEW s \in Nat, NEW f \in Nat, NEW n \in Nat, n <= s + f
  PROVE  n + 1 <= 1 + s + f
OBVIOUS

\* Of two counters one goes up.
LEMMA OneMore ==
  ASSUME NEW s \in Nat, NEW f \in Nat, NEW s1 \in Nat, NEW f1 \in Nat, s1 + f1 = s + f + 1,
         NEW n \in Nat, n <= s + f \/ n <= 1 + s + f
  PROVE  n <= s1 + f1
OBVIOUS

\* A run that is cut off may have booked days it does not account for: once more
\* than before, for one more run that has stopped or failed.
LEMMA AbandonStep ==
  ASSUME BooksInv, TaskFails \/ CronStops
  PROVE  BooksInv'
<1>1. /\ today' = today /\ fees' = fees /\ revenueVars' = revenueVars
      /\ escrowVars' = escrowVars /\ forwards' = Nothing /\ end' = 0 /\ escrowInLnd' = 0
      /\ cron' \in {"revenue", "off"}
  BY Zenon DEF TaskFails, CronStops
<1>2. /\ revenue' = revenue /\ last' = last /\ stored' = stored /\ unbooked' = unbooked
      /\ escrow' = escrow /\ booked' = booked /\ moves' = moves
  BY <1>1, Zenon DEF revenueVars, escrowVars
<1>3. /\ stops \in Nat /\ failures \in Nat /\ stops' \in 0..MaxStops /\ failures' \in 0..MaxFailures
      /\ stops' \in Nat /\ failures' \in Nat /\ stops' + failures' = stops + failures + 1
  <2>1. /\ stops \in 0..MaxStops /\ failures \in 0..MaxFailures
        /\ MaxStops \in Nat /\ MaxFailures \in Nat
    BY Zenon DEF BooksInv, BooksTypes, TypeOK, Bounds
  <2> QED
    BY <2>1 DEF TaskFails, CronStops
<1>4. BooksTypes'
  <2>1. forwards' \in [{} -> 1..MaxFee]
    BY <1>1, Zenon DEF Nothing
  <2>2. \E E \in SUBSET Days : forwards' \in [E -> 1..MaxFee]
    BY <2>1, Zenon
  <2>3. cron' \in Tasks /\ end' \in Days /\ escrowInLnd' \in 0..MaxEscrow
    BY <1>1 DEF Tasks, BooksInv, BooksTypes, Bounds, Days
  <2> QED
    BY <1>1, <1>2, <1>3, <2>2, <2>3, Zenon DEF BooksInv, BooksTypes, TypeOK
<1>5. Reading'
  <2>1. today \in Nat
    BY DEF BooksInv, BooksTypes, Bounds, TypeOK, Days
  <2> QED
    BY <1>1, <1>2, <2>1 DEF BooksInv, Reading
<1>6. \A d \in Days : Covered(d)' => Covered(d)
  BY <1>1, <1>2, Zenon DEF Covered
<1>7. \A d \in Days, n \in Nat : Bookings(d, n) => Bookings(d, n)'
  <2> SUFFICES ASSUME NEW d \in Days, NEW n \in Nat, Bookings(d, n) PROVE Bookings(d, n)'
    OBVIOUS
  <2>1. n <= stops + failures \/ n <= 1 + stops + failures
    BY Zenon DEF Bookings
  <2>2. n <= stops' + failures'
    BY <1>3, <2>1, OneMore, Zenon
  <2> QED
    BY <2>2, Zenon DEF Bookings
<1> QED
  BY <1>1, <1>2, <1>4, <1>5, <1>6, <1>7, QuietStep, Zenon

\* The window of a run: the days from the last entry to the day before yesterday.
LEMMA WindowDays ==
  ASSUME BooksInv, Window # {}
  PROVE  last + 2 <= today /\ \A d \in Days : d \in Window <=> last <= d /\ d + 2 <= today
<1>1. today \in Nat /\ last \in Nat /\ Days \subseteq Nat
  BY DEF BooksInv, BooksTypes, Bounds, TypeOK, Days
<1> QED
  BY <1>1 DEF Window

\* A run reads the forwards of its window.
LEMMA ReadStep ==
  ASSUME BooksInv, getRoutingFees
  PROVE  BooksInv'
<1>1. /\ today' = today /\ fees' = fees /\ revenueVars' = revenueVars /\ cron = "revenue"
      /\ escrowVars' = escrowVars /\ escrowInLnd' = escrowInLnd
      /\ stops' = stops /\ failures' = failures
  BY Zenon DEF getRoutingFees
<1>2. /\ revenue' = revenue /\ last' = last /\ stored' = stored /\ unbooked' = unbooked
      /\ escrow' = escrow /\ booked' = booked /\ moves' = moves
  BY <1>1, Zenon DEF revenueVars, escrowVars
<1>3. /\ today \in Nat /\ last \in Nat /\ Days \subseteq Nat /\ today \in Days
      /\ stops \in Nat /\ failures \in Nat /\ fees \in [Days -> 0..MaxFee] /\ MaxFee \in Nat
  BY DEF BooksInv, BooksTypes, Bounds, TypeOK, Days
<1>4. CASE Window = {}
  <2>1. cron' = "off" /\ forwards' = forwards /\ end' = end
    BY <1>4, Zenon DEF getRoutingFees
  <2>2. BooksTypes'
    BY <1>1, <1>2, <2>1, Zenon DEF BooksInv, BooksTypes, TypeOK, Tasks
  <2>3. Reading'
    BY <1>1, <1>2, <2>1, Zenon DEF BooksInv, Reading
  <2>4. \A d \in Days : Covered(d)' = Covered(d)
    BY <1>1, <1>2, <2>1, Zenon DEF Covered
  <2>5. \A d \in Days, n \in Nat : Bookings(d, n) => Bookings(d, n)'
    BY <1>1, <1>3, <2>4, Zenon DEF Bookings
  <2> QED
    BY <1>1, <1>2, <2>2, <2>3, <2>4, <2>5, QuietStep, Zenon
<1>5. CASE Window # {}
  <2>1. /\ cron' = "record" /\ end' = today
        /\ forwards' = [d \in {e \in Window : fees[e] > 0} |-> fees[d]]
    BY <1>5, Zenon DEF getRoutingFees
  <2>2. /\ last + 2 <= today /\ Window \subseteq Days
        /\ \A d \in Days : d \in Window <=> last <= d /\ d + 2 <= today
    <3>1. Window \subseteq Days
      BY <1>3 DEF Window, Days, BooksInv, BooksTypes, Bounds
    <3> QED
      BY <1>5, <3>1, WindowDays, Zenon
  <2> DEFINE E == {e \in Window : fees[e] > 0}
  <2>3. /\ E \in SUBSET Days /\ DOMAIN forwards' = E /\ \A d \in E : forwards'[d] = fees[d]
        /\ forwards' \in [E -> 1..MaxFee]
    <3>1. \A d \in E : d \in Days /\ fees[d] \in 1..MaxFee
      BY <1>3, <2>2
    <3> QED
      BY <2>1, <3>1, Zenon
  <2>4. BooksTypes'
    BY <1>1, <1>2, <1>3, <2>1, <2>3, Zenon DEF BooksInv, BooksTypes, TypeOK, Tasks
  <2>5. Reading'
    <3>1. \A d \in E : last <= d /\ d + 2 <= today
      BY <2>2, Zenon
    <3>2. last' <= today' /\ end' <= today' /\ last' + 2 <= end'
      BY <1>1, <1>2, <1>3, <2>1, <2>2
    <3>3. \A d \in Days : today' <= d + 1 => revenue'[d] = 0
      BY <1>1, <1>2, Zenon DEF BooksInv, Reading
    <3> HIDE DEF E
    <3> QED
      BY <1>1, <1>2, <2>1, <2>3, <3>1, <3>2, <3>3, Zenon DEF Reading
  <2>6. \A d \in Days :
          (Covered(d) => Covered(d)') /\ (Covered(d)' => Covered(d) \/ fees[d] = 0)
    <3>1. \A d \in Days : Covered(d) <=> d < last
      BY <1>1, Zenon DEF Covered
    <3>2. \A d \in Days : Covered(d)' <=> d < last \/ (d + 2 <= today /\ d \notin E)
      BY <1>2, <2>1, <2>3, Zenon DEF Covered
    <3>3. \A d \in Days : d + 2 <= today /\ d \notin E => d < last \/ fees[d] = 0
      BY <1>3, <2>2
    <3> QED
      BY <3>1, <3>2, <3>3, Zenon
  <2>7. \A d \in Days, n \in Nat : Bookings(d, n) => Bookings(d, n)'
    BY <1>1, <2>6, BookingsKept, Zenon
  <2> QED
    BY <1>1, <1>2, <2>4, <2>5, <2>6, <2>7, QuietStep, Zenon
<1> QED
  BY <1>4, <1>5, Zenon

INSTANCE SetTheorems

\* A day is booked with all it earned, and for the first time by this run; or its
\* entry fails.
LEMMA RevenueStep ==
  ASSUME BooksInv, addLndRoutingRevenue
  PROVE  BooksInv'
<1> PICK D \in SUBSET Days : forwards \in [D -> 1..MaxFee]
  BY Zenon DEF BooksInv, BooksTypes, TypeOK
<1> PICK day : day = Min(DOMAIN forwards)
  OBVIOUS
<1>1. /\ cron = "record" /\ forwards # Nothing
      /\ forwards' = [d \in DOMAIN forwards \ {day} |-> forwards[d]]
      /\ \/ /\ revenue' = [revenue EXCEPT ![day] = @ + forwards[day]]
            /\ unbooked' = unbooked /\ failures' = failures
         \/ /\ failures < MaxFailures /\ failures' = failures + 1
            /\ unbooked' = unbooked \cup {day} /\ revenue' = revenue
      /\ today' = today /\ fees' = fees /\ last' = last /\ stored' = stored /\ end' = end
      /\ escrowVars' = escrowVars /\ cron' = cron /\ escrowInLnd' = escrowInLnd
      /\ stops' = stops
  BY Zenon DEF addLndRoutingRevenue
<1>2. /\ today \in Nat /\ last \in Nat /\ end \in Nat /\ Days \subseteq Nat
      /\ stops \in Nat /\ failures \in 0..MaxFailures /\ MaxFailures \in Nat
      /\ fees \in [Days -> 0..MaxFee] /\ MaxFee \in Nat /\ revenue \in [Days -> Nat]
      /\ unbooked \subseteq Days
  BY DEF BooksInv, BooksTypes, Bounds, TypeOK, Days
<1>3. day \in D
  <2>1. D # {} /\ D \subseteq Nat
    BY <1>1, <1>2, Zenon DEF Nothing
  <2> QED
    BY <2>1, LeastNatural, Zenon DEF Min
<1>4. /\ day \in Days /\ day \in Nat /\ last <= day /\ day + 2 <= end /\ end <= today
      /\ forwards[day] = fees[day] /\ fees[day] \in Nat /\ fees[day] > 0
  BY <1>1, <1>2, <1>3 DEF BooksInv, Reading
<1>5. forwards' \in [D \ {day} -> 1..MaxFee] /\ \A d \in D \ {day} : forwards'[d] = forwards[d]
  BY <1>1, Zenon
<1>6. \A d \in Days : Covered(d)' <=> Covered(d) \/ d = day
  BY <1>1, <1>2, <1>4, <1>5, Zenon DEF Covered
<1>7. ~ Covered(day)
  BY <1>2, <1>3, <1>4 DEF Covered
<1>8. \A d \in Days : revenue'[d] \in Nat /\ (revenue'[d] = revenue[d] \/ d = day)
  BY <1>1, <1>2, <1>4
<1>9. BooksTypes'
  <2>1. revenue' \in [Days -> Nat]
    BY <1>1, <1>2, <1>4
  <2>2. \E E \in SUBSET Days : forwards' \in [E -> 1..MaxFee]
    BY <1>5, Zenon
  <2>3. unbooked' \subseteq Days /\ failures' \in 0..MaxFailures
    <3>1. unbooked' = unbooked \/ unbooked' = unbooked \cup {day}
      BY <1>1, Zenon
    <3>2. failures' = failures \/ (failures < MaxFailures /\ failures' = failures + 1)
      BY <1>1, Zenon
    <3>3. unbooked' \subseteq Days
      BY <1>2, <1>4, <3>1, Zenon
    <3> QED
      BY <1>2, <3>2, <3>3
  <2>4. escrow' = escrow /\ booked' = booked /\ moves' = moves
    BY <1>1, Zenon DEF escrowVars
  <2> QED
    BY <1>1, <2>1, <2>2, <2>3, <2>4, Zenon DEF BooksInv, BooksTypes, TypeOK
<1>10. Reading'
  <2>1. \A d \in Days : today <= d + 1 => d # day
    BY <1>2, <1>4
  <2>2. \A d \in Days : today' <= d + 1 => revenue'[d] = 0
    BY <1>1, <1>8, <2>1, Zenon DEF BooksInv, Reading
  <2>3. \A d \in D \ {day} : last <= d /\ d + 2 <= end /\ forwards'[d] = fees[d]
    BY <1>1, <1>5, Zenon DEF BooksInv, Reading
  <2>4. last <= today /\ end <= today /\ last + 2 <= end
    BY <1>1, Zenon DEF BooksInv, Reading
  <2>5. DOMAIN forwards' = D \ {day}
    BY <1>5, Zenon
  <2>6. last' <= today' /\ end' <= today' /\ last' + 2 <= end' /\ cron' = "record"
    BY <1>1, <2>4, Zenon
  <2>7. \A d \in DOMAIN forwards' : last' <= d /\ d + 2 <= end' /\ forwards'[d] = fees'[d]
    BY <1>1, <2>3, <2>5, Zenon
  <2> QED
    BY <2>2, <2>6, <2>7, Zenon DEF Reading
<1>11. BookedInFull'
  <2> SUFFICES ASSUME NEW d \in Days
               PROVE  \E n \in Nat : Bookings(d, n)' /\ revenue'[d] = n * fees'[d]
    BY Zenon DEF BookedInFull
  <2>1. PICK n \in Nat : Bookings(d, n) /\ revenue[d] = n * fees[d]
    BY Zenon DEF BooksInv, BookedInFull
  <2>2. failures \in Nat /\ failures' \in Nat /\ (failures' = failures \/ failures' = failures + 1)
    BY <1>1, <1>2
  <2>3. Bookings(d, n)'
    <3>1. CASE failures' = failures
      <4>1. Covered(d) => Covered(d)'
        BY <1>6, Zenon
      <4> QED
        BY <1>1, <2>1, <3>1, <4>1, BookingsKept, Zenon
    <3>2. CASE failures' = failures + 1
      <4>1. n <= stops + failures \/ n <= 1 + stops + failures
        BY <2>1, Zenon DEF Bookings
      <4>2. stops' + failures' = stops + failures + 1 /\ stops' \in Nat
        BY <1>1, <1>2, <2>2, <3>2
      <4>3. n <= stops' + failures'
        BY <1>2, <2>2, <4>1, <4>2, OneMore, Zenon
      <4> QED
        BY <4>3, Zenon DEF Bookings
    <3> QED
      BY <2>2, <3>1, <3>2, Zenon
  <2>4. CASE revenue'[d] = revenue[d]
    BY <1>1, <2>1, <2>3, <2>4, Zenon
  <2>5. CASE revenue'[d] # revenue[d]
    <3>1. /\ d = day /\ failures' = failures /\ revenue'[d] = revenue[d] + fees[d]
      BY <1>1, <1>2, <1>4, <2>5, ZenonT(60)
    <3>2. Bookings(d, n + 1)'
      <4>1. n <= stops + failures
        BY <1>7, <2>1, <3>1, Zenon DEF Bookings
      <4>2. n + 1 <= 1 + stops + failures
        BY <1>2, <2>2, <4>1, NextNumber, Zenon
      <4>3. Covered(d)' /\ stops' = stops
        BY <1>1, <1>6, <3>1, Zenon
      <4> QED
        BY <3>1, <4>2, <4>3, Zenon DEF Bookings
    <3>3. revenue'[d] = (n + 1) * fees'[d]
      <4>1. fees[d] \in Nat /\ n * fees[d] + fees[d] = (n + 1) * fees[d]
        BY <1>4, <3>1
      <4> QED
        BY <1>1, <2>1, <3>1, <4>1, Zenon
    <3> QED
      BY <3>2, <3>3
  <2> QED
    BY <2>4, <2>5, Zenon
<1>12. EvesSkipped'
  <2> SUFFICES ASSUME NEW d \in Days, Covered(d)', fees'[d] > 0, revenue'[d] = 0
               PROVE  d \in unbooked' \/ d + 1 \in stored'
    BY Zenon DEF EvesSkipped
  <2>1. CASE d = day
    BY <1>1, <1>2, <1>4, <2>1
  <2>2. CASE d # day
    BY <1>1, <1>6, <1>8, <2>2, Zenon DEF BooksInv, EvesSkipped
  <2> QED
    BY <2>1, <2>2, Zenon
<1> QED
  BY <1>9, <1>10, <1>11, <1>12, Zenon DEF BooksInv

\* A run stores its date, and so leaves out its eve.
LEMMA StoreStep ==
  ASSUME BooksInv, storeLastEntry
  PROVE  BooksInv'
<1>1. /\ cron = "record" /\ forwards = Nothing /\ last' = end /\ stored' = stored \cup {end}
      /\ cron' = "off" /\ end' = 0 /\ today' = today /\ fees' = fees /\ revenue' = revenue
      /\ unbooked' = unbooked /\ escrowVars' = escrowVars /\ escrowInLnd' = escrowInLnd
      /\ forwards' = forwards /\ stops' = stops /\ failures' = failures
  BY Zenon DEF storeLastEntry
<1>2. /\ today \in Nat /\ last \in Nat /\ end \in Nat /\ end \in Days /\ Days \subseteq Nat
      /\ 0 \in Days
  BY DEF BooksInv, BooksTypes, Bounds, TypeOK, Days
<1>3. last + 2 <= end /\ end <= today /\ DOMAIN forwards = {}
  BY <1>1, Zenon DEF BooksInv, Reading, Nothing
<1>4. \A d \in Days : (Covered(d)' <=> d < end) /\ (Covered(d) <=> d < last \/ d + 2 <= end)
  BY <1>1, <1>3, Zenon DEF Covered
<1>5. \A d \in Days : d \in Nat /\ (Covered(d) => Covered(d)') /\ (Covered(d)' => Covered(d) \/ d + 1 = end)
  BY <1>2, <1>3, <1>4
<1>6. BooksTypes'
  <2>1. escrow' = escrow /\ booked' = booked /\ moves' = moves
    BY <1>1, Zenon DEF escrowVars
  <2>2. cron' \in Tasks /\ stored' \subseteq Days
    BY <1>1, <1>2, Zenon DEF Tasks, BooksInv, BooksTypes, TypeOK
  <2> QED
    BY <1>1, <1>2, <2>1, <2>2, Zenon DEF BooksInv, BooksTypes, TypeOK
<1>7. Reading'
  BY <1>1, <1>2, <1>3 DEF BooksInv, Reading
<1>8. BookedInFull'
  <2>1. \A d \in Days, n \in Nat : Bookings(d, n) => Bookings(d, n)'
    BY <1>1, <1>5, BookingsKept, Zenon
  <2> QED
    BY <1>1, <2>1, Zenon DEF BooksInv, BookedInFull
<1>9. EvesSkipped'
  BY <1>1, <1>5, Zenon DEF BooksInv, EvesSkipped
<1> QED
  BY <1>6, <1>7, <1>8, <1>9, Zenon DEF BooksInv

\* Every step keeps the invariant of the node's books.
LEMMA BooksStep == BooksInv /\ [Next]_vars => BooksInv'
BY DayStep, EscrowStep, AbandonStep, ReadStep, RevenueStep, StoreStep, Zenon DEF Next, CronStep

\* The invariant holds in every state of NodeBooks.
LEMMA BooksAlways == Spec => []BooksInv
BY BooksInit, BooksStep, PTL DEF Spec

\* The variables of NodeBooks keep their types.
THEOREM BooksTypeCorrect == Spec => []TypeOK
<1>1. BooksInv => TypeOK
  BY Zenon DEF BooksInv, BooksTypes
<1> QED
  BY <1>1, BooksAlways, PTL

\* updateRoutingRevenues books a day with all that was earned on it, and more than
\* once only as often as runs have stopped or failed.
THEOREM DaysAreBookedInFull == Spec => []DayBookedInFull
<1>1. BooksInv => DayBookedInFull
  <2> SUFFICES ASSUME BooksInv, NEW d \in Days
               PROVE  \E n \in 0..(1 + stops + failures) : revenue[d] = n * fees[d]
    BY Zenon DEF DayBookedInFull
  <2>1. stops \in Nat /\ failures \in Nat
    BY DEF BooksInv, BooksTypes, Bounds, TypeOK
  <2>2. PICK n \in Nat : Bookings(d, n) /\ revenue[d] = n * fees[d]
    BY Zenon DEF BooksInv, BookedInFull
  <2>3. n <= stops + failures \/ n <= 1 + stops + failures
    BY <2>2, Zenon DEF Bookings
  <2>4. n \in 0..(1 + stops + failures)
    BY <2>1, <2>3
  <2> QED
    BY <2>2, <2>4, Zenon
<1> QED
  BY <1>1, BooksAlways, PTL

\* A day updateRoutingRevenues has passed over is one whose entry failed, or the
\* eve of a run.
THEOREM EvesAloneAreSkipped == Spec => []OnlyEvesSkipped
<1>1. BooksInv => OnlyEvesSkipped
  BY Zenon DEF BooksInv, EvesSkipped, Covered, OnlyEvesSkipped
<1> QED
  BY <1>1, BooksAlways, PTL

-----------------------------------------------------------------------------
(* The swaps *)

Spent == {k \in Swaps : swap[k] \in {"started", "success"}}

\* The channels hold what no swap has taken, or gave back.
Liquidity == IsFiniteSet(Spent) /\ outbound + SwapAmount * Cardinality(Spent) = Outbound

\* Call c of the handler is past its check of swap k.
Books(c, k) == handler[c] \in {"commit", "metadata"} /\ handled[c] = k

BookedOnce(k) ==
  /\ entries[k] \in {0, 1}
  /\ \A s, c \in Calls : Books(s, k) /\ Books(c, k) => s = c
  /\ \A c \in Calls : Books(c, k) => k \notin metadata
  /\ \A c \in Calls : Books(c, k) /\ handler[c] = "commit" => entries[k] = 0
  /\ entries[k] = 1 => k \in metadata \/ \E c \in Calls : Books(c, k)

SwapsInv ==
  /\ SwapBounds /\ SwapTypeOK /\ Liquidity
  /\ \A k \in Swaps : k \in cut \cup overlaps \/ BookedOnce(k)

\* The invariant of the swaps holds at first.
LEMMA SwapsInit == SwapInit => SwapsInv
<1> SUFFICES ASSUME SwapBounds, SwapInit PROVE SwapsInv
  BY SwapOutAssumption
<1>1. SwapTypeOK
  <2>1. /\ swap \in [Swaps -> {"none", "started", "success", "failed"}] /\ fee \in [Swaps -> BOOLEAN]
        /\ handler \in [Calls -> Points] /\ handled \in [Calls -> Swaps \cup {None}]
        /\ heard \in [Triggers -> SUBSET Swaps] /\ dropped \in [Triggers -> SUBSET Swaps]
        /\ hotLow \in BOOLEAN /\ listening \subseteq Triggers
    BY Zenon DEF SwapInit, Points
  <2>2. /\ entries \in [Swaps -> Nat] /\ outbound \in 0..Outbound /\ restarts \in 0..MaxRestarts
        /\ repeats \in 0..MaxRepeats /\ failedCalls \in 0..MaxFailedCalls
    BY DEF SwapInit, SwapBounds
  <2> QED
    BY <2>1, <2>2, Zenon DEF SwapInit, SwapTypeOK
<1>2. Spent = {}
  BY Zenon DEF SwapInit, Spent
<1>3. Liquidity
  BY <1>2, FS_EmptySet DEF Liquidity, SwapInit, SwapBounds
<1>4. \A k \in Swaps : BookedOnce(k)
  BY DEF SwapInit, BookedOnce, Books
<1> QED
  BY <1>1, <1>3, <1>4, Zenon DEF SwapsInv

\* A swap takes what it gives back if it fails.
LEMMA SwapTakes ==
  ASSUME NEW o \in Nat, NEW c \in Nat, NEW a \in Nat
  PROVE  /\ (o - a) + a * (c + 1) = o + a * c
         /\ (o + a) + a * (c - 1) = o + a * c
         /\ o <= o + a * c
OBVIOUS

\* The node and loopd, and the task that starts a swap.
LEMMA LoopStep ==
  ASSUME SwapsInv,
         \/ HotWalletDepleted \/ \E k \in Swaps : SwapEnds(k)
         \/ ReadBalances \/ swapOut \/ UNCHANGED swapVars
  PROVE  SwapsInv'
<1>1. bookVars' = bookVars /\ triggerVars' = triggerVars /\ faultVars' = faultVars
  BY Zenon DEF HotWalletDepleted, SwapEnds, ReadBalances, swapOut, swapVars
<1>2. /\ entries' = entries /\ metadata' = metadata /\ handler' = handler /\ handled' = handled
      /\ listening' = listening /\ heard' = heard /\ dropped' = dropped /\ overlaps' = overlaps
      /\ cut' = cut /\ restarts' = restarts /\ repeats' = repeats /\ failedCalls' = failedCalls
  BY <1>1, Zenon DEF bookVars, triggerVars, listenerVars, faultVars
<1>3. \A k \in Swaps : k \in cut' \cup overlaps' \/ BookedOnce(k)'
  BY <1>2 DEF SwapsInv, BookedOnce, Books
<1>4. /\ outbound \in Nat /\ SwapAmount \in Nat /\ Outbound \in Nat /\ IsFiniteSet(Spent)
      /\ swap \in [Swaps -> {"none", "started", "success", "failed"}] /\ fee \in [Swaps -> BOOLEAN]
      /\ hotLow \in BOOLEAN /\ task \in {"idle", "start"} /\ Cardinality(Spent) \in Nat
  BY FS_CardinalityType DEF SwapsInv, Liquidity, SwapBounds, SwapTypeOK
<1>5. /\ swap' \in [Swaps -> {"none", "started", "success", "failed"}] /\ fee' \in [Swaps -> BOOLEAN]
      /\ hotLow' \in BOOLEAN /\ task' \in {"idle", "start"}
  BY <1>4, Zenon DEF HotWalletDepleted, SwapEnds, ReadBalances, swapOut, swapVars, loopVars
<1>6. \/ outbound' = outbound /\ Spent' = Spent
      \/ \E k \in Swaps : /\ k \notin Spent /\ Spent' = Spent \cup {k}
                          /\ outbound >= SwapAmount /\ outbound' = outbound - SwapAmount
      \/ \E k \in Swaps : k \in Spent /\ Spent' = Spent \ {k} /\ outbound' = outbound + SwapAmount
  <2>1. CASE HotWalletDepleted
    BY <2>1, Zenon DEF HotWalletDepleted, Spent
  <2>2. ASSUME NEW k \in Swaps, SwapEnds(k)
        PROVE  \/ outbound' = outbound /\ Spent' = Spent
               \/ k \in Spent /\ Spent' = Spent \ {k} /\ outbound' = outbound + SwapAmount
    <3>1. CASE swap' = [swap EXCEPT ![k] = "success"] /\ outbound' = outbound
      BY <1>4, <2>2, <3>1, Zenon DEF SwapEnds, Spent
    <3>2. CASE swap' = [swap EXCEPT ![k] = "failed"] /\ outbound' = outbound + SwapAmount
      BY <1>4, <2>2, <3>2, Zenon DEF SwapEnds, Spent
    <3> QED
      BY <2>2, <3>1, <3>2, Zenon DEF SwapEnds
  <2>3. CASE ReadBalances \/ UNCHANGED swapVars
    BY <2>3, Zenon DEF ReadBalances, swapVars, loopVars, Spent
  <2>4. CASE swapOut
    <3>1. CASE outbound' = outbound /\ swap' = swap
      BY <3>1, Zenon DEF Spent
    <3>2. ASSUME NEW k \in Swaps, swap[k] = "none", swap' = [swap EXCEPT ![k] = "started"],
                 outbound >= SwapAmount, outbound' = outbound - SwapAmount
          PROVE  k \notin Spent /\ Spent' = Spent \cup {k}
      BY <1>4, <3>2, Zenon DEF Spent
    <3> QED
      BY <2>4, <3>1, <3>2, Zenon DEF swapOut
  <2> QED
    BY <2>1, <2>2, <2>3, <2>4, Zenon
<1>7. Liquidity' /\ outbound' \in Nat
  <2>1. outbound + SwapAmount * Cardinality(Spent) = Outbound
    BY Zenon DEF SwapsInv, Liquidity
  <2>2. CASE outbound' = outbound /\ Spent' = Spent
    BY <1>4, <2>1, <2>2, Zenon DEF Liquidity
  <2>3. ASSUME NEW k \in Swaps, k \notin Spent, Spent' = Spent \cup {k}, outbound >= SwapAmount,
               outbound' = outbound - SwapAmount
        PROVE  Liquidity' /\ outbound' \in Nat
    <3>1. IsFiniteSet(Spent') /\ Cardinality(Spent') = Cardinality(Spent) + 1
      BY <1>4, <2>3, FS_AddElement, Zenon
    <3>2. (outbound - SwapAmount) + SwapAmount * (Cardinality(Spent) + 1) = Outbound
      BY <1>4, <2>1, SwapTakes, ZenonT(60)
    <3> QED
      BY <1>4, <2>3, <3>1, <3>2 DEF Liquidity
  <2>4. ASSUME NEW k \in Swaps, k \in Spent, Spent' = Spent \ {k}, outbound' = outbound + SwapAmount
        PROVE  Liquidity' /\ outbound' \in Nat
    <3>1. IsFiniteSet(Spent') /\ Cardinality(Spent') = Cardinality(Spent) - 1
      BY <1>4, <2>4, FS_RemoveElement, Zenon
    <3>2. (outbound + SwapAmount) + SwapAmount * (Cardinality(Spent) - 1) = Outbound
      BY <1>4, <2>1, SwapTakes, ZenonT(60)
    <3> QED
      BY <1>4, <2>4, <3>1, <3>2 DEF Liquidity
  <2> QED
    BY <1>6, <2>2, <2>3, <2>4, Zenon
<1>8. outbound' \in 0..Outbound
  <2>1. IsFiniteSet(Spent') /\ outbound' + SwapAmount * Cardinality(Spent') = Outbound
    BY <1>7, Zenon DEF Liquidity
  <2>2. Cardinality(Spent') \in Nat
    BY <2>1, FS_CardinalityType, Zenon
  <2>3. outbound' <= outbound' + SwapAmount * Cardinality(Spent')
    BY <1>4, <1>7, <2>2, SwapTakes, Zenon
  <2> QED
    BY <1>4, <1>7, <2>1, <2>3
<1>9. SwapTypeOK'
  BY <1>2, <1>5, <1>8, Zenon DEF SwapsInv, SwapTypeOK
<1> QED
  BY <1>3, <1>7, <1>9, Zenon DEF SwapsInv

\* The types of what the triggers change.
TriggerTypes ==
  /\ entries \in [Swaps -> Nat] /\ metadata \subseteq Swaps /\ listening \subseteq Triggers
  /\ heard \in [Triggers -> SUBSET Swaps] /\ dropped \in [Triggers -> SUBSET Swaps]
  /\ handler \in [Calls -> Points] /\ handled \in [Calls -> Swaps \cup {None}]
  /\ \A c \in Calls : handler[c] # "idle" => handled[c] \in Swaps
  /\ overlaps \subseteq Swaps /\ cut \subseteq Swaps
  /\ restarts \in 0..MaxRestarts /\ repeats \in 0..MaxRepeats /\ failedCalls \in 0..MaxFailedCalls

FeesOnce == \A k \in Swaps : k \in cut \cup overlaps \/ BookedOnce(k)

\* A step of a trigger keeps the rest of the invariant if it keeps these types and
\* the count of the entries.
LEMMA TriggerKeeps ==
  ASSUME SwapsInv, loopVars' = loopVars, task' = task, TriggerTypes', FeesOnce'
  PROVE  SwapsInv'
<1>1. outbound' = outbound /\ hotLow' = hotLow /\ swap' = swap /\ fee' = fee
  BY Zenon DEF loopVars
<1>2. Liquidity'
  BY <1>1, Zenon DEF SwapsInv, Liquidity, Spent
<1>3. SwapTypeOK'
  BY <1>1, Zenon DEF SwapsInv, SwapTypeOK, TriggerTypes
<1> QED
  BY <1>2, <1>3, Zenon DEF SwapsInv, FeesOnce

\* What the invariant says of the triggers.
LEMMA TriggersTyped == SwapsInv => TriggerTypes /\ FeesOnce
BY Zenon DEF SwapsInv, SwapTypeOK, TriggerTypes, FeesOnce

\* Calls that end before their entry, or that leave an entry without metadata and
\* are noted for it, keep the count of the entries.
LEMMA CallsEnd ==
  ASSUME TriggerTypes, FeesOnce, NEW C \in SUBSET Calls,
         entries' = entries, metadata' = metadata, overlaps' = overlaps, cut' = cut \cup CutOff(C),
         \A c \in C : handler'[c] = "idle",
         \A c \in Calls \ C : handler'[c] = handler[c] /\ handled'[c] = handled[c]
  PROVE  cut' \subseteq Swaps /\ FeesOnce'
<1>1. \A c \in C : handler[c] = "metadata" => handled[c] \in CutOff(C)
  BY Zenon DEF CutOff
<1>2. CutOff(C) \subseteq Swaps
  <2>1. SUFFICES ASSUME NEW c \in C, handler[c] = "metadata" PROVE handled[c] \in Swaps
    BY Zenon DEF CutOff
  <2>2. c \in Calls /\ handler[c] # "idle"
    BY <2>1, Zenon
  <2> QED
    BY <2>2, Zenon DEF TriggerTypes
<1>3. \A k \in Swaps, c \in C : ~ Books(c, k)'
  BY Zenon DEF Books
<1>4. \A k \in Swaps, c \in Calls \ C : Books(c, k)' <=> Books(c, k)
  BY Zenon DEF Books
<1>5. ASSUME NEW k \in Swaps, k \notin cut' \cup overlaps'
      PROVE  BookedOnce(k)'
  <2>1. BookedOnce(k) /\ k \notin CutOff(C)
    BY <1>5, Zenon DEF FeesOnce
  <2>2. \A c \in C : Books(c, k) => handler[c] = "commit" /\ entries[k] = 0
    BY <1>1, <2>1, Zenon DEF BookedOnce, Books
  <2>3. entries[k] = 1 => k \in metadata \/ \E c \in Calls \ C : Books(c, k)
    BY <2>1, <2>2, SMT DEF BookedOnce
  <2>4. \A c \in Calls : Books(c, k)' => c \notin C /\ Books(c, k) /\ handler'[c] = handler[c]
    BY <1>3, <1>4, Zenon
  <2> QED
    BY <1>4, <2>1, <2>3, <2>4, Zenon DEF BookedOnce
<1> QED
  BY <1>2, <1>5, Zenon DEF FeesOnce, TriggerTypes

\* A call that starts has booked nothing.
LEMMA ReportStep ==
  ASSUME SwapsInv, NEW t \in Triggers, NEW k \in Swaps, handleSwapOutCompleted(t, k)
  PROVE  SwapsInv'
<1> USE DEF Points
<1>1. TriggerTypes /\ FeesOnce
  BY TriggersTyped, Zenon
<1>2. /\ loopVars' = loopVars /\ task' = task /\ entries' = entries /\ metadata' = metadata
      /\ listening' = listening /\ dropped' = dropped /\ overlaps' = overlaps /\ cut' = cut
      /\ restarts' = restarts /\ failedCalls' = failedCalls
      /\ heard' = [heard EXCEPT ![t] = @ \cup {k}]
  BY Zenon DEF handleSwapOutCompleted, bookVars
<1>3. repeats' \in 0..MaxRepeats
  <2>1. repeats \in 0..MaxRepeats /\ MaxRepeats \in Nat
    BY <1>1, Zenon DEF SwapsInv, SwapBounds, TriggerTypes
  <2>2. repeats' = repeats \/ (repeats < MaxRepeats /\ repeats' = repeats + 1)
    BY Zenon DEF handleSwapOutCompleted
  <2> QED
    BY <2>1, <2>2
<1>4. \/ handler' = handler /\ handled' = handled
      \/ \E c \in Calls : /\ handler[c] = "idle" /\ handler' = [handler EXCEPT ![c] = "check"]
                          /\ handled' = [handled EXCEPT ![c] = k]
  BY Zenon DEF handleSwapOutCompleted, Calls
<1>5. heard' \in [Triggers -> SUBSET Swaps]
  BY <1>1, <1>2, ZenonT(60) DEF TriggerTypes
<1>6. CASE handler' = handler /\ handled' = handled
  <2>1. FeesOnce'
    BY <1>1, <1>2, <1>6, SMT DEF FeesOnce, BookedOnce, Books
  <2> QED
    BY <1>1, <1>2, <1>3, <1>5, <1>6, <2>1, TriggerKeeps, Zenon DEF TriggerTypes
<1>7. ASSUME NEW c \in Calls, handler[c] = "idle", handler' = [handler EXCEPT ![c] = "check"],
             handled' = [handled EXCEPT ![c] = k]
      PROVE  SwapsInv'
  <2>1. \A j \in Swaps, s \in Calls : Books(s, j)' <=> Books(s, j)
    BY <1>1, <1>7, Zenon DEF TriggerTypes, Books
  <2>2. \A s \in Calls : handler'[s] = "commit" <=> handler[s] = "commit"
    BY <1>1, <1>7, Zenon DEF TriggerTypes
  <2>3. FeesOnce'
    BY <1>1, <1>2, <2>1, <2>2, Zenon DEF FeesOnce, BookedOnce
  <2>4. handler' \in [Calls -> Points] /\ handled' \in [Calls -> Swaps \cup {None}]
    BY <1>1, <1>7, ZenonT(60) DEF TriggerTypes
  <2>5. \A s \in Calls : handler'[s] # "idle" => handled'[s] \in Swaps
    BY <1>1, <1>7, Zenon DEF TriggerTypes
  <2> QED
    BY <1>1, <1>2, <1>3, <1>5, <2>3, <2>4, <2>5, TriggerKeeps, Zenon DEF TriggerTypes
<1> QED
  BY <1>4, <1>6, <1>7, Zenon

\* A call that finds metadata ends; one that finds none goes on to book, and is noted
\* if another one does.
LEMMA CheckStep ==
  ASSUME SwapsInv, NEW c \in Calls, findByHash(c)
  PROVE  SwapsInv'
<1> USE DEF Points
<1>1. TriggerTypes /\ FeesOnce
  BY TriggersTyped, Zenon
<1>2. /\ loopVars' = loopVars /\ task' = task /\ entries' = entries /\ metadata' = metadata
      /\ listening' = listening /\ heard' = heard /\ dropped' = dropped /\ cut' = cut
      /\ restarts' = restarts /\ repeats' = repeats /\ failedCalls' = failedCalls /\ handler[c] = "check"
  BY Zenon DEF findByHash, bookVars, listenerVars
<1>3. handled[c] \in Swaps
  BY <1>1, <1>2, Zenon DEF TriggerTypes
<1>4. CASE handled[c] \in metadata
  <2>1. /\ handler' = [handler EXCEPT ![c] = "idle"] /\ handled' = [handled EXCEPT ![c] = None]
        /\ overlaps' = overlaps
    BY <1>4, Zenon DEF findByHash, Ends
  <2>2. \A k \in Swaps, s \in Calls : Books(s, k)' <=> Books(s, k)
    BY <1>1, <1>2, <2>1, Zenon DEF Books, TriggerTypes
  <2>3. \A s \in Calls : handler'[s] = "commit" <=> handler[s] = "commit"
    BY <1>1, <1>2, <2>1, Zenon DEF TriggerTypes
  <2>4. FeesOnce'
    BY <1>1, <1>2, <2>1, <2>2, <2>3, Zenon DEF FeesOnce, BookedOnce
  <2>5. handler' \in [Calls -> Points] /\ handled' \in [Calls -> Swaps \cup {None}]
    BY <1>1, <2>1, ZenonT(60) DEF TriggerTypes
  <2>6. \A s \in Calls : handler'[s] # "idle" => handled'[s] \in Swaps
    BY <1>1, <2>1, Zenon DEF TriggerTypes
  <2> QED
    BY <1>1, <1>2, <2>1, <2>4, <2>5, <2>6, TriggerKeeps, Zenon DEF TriggerTypes
<1>5. CASE handled[c] \notin metadata
  <2>1. /\ handler' = [handler EXCEPT ![c] = "commit"] /\ handled' = handled
        /\ overlaps' = IF Booking(handled[c]) # {} THEN overlaps \cup {handled[c]} ELSE overlaps
    BY <1>5, Zenon DEF findByHash
  <2>2. \A k \in Swaps, s \in Calls : Books(s, k)' <=> Books(s, k) \/ (s = c /\ k = handled[c])
    BY <1>1, <1>2, <2>1, Zenon DEF Books, TriggerTypes
  <2>3. \A s \in Calls \ {c} : handler'[s] = handler[s]
    BY <1>1, <2>1, Zenon DEF TriggerTypes
  <2>4. Booking(handled[c]) = {} => \A s \in Calls : ~ Books(s, handled[c])
    BY Zenon DEF Booking, Books
  <2>5. ASSUME NEW k \in Swaps, k \notin cut' \cup overlaps'
        PROVE  BookedOnce(k)'
    <3>1. BookedOnce(k)
      BY <1>1, <1>2, <2>1, <2>5, Zenon DEF FeesOnce
    <3>2. CASE k = handled[c]
      <4>1. \A s \in Calls : ~ Books(s, k)
        BY <2>1, <2>4, <2>5, <3>2, Zenon
      <4>2. entries[k] = 0
        BY <1>5, <3>1, <3>2, <4>1, Zenon DEF BookedOnce
      <4> QED
        BY <1>2, <1>5, <2>2, <3>2, <4>1, <4>2, Zenon DEF BookedOnce
    <3>3. CASE k # handled[c]
      <4>1. \A s \in Calls : Books(s, k)' <=> Books(s, k)
        BY <2>2, <3>3, Zenon
      <4>2. \A s \in Calls : Books(s, k) => s # c
        BY <3>3, Zenon DEF Books
      <4> QED
        BY <1>2, <2>3, <3>1, <4>1, <4>2, Zenon DEF BookedOnce
    <3> QED
      BY <3>2, <3>3, Zenon
  <2>6. handler' \in [Calls -> Points] /\ overlaps' \subseteq Swaps
    BY <1>1, <1>3, <2>1, Zenon DEF TriggerTypes
  <2>7. \A s \in Calls : handler'[s] # "idle" => handled'[s] \in Swaps
    BY <1>1, <1>3, <2>1, Zenon DEF TriggerTypes
  <2> QED
    BY <1>1, <1>2, <2>1, <2>5, <2>6, <2>7, TriggerKeeps, Zenon DEF TriggerTypes, FeesOnce
<1> QED
  BY <1>4, <1>5, Zenon

\* A call commits the entry, and persists its metadata.
LEMMA CommitStep ==
  ASSUME SwapsInv, NEW c \in Calls, commit(c) \/ persistAll(c)
  PROVE  SwapsInv'
<1> USE DEF Points
<1>1. TriggerTypes /\ FeesOnce
  BY TriggersTyped, Zenon
<1>2. /\ loopVars' = loopVars /\ task' = task /\ listening' = listening /\ heard' = heard
      /\ dropped' = dropped /\ overlaps' = overlaps /\ cut' = cut /\ restarts' = restarts
      /\ repeats' = repeats /\ failedCalls' = failedCalls
  BY Zenon DEF commit, persistAll, listenerVars, faultVars
<1> PICK h : h = handled[c]
  OBVIOUS
<1>3. h \in Swaps /\ Books(c, h)
  BY <1>1, Zenon DEF commit, persistAll, Books, TriggerTypes
<1>4. /\ handler' \in [Calls -> Points] /\ handled' \in [Calls -> Swaps \cup {None}]
      /\ \A s \in Calls \ {c} : handler'[s] = handler[s] /\ handled'[s] = handled[s]
  BY <1>1, ZenonT(60) DEF commit, persistAll, Ends, TriggerTypes
<1>5. \A s \in Calls \ {c}, k \in Swaps : Books(s, k)' <=> Books(s, k)
  BY <1>4, Zenon DEF Books
<1>6. \A s \in Calls : handler'[s] # "idle" => handled'[s] \in Swaps
  <2>1. handler'[c] # "idle" => handled'[c] = h
    BY <1>1, Zenon DEF commit, persistAll, Ends, TriggerTypes
  <2> QED
    BY <1>1, <1>3, <1>4, <2>1, Zenon DEF TriggerTypes
<1>7. entries' \in [Swaps -> Nat] /\ metadata' \subseteq Swaps
  BY <1>1, <1>3 DEF commit, persistAll, TriggerTypes
<1>8. ASSUME NEW k \in Swaps, k \notin cut' \cup overlaps'
      PROVE  BookedOnce(k)'
  <2>1. BookedOnce(k)
    BY <1>1, <1>2, <1>8, Zenon DEF FeesOnce
  <2>2. CASE k # h
    <3>1. entries'[k] = entries[k] /\ (k \in metadata' <=> k \in metadata)
      BY <1>1, <1>3, <2>2, Zenon DEF commit, persistAll, TriggerTypes
    <3>2. ~ Books(c, k) /\ ~ Books(c, k)'
      <4>1. handled'[c] = h \/ handler'[c] = "idle"
        BY <1>1, Zenon DEF commit, persistAll, Ends, TriggerTypes
      <4> QED
        BY <2>2, <4>1, Zenon DEF Books
    <3> QED
      BY <1>4, <1>5, <2>1, <3>1, <3>2, Zenon DEF BookedOnce
  <2>3. CASE k = h /\ commit(c)
    <3>1. handler[c] = "commit" /\ handler'[c] = "metadata" /\ metadata' = metadata /\ handled' = handled
      BY <1>1, <2>3, Zenon DEF commit, TriggerTypes
    <3>2. entries[k] = 0 /\ k \notin metadata
      BY <1>3, <2>1, <2>3, <3>1, Zenon DEF BookedOnce
    <3>3. entries'[k] = 1
      BY <1>1, <2>3, <3>2 DEF commit, TriggerTypes
    <3>4. Books(c, k)' /\ \A s \in Calls \ {c} : ~ Books(s, k)
      BY <1>3, <2>1, <2>3, <3>1, Zenon DEF BookedOnce, Books
    <3>5. \A s \in Calls : Books(s, k)' => s = c
      BY <1>5, <3>4, Zenon
    <3> QED
      BY <3>1, <3>2, <3>3, <3>4, <3>5, Zenon DEF BookedOnce
  <2>4. CASE k = h /\ persistAll(c)
    <3>1. handler'[c] = "idle" /\ metadata' = metadata \cup {k} /\ entries' = entries
      BY <1>1, <2>4, Zenon DEF persistAll, Ends, TriggerTypes
    <3>2. ~ Books(c, k)' /\ \A s \in Calls \ {c} : ~ Books(s, k)
      BY <1>3, <2>1, <2>4, <3>1, Zenon DEF BookedOnce, Books
    <3>3. \A s \in Calls : ~ Books(s, k)'
      BY <1>5, <3>2, Zenon
    <3> QED
      BY <2>1, <3>1, <3>3, Zenon DEF BookedOnce
  <2> QED
    BY <2>2, <2>3, <2>4, Zenon
<1> QED
  BY <1>1, <1>2, <1>4, <1>6, <1>7, <1>8, TriggerKeeps, Zenon DEF TriggerTypes, FeesOnce

\* A call that fails ends.
LEMMA FailStep ==
  ASSUME SwapsInv, NEW c \in Calls, CallFails(c)
  PROVE  SwapsInv'
<1> USE DEF Points
<1>1. TriggerTypes /\ FeesOnce
  BY TriggersTyped, Zenon
<1>2. /\ loopVars' = loopVars /\ task' = task /\ entries' = entries /\ metadata' = metadata
      /\ listening' = listening /\ heard' = heard /\ overlaps' = overlaps /\ cut' = cut \cup CutOff({c})
      /\ restarts' = restarts /\ repeats' = repeats
      /\ handler' = [handler EXCEPT ![c] = "idle"] /\ handled' = [handled EXCEPT ![c] = None]
      /\ dropped' = [dropped EXCEPT ![c[1]] = @ \cup {handled[c]}] /\ handler[c] # "idle"
  BY Zenon DEF CallFails, Ends, bookVars
<1>3. failedCalls' \in 0..MaxFailedCalls
  <2>1. failedCalls \in 0..MaxFailedCalls /\ MaxFailedCalls \in Nat
    BY <1>1, Zenon DEF SwapsInv, SwapBounds, TriggerTypes
  <2> QED
    BY <2>1 DEF CallFails
<1>4. handled[c] \in Swaps /\ c[1] \in Triggers
  BY <1>1, <1>2, Zenon DEF TriggerTypes, Calls
<1>5. dropped' \in [Triggers -> SUBSET Swaps]
  BY <1>1, <1>2, <1>4, ZenonT(60) DEF TriggerTypes
<1>6. /\ handler' \in [Calls -> Points] /\ handled' \in [Calls -> Swaps \cup {None}]
      /\ handler'[c] = "idle"
      /\ \A s \in Calls \ {c} : handler'[s] = handler[s] /\ handled'[s] = handled[s]
  BY <1>1, <1>2, ZenonT(60) DEF TriggerTypes
<1>7. cut' \subseteq Swaps /\ FeesOnce'
  <2>1. {c} \in SUBSET Calls /\ \A s \in {c} : handler'[s] = "idle"
    BY <1>6, Zenon
  <2> QED
    BY <1>1, <1>2, <1>6, <2>1, CallsEnd, Zenon
<1>8. \A s \in Calls : handler'[s] # "idle" => handled'[s] \in Swaps
  BY <1>1, <1>6, Zenon DEF TriggerTypes
<1> QED
  BY <1>1, <1>2, <1>3, <1>5, <1>6, <1>7, <1>8, TriggerKeeps, Zenon DEF TriggerTypes

\* A trigger that stops ends all its calls; a listener opens or closes.
LEMMA ListenerStep ==
  ASSUME SwapsInv, NEW t \in Triggers, Restart(t) \/ StreamEnds(t)
  PROVE  SwapsInv'
<1> USE DEF Points
<1>1. TriggerTypes /\ FeesOnce
  BY TriggersTyped, Zenon
<1>2. CASE Restart(t)
  <2>1. /\ loopVars' = loopVars /\ task' = task /\ entries' = entries /\ metadata' = metadata
        /\ overlaps' = overlaps /\ repeats' = repeats /\ failedCalls' = failedCalls
        /\ handler' = [c \in Calls |-> IF c[1] = t THEN "idle" ELSE handler[c]]
        /\ handled' = [c \in Calls |-> IF c[1] = t THEN None ELSE handled[c]]
        /\ cut' = cut \cup CutOff({t} \X Slots)
    BY <1>2, Zenon DEF Restart, Stops, bookVars
  <2>2. restarts' \in 0..MaxRestarts
    <3>1. restarts \in 0..MaxRestarts /\ MaxRestarts \in Nat
      BY <1>1, Zenon DEF SwapsInv, SwapBounds, TriggerTypes
    <3> QED
      BY <1>2, <3>1 DEF Restart
  <2>3. /\ heard' \in [Triggers -> SUBSET Swaps] /\ dropped' \in [Triggers -> SUBSET Swaps]
        /\ listening' \subseteq Triggers
    BY <1>1, <1>2, ZenonT(60) DEF Restart, TriggerTypes
  <2>4. \A c \in Calls : c \in {t} \X Slots <=> c[1] = t
    BY SMT DEF Calls
  <2>5. /\ {t} \X Slots \in SUBSET Calls
        /\ \A c \in {t} \X Slots : handler'[c] = "idle"
        /\ \A c \in Calls \ ({t} \X Slots) : handler'[c] = handler[c] /\ handled'[c] = handled[c]
    <3>1. {t} \X Slots \in SUBSET Calls
      BY SMT DEF Calls
    <3> QED
      BY <2>1, <2>4, <3>1, Zenon
  <2>6. handler' \in [Calls -> Points] /\ handled' \in [Calls -> Swaps \cup {None}]
    BY <1>1, <2>1, ZenonT(60) DEF TriggerTypes
  <2>7. cut' \subseteq Swaps /\ FeesOnce'
    BY <1>1, <2>1, <2>5, CallsEnd, Zenon
  <2>8. \A s \in Calls : handler'[s] # "idle" => handled'[s] \in Swaps
    BY <1>1, <2>5, Zenon DEF TriggerTypes
  <2> QED
    BY <1>1, <2>1, <2>2, <2>3, <2>6, <2>7, <2>8, TriggerKeeps, Zenon DEF TriggerTypes
<1>3. CASE StreamEnds(t)
  <2>1. /\ loopVars' = loopVars /\ task' = task /\ entries' = entries /\ metadata' = metadata
        /\ heard' = heard /\ dropped' = dropped /\ handler' = handler /\ handled' = handled
        /\ overlaps' = overlaps /\ cut' = cut /\ restarts' = restarts /\ repeats' = repeats
        /\ failedCalls' = failedCalls /\ listening' = listening \ {t}
    BY <1>3, Zenon DEF StreamEnds, bookVars, faultVars
  <2>2. FeesOnce'
    BY <1>1, <2>1, SMT DEF FeesOnce, BookedOnce, Books
  <2> QED
    BY <1>1, <2>1, <2>2, TriggerKeeps, Zenon DEF TriggerTypes
<1> QED
  BY <1>2, <1>3, Zenon

\* Every step keeps the invariant of the swaps.
LEMMA SwapsStep == SwapsInv /\ [SwapNext]_swapVars => SwapsInv'
<1>1. \A t \in Triggers : {t} \X Slots \subseteq Calls
  BY SMT DEF Calls
<1> QED
  BY <1>1, LoopStep, ReportStep, CheckStep, CommitStep, FailStep, ListenerStep, Zenon
     DEF SwapNext, TriggerStep, CallStep

\* The invariant holds in every state of SwapOut.
LEMMA SwapsAlways == SwapSpec => []SwapsInv
BY SwapsInit, SwapsStep, PTL DEF SwapSpec

\* The variables of SwapOut keep their types: in particular swaps never take more
\* than the channels hold, whatever swapOut has read.
THEOREM SwapsTypeCorrect == SwapSpec => []SwapTypeOK
<1>1. SwapsInv => SwapTypeOK
  BY Zenon DEF SwapsInv
<1> QED
  BY <1>1, SwapsAlways, PTL

\* addSwapFeeTxSend books the fee of a swap once, however many triggers listen and
\* however often each is told, unless a call was cut off before persistAll or two
\* calls checked before either had stored.
THEOREM SwapFeesOnce == SwapSpec => []SwapFeeOnce
<1>1. SwapsInv => SwapFeeOnce
  BY DEF SwapsInv, BookedOnce, SwapFeeOnce
<1> QED
  BY <1>1, SwapsAlways, PTL
=============================================================================
