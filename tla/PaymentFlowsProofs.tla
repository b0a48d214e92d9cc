------------------------- MODULE PaymentFlowsProofs -------------------------
(***************************************************************************)
(* What PaymentFlows promises for all sets of sends, wallets, prices and   *)
(* route fees: a closed Lightning payment leaves on the account of lnd     *)
(* what lnd spent, a payer gets back no more than was taken for the fee,   *)
(* the dealer is covered, a marked record has the amounts charged, and     *)
(* the ledger as a whole balances.  First the arithmetic of Amounts, then  *)
(* the flows the builder makes, the inductive invariant, every step, the   *)
(* marks of records, and the sum over the accounts.                        *)
(***************************************************************************)
EXTENDS PaymentFlows, TLAPS

-----------------------------------------------------------------------------
(* Divisions and conversions *)

\* Integer division, as TLA+ defines it for natural numbers.
LEMMA Division ==
  ASSUME NEW a \in Nat, NEW b \in Nat \ {0}
  PROVE  /\ a \div b \in Nat /\ a % b \in Nat /\ a % b < b
         /\ a = (a \div b) * b + (a % b)
OBVIOUS

\* divFloor: the largest quotient that does not exceed the fraction.
LEMMA Floor ==
  ASSUME NEW a \in Nat, NEW b \in Nat \ {0}
  PROVE  divFloor(a, b) \in Nat /\ divFloor(a, b) * b <= a
BY Division DEF divFloor

\* divCeil: the smallest quotient that is not below the fraction.
LEMMA Ceil ==
  ASSUME NEW a \in Nat, NEW b \in Nat \ {0}
  PROVE  divCeil(a, b) \in Nat /\ a <= divCeil(a, b) * b /\ divCeil(a, b) * b < a + b
BY Division DEF divCeil

\* divRound: a quotient at most half of the divisor away from the fraction.
LEMMA Round ==
  ASSUME NEW a \in Nat, NEW b \in Nat \ {0}
  PROVE  /\ divRound(a, b) \in Nat
         /\ 2 * (divRound(a, b) * b) < 2 * a + b
         /\ 2 * a <= 2 * (divRound(a, b) * b) + b
BY Division DEF divRound

\* Cancelling a factor, with less than half or a whole of it to spare.
LEMMA Cancel ==
  ASSUME NEW x \in Nat, NEW y \in Nat, NEW b \in Nat \ {0}, x * b < y * b + b
  PROVE  x <= y
<1>1. SUFFICES ASSUME x > y PROVE FALSE
  OBVIOUS
<1>2. x >= y + 1
  BY <1>1
<1>3. x * b >= (y + 1) * b
  BY <1>2
<1>4. (y + 1) * b = y * b + b
  OBVIOUS
<1> QED
  BY <1>3, <1>4

\* A pair of amounts as withConversion gives it: neither is zero, and the sats
\* are no fewer than the cents.
Ratio == {r \in [btc : Nat \ {0}, usd : Nat \ {0}] : r.usd <= r.btc}

\* The conversions of natural amounts.
LEMMA Conversions ==
  ASSUME NEW r \in Ratio, NEW n \in Nat
  PROVE  /\ convertFromUsd(r, n) \in Nat /\ convertFromBtc(r, n) \in Nat
         /\ convertFromBtcToFloor(r, n) \in Nat /\ convertFromBtcToCeil(r, n) \in Nat
         /\ n > 0 => convertFromUsd(r, n) >= n
         /\ n > 0 => convertFromBtc(r, n) \in 1..n
<1> DEFINE b == r.btc  u == r.usd
<1>1. /\ b \in Nat \ {0} /\ u \in Nat \ {0} /\ u <= b
      /\ n * b \in Nat /\ n * u \in Nat
  BY DEF Ratio
<1>2. convertFromBtcToFloor(r, n) \in Nat /\ convertFromBtcToCeil(r, n) \in Nat
  BY <1>1, Floor, Ceil, ZenonT(60) DEF convertFromBtcToFloor, convertFromBtcToCeil
<1>3. convertFromUsd(r, n) \in Nat /\ convertFromBtc(r, n) \in Nat
  BY <1>1, Round, ZenonT(60) DEF convertFromUsd, convertFromBtc, AtLeastOne
<1>4. ASSUME n > 0 PROVE convertFromUsd(r, n) >= n
  <2> DEFINE q == divRound(n * b, u)
  <2>1. q \in Nat /\ 2 * (n * b) <= 2 * (q * u) + u
    BY <1>1, Round, ZenonT(60)
  <2>2. n * u <= n * b
    BY <1>1
  <2>3. n * u < q * u + u
    <3> HIDE DEF q
    <3>1. q * u \in Nat /\ n * u \in Nat /\ n * b \in Nat
      BY <2>1, <1>1
    <3> QED BY <2>1, <2>2, <3>1, <1>1
  <2>4. n <= q
    <3> HIDE DEF q
    <3> QED BY <2>3, <2>1, <1>1, Cancel, Zenon
  <2> QED
    BY <2>4, <2>1, <1>4 DEF convertFromUsd, AtLeastOne
<1>5. ASSUME n > 0 PROVE convertFromBtc(r, n) \in 1..n
  <2> DEFINE q == divRound(n * u, b)
  <2>1. q \in Nat /\ 2 * (q * b) < 2 * (n * u) + b
    BY <1>1, Round, ZenonT(60)
  <2>2. n * u <= n * b
    BY <1>1
  <2>3. q * b < n * b + b
    <3> HIDE DEF q
    <3>1. q * b \in Nat /\ n * u \in Nat /\ n * b \in Nat
      BY <2>1, <1>1
    <3> QED BY <2>1, <2>2, <3>1, <1>1
  <2>4. q <= n
    <3> HIDE DEF q
    <3> QED BY <2>3, <2>1, <1>1, Cancel, Zenon
  <2> QED
    BY <2>4, <2>1, <1>5 DEF convertFromBtc, AtLeastOne
<1> QED
  BY <1>2, <1>3, <1>4, <1>5, Zenon

-----------------------------------------------------------------------------
(* Fees *)

\* A flow with a fee as the builder computes it: the cents cover the sats if the
\* fee was computed in sats, and fall short by less than half a sat's worth
\* otherwise.
Priced(f, inSats) ==
  /\ f.btc \in Nat \ {0} /\ f.usd \in Nat \ {0} /\ f.usd <= f.btc
  /\ f.btcFee \in Nat /\ f.usdFee \in Nat
  /\ IF inSats \/ f.routed THEN f.btcFee * f.usd <= f.usdFee * f.btc
                           ELSE 2 * (f.btcFee * f.usd) < 2 * (f.usdFee * f.btc) + f.usd

\* The reimbursement of a fee of which something is left: no more cents than were
\* taken, and what the dealer keeps covers the sats spent, up to a cent.
LEMMA Reimbursement ==
  ASSUME NEW f, NEW inSats \in BOOLEAN, Priced(f, inSats),
         NEW spent \in Nat, spent < f.btcFee,
         f.routed \in BOOLEAN
  PROVE  LET r == getReimbursement([btc |-> f.btc, usd |-> f.usd], f.btcFee, spent)
         IN  /\ r.btc = f.btcFee - spent /\ r.usd \in Nat /\ r.usd <= f.usdFee
             /\ spent * f.usd + r.usd * f.btc
                  <= f.usdFee * f.btc + (IF inSats THEN 0 ELSE f.btc - 1)
<1> DEFINE b == f.btc  u == f.usd  p == f.btcFee  q == f.usdFee
           ratio == [btc |-> b, usd |-> u]
           r == getReimbursement(ratio, p, spent)
           half == 2 * (p * u) < 2 * (q * b) + u
<1>1. /\ b \in Nat \ {0} /\ u \in Nat \ {0} /\ u <= b /\ p \in Nat /\ q \in Nat
      /\ p * u \in Nat /\ q * b \in Nat
  BY DEF Priced
<1>2. half /\ (inSats => p * u <= q * b)
  BY <1>1 DEF Priced
<1>3. r.btc = p - spent
  BY Zenon DEF getReimbursement
<1>4. ratio.btc = b /\ ratio.usd = u /\ ratio \in Ratio
  BY <1>1, Zenon DEF Ratio
<1>5. p * u >= u
  BY <1>1
<1>6. q >= 1
  <2>1. SUFFICES ASSUME q = 0 PROVE FALSE
    BY <1>1
  <2>2. q * b = 0
    BY <2>1, <1>1
  <2>3. 2 * (p * u) < u
    BY <2>2, <1>2, <1>1
  <2> HIDE DEF q, b, u, p
  <2> QED BY <2>3, <1>5, <1>1
<1>7. CASE spent = 0
  <2> DEFINE t == divRound(p * u, b)
  <2>1. r.usd = AtLeastOne(t)
    BY <1>7, <1>4, <1>1 DEF getReimbursement, convertFromBtc
  <2>2. t \in Nat /\ 2 * (t * b) < 2 * (p * u) + b
    BY <1>1, Round, ZenonT(60)
  <2>3. t <= q
    <3> HIDE DEF t, p, u, q, b
    <3>1. t * b \in Nat
      BY <2>2, <1>1
    <3>2. t * b < q * b + b
      BY <2>2, <1>2, <1>1, <3>1 DEF half
    <3> QED BY <3>2, <2>2, <1>1, Cancel, Zenon
  <2>4. r.usd \in Nat /\ r.usd <= q
    BY <2>1, <2>2, <2>3, <1>6, <1>1 DEF AtLeastOne
  <2>5. r.usd * b <= q * b
    <3> HIDE DEF r, q, b
    <3> QED BY <2>4, <1>1
  <2>6. spent * u = 0
    BY <1>7, <1>1
  <2> QED
    <3> HIDE DEF r
    <3>1. r.usd * b \in Nat
      BY <2>4, <1>1
    <3>2. spent * u + r.usd * b <= q * b + (IF inSats THEN 0 ELSE b - 1)
      BY <2>5, <2>6, <3>1, <1>1
    <3> QED BY <2>4, <3>2, <1>3, Zenon DEF r
<1>8. CASE spent > 0
  <2> DEFINE left == p - spent
  <2>1. left \in Nat /\ left * u \in Nat /\ spent * u \in Nat /\ left * u + spent * u = p * u
    BY <1>1
  <2>2. r.usd = divFloor(left * u, b)
    BY <1>8, <1>4 DEF getReimbursement, convertFromBtcToFloor
  <2>3. r.usd \in Nat /\ r.usd * b <= left * u
    BY <2>1, <2>2, <1>1, Floor, Zenon
  <2> HIDE DEF r, left
  <2>4. r.usd * b \in Nat
    BY <2>3, <1>1
  <2>5. spent * u + r.usd * b <= p * u
    BY <2>1, <2>3, <2>4
  <2>6. p * u <= q * b + (IF inSats THEN 0 ELSE b - 1)
    <3> HIDE DEF p, u, q, b
    <3> QED BY <1>1, <1>2 DEF half
  <2>7. spent * u + r.usd * b <= q * b + (IF inSats THEN 0 ELSE b - 1)
    BY <2>5, <2>6, <2>1, <2>4, <1>1
  <2>8. r.usd * b < q * b + b
    BY <2>7, <2>1, <2>4, <1>1
  <2>9. r.usd <= q
    BY <2>8, <2>3, <1>1, Cancel, Zenon
  <2> QED
    BY <2>3, <2>7, <2>9, <1>3, Zenon DEF r
<1> QED
  BY <1>7, <1>8

\* What is given back of a fee, be it nothing, leaves the dealer the cents for the sats
\* that were spent, up to a cent.
LEMMA FeeCovered ==
  ASSUME NEW f, NEW inSats \in BOOLEAN, Priced(f, inSats), f.routed \in BOOLEAN,
         NEW spent \in Nat, NEW g,
         \/ g = 0 /\ spent = f.btcFee
         \/ /\ spent < f.btcFee
            /\ g \in {0, getReimbursement([btc |-> f.btc, usd |-> f.usd], f.btcFee, spent).usd}
  PROVE  /\ g \in Nat /\ g <= f.usdFee
         /\ spent * f.usd + g * f.btc <= f.usdFee * f.btc + (IF inSats THEN 0 ELSE f.btc - 1)
<1> DEFINE b == f.btc  u == f.usd  p == f.btcFee  q == f.usdFee
           r == getReimbursement([btc |-> b, usd |-> u], p, spent)
<1>1. /\ b \in Nat \ {0} /\ u \in Nat \ {0} /\ u <= b /\ p \in Nat /\ q \in Nat
      /\ p * u \in Nat /\ q * b \in Nat
      /\ p * u <= q * b \/ (~inSats /\ 2 * (p * u) < 2 * (q * b) + u)
  BY DEF Priced
<1>2. CASE g = 0 /\ spent = p
  <2> HIDE DEF p, u, q, b
  <2>1. spent * u = p * u /\ g * b = 0
    BY <1>1, <1>2
  <2>2. p * u <= q * b + (IF inSats THEN 0 ELSE b - 1)
    BY <1>1
  <2> QED
    BY <1>1, <1>2, <2>1, <2>2 DEF p, u, q, b
<1>3. CASE spent < p /\ g \in {0, r.usd}
  <2>1. r.usd \in Nat /\ r.usd <= q /\ spent * u + r.usd * b <= q * b + (IF inSats THEN 0 ELSE b - 1)
    BY <1>3, Reimbursement, ZenonT(60)
  <2> HIDE DEF r, p, u, q, b
  <2>2. r.usd * b \in Nat /\ spent * u \in Nat
    BY <1>1, <2>1
  <2>3. CASE g = r.usd
    BY <2>1, <2>3, Zenon DEF p, u, q, b
  <2>4. CASE g = 0
    <3>1. g * b = 0
      BY <1>1, <2>4
    <3>2. spent * u + 0 <= q * b + (IF inSats THEN 0 ELSE b - 1)
      BY <1>1, <2>1, <2>2
    <3> QED
      BY <1>1, <2>4, <3>1, <3>2 DEF p, u, q, b
  <2> QED
    BY <1>3, <2>3, <2>4, Zenon
<1> QED
  BY <1>2, <1>3, Zenon

\* So the dealer is short of no more than that on the whole payment, and of nothing on a
\* payment that was given back.
LEMMA DealerShort ==
  ASSUME NEW b \in Nat \ {0}, NEW u \in Nat \ {0}, NEW q \in Nat, NEW c \in Nat, NEW g \in Nat,
         NEW slack \in Nat
  PROVE  /\ c * u + g * b <= q * b + slack => (b + c) * u - (u + q - g) * b <= slack
         /\ g \in {0, u + q} => 0 * u - (u + q - g) * b <= slack
<1>1. /\ (b + c) * u = b * u + c * u
      /\ (u + q - g) * b = u * b + q * b - g * b
      /\ b * u = u * b /\ b * u \in Nat /\ c * u \in Nat /\ q * b \in Nat /\ g * b \in Nat
  OBVIOUS
<1>2. ASSUME c * u + g * b <= q * b + slack PROVE (b + c) * u - (u + q - g) * b <= slack
  BY <1>1, <1>2
<1>3. ASSUME g \in {0, u + q} PROVE 0 * u - (u + q - g) * b <= slack
  <2>1. u + q - g \in Nat
    BY <1>3
  <2>2. (u + q - g) * b \in Nat
    BY <2>1
  <2> QED
    BY <2>2
<1> QED
  BY <1>2, <1>3, Zenon

\* EntryBuilder: the legs of an entry add up to nothing in sats and to nothing in
\* cents, whatever the currencies of its accounts and the fee of the bank; between
\* two USD accounts a fee in sats must come with one in cents.
THEOREM EntryBalances ==
  ASSUME NEW from \in {"BTC", "USD"}, NEW to \in {"BTC", "USD"},
         NEW total \in [btc : Int, usd : Int], NEW fee \in [btc : Int, usd : Int],
         from = "USD" /\ to = "USD" => fee.usd > 0 \/ fee = [btc |-> 0, usd |-> 0]
  PROVE  LET entry == Entry(from, to, total, fee)
         IN  BtcTotal(from, to, entry) = 0 /\ UsdTotal(from, to, entry) = 0
<1>1. CASE from = "BTC" /\ to = "BTC"
  BY <1>1 DEF Entry, Conversion, In, BtcTotal, UsdTotal
<1>2. CASE from = "BTC" /\ to = "USD"
  BY <1>2 DEF Entry, Conversion, In, BtcTotal, UsdTotal
<1>3. CASE from = "USD" /\ to = "BTC"
  BY <1>3 DEF Entry, Conversion, In, BtcTotal, UsdTotal
<1>4. CASE from = "USD" /\ to = "USD" /\ fee.usd > 0
  BY <1>4 DEF Entry, Conversion, In, BtcTotal, UsdTotal
<1>5. CASE from = "USD" /\ to = "USD" /\ fee = [btc |-> 0, usd |-> 0]
  BY <1>5 DEF Entry, Conversion, In, BtcTotal, UsdTotal
<1> QED
  BY <1>1, <1>2, <1>3, <1>4, <1>5, Zenon

-----------------------------------------------------------------------------
(* The builder *)

\* A flow that belongs to the wallet and the hash of a send.
Belongs(f, s) == f.key[1] = From[s] /\ f.key[2] = Hash[s]

\* Whether the amount is given in sats depends on wallet and hash only.
LEMMA SameInput ==
  ASSUME NEW s \in Sends, NEW t \in Sends, NEW f, Belongs(f, s), Belongs(f, t)
  PROVE  SatsGiven(s) <=> SatsGiven(t)
BY PaymentFlowsAssumption, ZenonT(60) DEF Belongs, SatsGiven, Currency

\* The amounts of a new flow.
LEMMA ConvertedIsRatio ==
  ASSUME NEW s \in Sends, NEW a \in Converted(s)
  PROVE  a \in Ratio
<1>1. PICK p \in Prices : a = IF SatsGiven(s)
          THEN [btc |-> Amount[s], usd |-> convertFromBtc(p, Amount[s])]
          ELSE [btc |-> convertFromUsd(p, Amount[s]), usd |-> Amount[s]]
  BY Zenon DEF Converted, UsdFromBtc, BtcFromUsd
<1>2. p \in Ratio
  BY PricesAssumption, Zenon DEF Ratio
<1>3. Amount[s] \in Nat /\ Amount[s] > 0
  BY PaymentFlowsAssumption
<1>4. convertFromUsd(p, Amount[s]) \in Nat /\ convertFromUsd(p, Amount[s]) >= Amount[s]
  BY <1>2, <1>3, Conversions, Zenon
<1>5. convertFromBtc(p, Amount[s]) \in 1..Amount[s]
  BY <1>2, <1>3, Conversions, Zenon
<1> QED
  BY <1>1, <1>3, <1>4, <1>5 DEF Ratio

\* maxProtocolFee is a natural number.
LEMMA MaxFee ==
  ASSUME NEW n \in Nat
  PROVE  maxProtocolFee(n, FeeCapBasisPoints) \in Nat
<1>1. n * FeeCapBasisPoints \in Nat
  BY PaymentFlowsAssumption
<1> QED
  BY <1>1, Round DEF maxProtocolFee, mulBasisPoints, AtLeastOne

\* A fee in sats is covered by its cents.
LEMMA FeeInSats ==
  ASSUME NEW a \in Ratio, NEW n \in Nat
  PROVE  /\ convertFromBtcToCeil(a, n) \in Nat
         /\ n * a.usd <= convertFromBtcToCeil(a, n) * a.btc
<1>1. a.btc \in Nat \ {0} /\ a.usd \in Nat /\ n * a.usd \in Nat
  BY DEF Ratio
<1> QED
  BY <1>1, Ceil, ZenonT(60) DEF convertFromBtcToCeil

\* A fee in cents is covered up to less than half a sat's worth.
LEMMA FeeInCents ==
  ASSUME NEW a \in Ratio, NEW n \in Nat
  PROVE  /\ convertFromUsd(a, n) \in Nat
         /\ 2 * (convertFromUsd(a, n) * a.usd) < 2 * (n * a.btc) + a.usd
<1> DEFINE q == divRound(n * a.btc, a.usd)
<1>1. a.btc \in Nat \ {0} /\ a.usd \in Nat \ {0} /\ n * a.btc \in Nat
  BY DEF Ratio
<1>2. q \in Nat /\ 2 * (q * a.usd) < 2 * (n * a.btc) + a.usd
  BY <1>1, Round, ZenonT(60)
<1>3. convertFromUsd(a, n) \in Nat /\ (n > 0 => convertFromUsd(a, n) >= n)
  BY Conversions, Zenon
<1>4. CASE n = 0
  <2>1. convertFromUsd(a, n) = 0
    BY <1>4, Zenon DEF convertFromUsd
  <2> QED BY <2>1, <1>1, <1>4
<1>5. CASE n > 0 /\ q > 0
  <2>1. convertFromUsd(a, n) = q
    BY <1>5, <1>2 DEF convertFromUsd, AtLeastOne
  <2> QED BY <2>1, <1>2, Zenon
<1>6. CASE n > 0 /\ q = 0
  <2>1. convertFromUsd(a, n) = 1
    BY <1>6 DEF convertFromUsd, AtLeastOne
  <2>2. n * a.btc >= a.usd
    <3>1. n * a.btc >= a.btc
      BY <1>6, <1>1
    <3> QED BY <3>1, <1>1 DEF Ratio
  <2> QED BY <2>1, <2>2, <1>1
<1> QED
  BY <1>2, <1>4, <1>5, <1>6

\* The key of a send.
LEMMA KeyType ==
  ASSUME NEW s \in Sends
  PROVE  Key(s) \in Wallets \X {Hash[t] : t \in Sends} \X Nat
BY PaymentFlowsAssumption, Zenon DEF Key

\* What MakeFlow makes, from amounts and a natural fee.
LEMMA MakeFlowType ==
  ASSUME NEW s \in Sends, NEW a \in Ratio, NEW fee \in [btc : Nat, usd : Nat],
         NEW routed \in BOOLEAN
  PROVE  LET f == MakeFlow(s, a, fee, routed)
         IN  /\ f \in Flow /\ Belongs(f, s)
             /\ f.btc = a.btc /\ f.usd = a.usd /\ f.btcFee = fee.btc /\ f.usdFee = fee.usd
             /\ f.routed = routed
<1>1. a.btc \in Nat /\ a.usd \in Nat
  BY Zenon DEF Ratio
<1>2. Belongs(MakeFlow(s, a, fee, routed), s)
  BY Zenon DEF MakeFlow, Belongs, Key
<1>3. MakeFlow(s, a, fee, routed) \in Flow
  BY <1>1, KeyType, Zenon DEF MakeFlow, Flow
<1> QED
  BY <1>2, <1>3, Zenon DEF MakeFlow

\* Flows of the builder belong to the send, and their fee is priced.
LEMMA Builder ==
  ASSUME NEW s \in Sends, NEW f \in FlowsWithoutRoute(s) \cup FlowsWithRoute(s)
  PROVE  f \in Flow /\ Belongs(f, s) /\ Priced(f, SatsGiven(s))
<1>1. CASE f \in FlowsWithRoute(s)
  <2>1. PICK a \in Quoted(s), n \in RouteFees :
          f = MakeFlow(s, a, [btc |-> n, usd |-> convertFromBtcToCeil(a, n)], TRUE)
    BY <1>1, ZenonT(60) DEF FlowsWithRoute
  <2>2. a \in Ratio /\ n \in Nat
    BY ConvertedIsRatio, PaymentFlowsAssumption, Zenon DEF Quoted
  <2>3. /\ convertFromBtcToCeil(a, n) \in Nat
        /\ n * a.usd <= convertFromBtcToCeil(a, n) * a.btc
    BY <2>2, FeeInSats, Zenon
  <2> DEFINE fee == [btc |-> n, usd |-> convertFromBtcToCeil(a, n)]
  <2>4. fee \in [btc : Nat, usd : Nat]
    BY <2>2, <2>3, Zenon
  <2>5. /\ f \in Flow /\ Belongs(f, s) /\ f.routed = TRUE
        /\ f.btc = a.btc /\ f.usd = a.usd /\ f.btcFee = fee.btc /\ f.usdFee = fee.usd
    BY <2>1, <2>2, <2>4, MakeFlowType, ZenonT(60)
  <2>6. fee.btc = n /\ fee.usd = convertFromBtcToCeil(a, n)
    OBVIOUS
  <2> HIDE DEF fee
  <2> QED
    BY <2>5, <2>6, <2>2, <2>3, Zenon DEF Priced, Ratio
<1>2. CASE f \in FlowsWithoutRoute(s)
  <2>1. PICK a \in Quoted(s) : f = MakeFlow(s, a, FeeCap(s, a), FALSE)
    BY <1>2, ZenonT(60) DEF FlowsWithoutRoute
  <2>2. a \in Ratio /\ a.btc \in Nat \ {0} /\ a.usd \in Nat \ {0} /\ a.usd <= a.btc
    BY ConvertedIsRatio, Zenon DEF Ratio, Quoted
  <2> DEFINE fee == FeeCap(s, a)
             ok == /\ fee \in [btc : Nat, usd : Nat]
                   /\ IF SatsGiven(s) THEN fee.btc * a.usd <= fee.usd * a.btc
                        ELSE 2 * (fee.btc * a.usd) < 2 * (fee.usd * a.btc) + a.usd
  <2>3. ASSUME Intraledger(s) PROVE ok
    <3>1. fee = [btc |-> 0, usd |-> 0]
      BY <2>3, Zenon DEF FeeCap, Zero
    <3> QED BY <3>1, <2>2
  <2>4. ASSUME ~Intraledger(s) /\ SatsGiven(s) PROVE ok
    <3> DEFINE n == maxProtocolFee(a.btc, FeeCapBasisPoints)
    <3>1. n \in Nat
      BY <2>2, MaxFee, Zenon
    <3>2. fee = [btc |-> n, usd |-> convertFromBtcToCeil(a, n)]
      BY <2>4, Zenon DEF FeeCap
    <3>3. /\ convertFromBtcToCeil(a, n) \in Nat
          /\ n * a.usd <= convertFromBtcToCeil(a, n) * a.btc
      BY <3>1, <2>2, FeeInSats, Zenon
    <3> HIDE DEF n
    <3> QED BY <3>1, <3>2, <3>3, <2>4
  <2>5. ASSUME ~Intraledger(s) /\ ~SatsGiven(s) PROVE ok
    <3> DEFINE n == maxProtocolFee(a.usd, FeeCapBasisPoints)
    <3>1. n \in Nat
      BY <2>2, MaxFee, Zenon
    <3>2. fee = [btc |-> convertFromUsd(a, n), usd |-> n]
      BY <2>5, Zenon DEF FeeCap
    <3>3. /\ convertFromUsd(a, n) \in Nat
          /\ 2 * (convertFromUsd(a, n) * a.usd) < 2 * (n * a.btc) + a.usd
      BY <3>1, <2>2, FeeInCents, Zenon
    <3> HIDE DEF n
    <3> QED BY <3>1, <3>2, <3>3, <2>5
  <2>6. ok
    BY <2>3, <2>4, <2>5, Zenon
  <2>7. /\ f \in Flow /\ Belongs(f, s) /\ f.routed = FALSE
        /\ f.btc = a.btc /\ f.usd = a.usd /\ f.btcFee = fee.btc /\ f.usdFee = fee.usd
    <3>1. fee \in [btc : Nat, usd : Nat]
      BY <2>6, Zenon
    <3> HIDE DEF fee, ok
    <3>2. f = MakeFlow(s, a, fee, FALSE)
      BY <2>1, Zenon DEF fee
    <3>3. FALSE \in BOOLEAN
      OBVIOUS
    <3>4. a \in Ratio
      BY <2>2, Zenon
    <3> DEFINE g == MakeFlow(s, a, fee, FALSE)
    <3>5. /\ g \in Flow /\ Belongs(g, s)
          /\ g.btc = a.btc /\ g.usd = a.usd /\ g.btcFee = fee.btc /\ g.usdFee = fee.usd
          /\ g.routed = FALSE
      BY <3>1, <3>3, <3>4, MakeFlowType, ZenonT(60)
    <3> QED BY <3>2, <3>5, ZenonT(60)
  <2> HIDE DEF fee
  <2> QED
    <3>1. CASE SatsGiven(s)
      BY <3>1, <2>7, <2>2, <2>6, Zenon DEF Priced
    <3>2. CASE ~SatsGiven(s)
      BY <3>2, <2>7, <2>2, <2>6, Zenon DEF Priced
    <3> QED BY <3>1, <3>2, Zenon
<1> QED
  BY <1>1, <1>2, Zenon

\* Setting a flag of a flow keeps its key and its amounts.
LEMMA Flags ==
  ASSUME NEW f \in Flow, NEW flag \in BOOLEAN
  PROVE  /\ [f EXCEPT !.old = flag] \in Flow /\ [f EXCEPT !.pending = flag] \in Flow
         /\ \A s \in Sends : Belongs(f, s) => /\ Belongs([f EXCEPT !.old = flag], s)
                                             /\ Belongs([f EXCEPT !.pending = flag], s)
         /\ \A s \in Sends : Belongs([f EXCEPT !.old = flag], s) => Belongs(f, s)
         /\ \A s \in Sends : Belongs([f EXCEPT !.pending = flag], s) => Belongs(f, s)
         /\ \A g \in BOOLEAN : Priced(f, g) => /\ Priced([f EXCEPT !.old = flag], g)
                                              /\ Priced([f EXCEPT !.pending = flag], g)
<1>1. /\ [f EXCEPT !.old = flag] \in Flow /\ [f EXCEPT !.pending = flag] \in Flow
  BY Zenon DEF Flow
<1>2. \A x \in {"key", "btc", "usd", "btcFee", "usdFee", "routed"} :
         /\ [f EXCEPT !.old = flag][x] = f[x] /\ [f EXCEPT !.pending = flag][x] = f[x]
  BY Zenon DEF Flow
<1> QED
  BY <1>1, <1>2, Zenon DEF Belongs, Priced

-----------------------------------------------------------------------------
(* The inductive invariant *)

\* A flow that is what the builder makes for a send.
Good(f, s) == f \in Flow /\ Belongs(f, s) /\ Priced(f, SatsGiven(s))

\* A record that is good for every send that may find it.
Sound(f) == f \in Flow /\ \A s \in Sends : Belongs(f, s) => Priced(f, SatsGiven(s))

FlowsSound == \A i \in Places : flows[i] = None \/ Sound(flows[i])

JobGood == job # Idle => Good(job.flow, job.send)

OnePending ==
  \A s, t \in Sends :
    Hash[s] = Hash[t] /\ journal[s] = "pending" /\ journal[t] = "pending" => s = t

\* What a payer has got back when a payment is closed with the amounts charged.
Closed(s) ==
  LET r == getReimbursement(Amounts(used[s]), used[s].btcFee, cost[s])
  IN  \/ /\ htlc[s] = "settled" /\ (used[s].routed \/ ~(used[s].btcFee > cost[s]))
         /\ back[s] = Zero
      \/ /\ htlc[s] = "settled" /\ ~used[s].routed /\ used[s].btcFee > cost[s]
         /\ back[s].btc = r.btc /\ back[s].usd \in {0, r.usd}
      \/ /\ htlc[s] = "failed" /\ back[s].btc = used[s].btc + used[s].btcFee
         /\ back[s].usd \in {0, used[s].usd + used[s].usdFee}

SendGood(s) ==
  /\ used[s] # None => Good(used[s], s)
  /\ pc[s] \in {"ready", "paying"} \/ journal[s] # "none" \/ s \in marking => used[s] # None
  /\ journal[s] # "none" => pc[s] \in {"paying", "done"}
  /\ journal[s] = "pending" => ~Intraledger(s)
  /\ journal[s] # "settled" => back[s] = Zero
  /\ htlc[s] # "none" => journal[s] # "none"
  /\ htlc[s] = "settled" =>
       cost[s] <= used[s].btcFee /\ (used[s].routed => cost[s] = used[s].btcFee)
  /\ Settled(s) => htlc[s] \in {"settled", "failed"}
  /\ Settled(s) /\ s \notin misread => Closed(s)

Inv ==
  /\ TypeOK /\ FlowsSound /\ JobGood /\ OnePending
  /\ \A s \in Sends : SendGood(s)

\* A good flow is sound: sends that share wallet and hash share the input currency.
LEMMA GoodIsSound ==
  ASSUME NEW s \in Sends, NEW f, Good(f, s)
  PROVE  Sound(f)
<1>1. SUFFICES ASSUME NEW t \in Sends, Belongs(f, t) PROVE Priced(f, SatsGiven(t))
  BY Zenon DEF Good, Sound
<1>2. SatsGiven(s) <=> SatsGiven(t)
  BY <1>1, SameInput, Zenon DEF Good
<1>3. SatsGiven(s) \in BOOLEAN /\ SatsGiven(t) \in BOOLEAN
  BY Zenon DEF SatsGiven
<1>4. SatsGiven(s) = SatsGiven(t)
  BY <1>2, <1>3
<1> QED
  BY <1>4, Zenon DEF Good

\* Flags do not matter to either.
LEMMA FlagsGood ==
  ASSUME NEW f \in Flow, NEW flag \in BOOLEAN
  PROVE  /\ Sound(f) => Sound([f EXCEPT !.old = flag]) /\ Sound([f EXCEPT !.pending = flag])
         /\ \A s \in Sends : Good(f, s) => Good([f EXCEPT !.pending = flag], s)
<1>1. \A s \in Sends : SatsGiven(s) \in BOOLEAN
  BY Zenon DEF SatsGiven
<1> QED
  BY <1>1, Flags, ZenonT(60) DEF Sound, Good

\* The initial states satisfy the invariant.
LEMMA InitInv == Init => Inv
<1> SUFFICES ASSUME Init PROVE Inv
  OBVIOUS
<1> USE PaymentFlowsAssumption DEF Init
<1>1. TypeOK
  <2>1. book \in [Accounts -> Int]
    BY DEF Accounts
  <2>2. back \in [Sends -> [btc : Nat, usd : Nat]]
    BY Zenon DEF Zero
  <2> QED BY <2>1, <2>2 DEF TypeOK
<1>2. FlowsSound /\ JobGood /\ OnePending
  BY Zenon DEF FlowsSound, JobGood, OnePending
<1>3. ASSUME NEW s \in Sends PROVE SendGood(s)
  BY Zenon DEF SendGood, Settled
<1> QED
  BY <1>1, <1>2, <1>3, Zenon DEF Inv

\* A send none of whose variables changes, but for a mark that has landed.
LEMMA SendFrame ==
  ASSUME NEW s \in Sends, SendGood(s),
         pc'[s] = pc[s], used'[s] = used[s], journal'[s] = journal[s], htlc'[s] = htlc[s],
         cost'[s] = cost[s], back'[s] = back[s],
         s \in marking' => s \in marking, s \in misread => s \in misread'
  PROVE  SendGood(s)'
BY ZenonT(60) DEF SendGood, Settled, Closed

\* The entries of the ledger are integers.
LEMMA LegType ==
  ASSUME NEW from, NEW to, NEW a, NEW total \in [btc : Int, usd : Int]
  PROVE  Leg(from, to, total, a) \in Int
<1>1. \A c, d \in {"BTC", "USD"} : LET e == Entry(c, d, total, Zero)
         IN e.debited \in Int /\ e.credited \in Int /\ e.bank \in Int
            /\ e.dealerBtc \in Int /\ e.dealerUsd \in Int
  BY DEF Entry, Conversion, In, Zero
<1>2. Currency(from) \in {"BTC", "USD"} /\ Currency(to) \in {"BTC", "USD"}
  BY Zenon DEF Currency
<1> QED
  BY <1>1, <1>2 DEF Leg

\* Entries keep the type of the books.
LEMMA PostType ==
  ASSUME NEW from, NEW to, NEW total \in [btc : Int, usd : Int],
         book \in [Accounts -> Int], Post(from, to, total)
  PROVE  book' \in [Accounts -> Int]
BY LegType DEF Post

\* What a payment costs with its fee.
LEMMA TotalType ==
  ASSUME NEW f \in Flow
  PROVE  totalAmountsForPayment(f) \in [btc : Nat, usd : Nat] /\ Amounts(f) \in [btc : Nat, usd : Nat]
BY DEF Flow, totalAmountsForPayment, Amounts

-----------------------------------------------------------------------------
(* Steps on the records *)

\* A step that changes records only, each to none or to a sound one.
LEMMA RecordStep ==
  ASSUME Inv, NEW g \in [Places -> Flow \cup {None}], flows' = g,
         \A i \in Places : g[i] = None \/ g[i] = flows[i] \/ Sound(g[i]),
         marking' \subseteq marking, dropping' \subseteq dropping,
         probes' \in 0..MaxProbes,
         UNCHANGED <<sendVars, moneyVars, lndVars, jobVars, received, stops>>
  PROVE  Inv'
<1> USE DEF sendVars, moneyVars, lndVars, jobVars
<1>1. TypeOK'
  BY Zenon DEF Inv, TypeOK
<1>2. FlowsSound'
  BY Zenon DEF Inv, FlowsSound
<1>3. JobGood' /\ OnePending'
  BY Zenon DEF Inv, JobGood, OnePending
<1>4. ASSUME NEW s \in Sends PROVE SendGood(s)'
  <2>1. SendGood(s)
    BY Zenon DEF Inv
  <2> QED BY <2>1, SendFrame, Zenon
<1> QED
  BY <1>1, <1>2, <1>3, <1>4, Zenon DEF Inv

\* A stored record is a sound flow.
LEMMA StoredSound ==
  ASSUME Inv, NEW i \in Stored
  PROVE  i \in Places /\ flows[i] \in Flow /\ Sound(flows[i])
BY Zenon DEF Inv, Stored, FlowsSound, TypeOK

\* A query finds stored records.
LEMMA FindsStored ==
  ASSUME NEW key, NEW i, Finds(key, i)
  PROVE  i \in Stored /\ flows[i].key = key
BY Zenon DEF Finds, Matching

\* The record of a place is replaced by a sound one, or removed.
LEMMA ReplaceStep ==
  ASSUME Inv, NEW i \in Places, NEW f, f = None \/ Sound(f),
         flows' = [flows EXCEPT ![i] = f],
         marking' \subseteq marking, dropping' \subseteq dropping,
         probes' \in 0..MaxProbes,
         UNCHANGED <<sendVars, moneyVars, lndVars, jobVars, received, stops>>
  PROVE  Inv'
<1> DEFINE g == [flows EXCEPT ![i] = f]
<1>1. flows \in [Places -> Flow \cup {None}]
  BY Zenon DEF Inv, TypeOK
<1>2. f \in Flow \cup {None}
  BY Zenon DEF Sound
<1>3. g \in [Places -> Flow \cup {None}]
  BY <1>1, <1>2, Zenon
<1>4. \A j \in Places : g[j] = None \/ g[j] = flows[j] \/ Sound(g[j])
  BY <1>1, Zenon
<1> HIDE DEF g
<1>5. flows' = g
  BY Zenon DEF g
<1> QED
  BY <1>3, <1>4, <1>5, RecordStep, Zenon

\* Records expire, are deleted, marked and inserted.
LEMMA RecordsInv ==
  ASSUME Inv,
         \/ \E i \in Places : Expires(i)
         \/ deleteExpiredLightningPaymentFlows
         \/ \E s \in Sends : UpdateLands(s) \/ DeleteLands(s) \/ ProbeFee(s)
  PROVE  Inv'
<1>0. /\ flows \in [Places -> Flow \cup {None}] /\ probes \in 0..MaxProbes
      /\ marking \subseteq Sends /\ MaxProbes \in Nat
  BY PaymentFlowsAssumption, Zenon DEF Inv, TypeOK
<1>1. ASSUME NEW i \in Places, Expires(i) PROVE Inv'
  <2>1. i \in Stored /\ flows[i] \in Flow /\ Sound(flows[i])
    BY <1>1, StoredSound, Zenon DEF Expires
  <2>2. Sound([flows[i] EXCEPT !.old = TRUE])
    BY <2>1, FlagsGood, ZenonT(60)
  <2>3. flows' = [flows EXCEPT ![i] = [flows[i] EXCEPT !.old = TRUE]]
    BY <1>1, <1>0, Zenon DEF Expires
  <2>4. /\ marking' \subseteq marking /\ dropping' \subseteq dropping /\ probes' \in 0..MaxProbes
        /\ UNCHANGED <<sendVars, moneyVars, lndVars, jobVars, received, stops>>
    BY <1>1, <1>0, Zenon DEF Expires
  <2> QED BY <2>2, <2>3, <2>4, ReplaceStep, ZenonT(60)
<1>2. ASSUME deleteExpiredLightningPaymentFlows PROVE Inv'
  <2> DEFINE g == [i \in Places |-> IF i \in Stored /\ isExpired(flows[i]) THEN None ELSE flows[i]]
  <2>1. g \in [Places -> Flow \cup {None}]
    BY <1>0, Zenon
  <2>2. \A i \in Places : g[i] = None \/ g[i] = flows[i] \/ Sound(g[i])
    OBVIOUS
  <2>3. flows' = g
    BY <1>2, Zenon DEF deleteExpiredLightningPaymentFlows
  <2>4. /\ marking' \subseteq marking /\ dropping' \subseteq dropping /\ probes' \in 0..MaxProbes
        /\ UNCHANGED <<sendVars, moneyVars, lndVars, jobVars, received, stops>>
    BY <1>2, <1>0, Zenon DEF deleteExpiredLightningPaymentFlows
  <2> HIDE DEF g
  <2> QED BY <2>1, <2>2, <2>3, <2>4, RecordStep, Zenon
<1>3. ASSUME NEW s \in Sends, UpdateLands(s) PROVE Inv'
  <2>1. Sound(used[s])
    <3>1. SendGood(s) /\ s \in marking
      BY <1>3, Zenon DEF Inv, UpdateLands
    <3>2. Good(used[s], s)
      BY <3>1, Zenon DEF SendGood
    <3> QED BY <3>2, GoodIsSound, Zenon
  <2>2. /\ marking' \subseteq marking /\ dropping' \subseteq dropping /\ probes' \in 0..MaxProbes
        /\ UNCHANGED <<sendVars, moneyVars, lndVars, jobVars, received, stops>>
    BY <1>3, <1>0, Zenon DEF UpdateLands
  <2>3. CASE flows' = flows
    BY <2>2, <2>3, <1>0, RecordStep, Zenon
  <2>4. CASE \E i \in Places : Finds(Key(s), i) /\ flows' = [flows EXCEPT ![i] = used[s]]
    BY <2>1, <2>2, <2>4, ReplaceStep, ZenonT(60)
  <2> QED BY <1>3, <2>3, <2>4, Zenon DEF UpdateLands
<1>4. ASSUME NEW s \in Sends, DeleteLands(s) PROVE Inv'
  <2>2. /\ marking' \subseteq marking /\ dropping' \subseteq dropping /\ probes' \in 0..MaxProbes
        /\ UNCHANGED <<sendVars, moneyVars, lndVars, jobVars, received, stops>>
    BY <1>4, <1>0, Zenon DEF DeleteLands
  <2>3. CASE flows' = flows
    BY <2>2, <2>3, <1>0, RecordStep
  <2>4. CASE \E i \in Places : Finds(Key(s), i) /\ flows' = [flows EXCEPT ![i] = None]
    BY <2>2, <2>4, ReplaceStep, ZenonT(60)
  <2> QED BY <1>4, <2>3, <2>4, Zenon DEF DeleteLands
<1>5. ASSUME NEW s \in Sends, ProbeFee(s) PROVE Inv'
  <2>1. PICK f \in FlowsWithoutRoute(s) \cup FlowsWithRoute(s) : persistNew(f)
    BY <1>5, Zenon DEF ProbeFee
  <2>2. Sound(f)
    BY Builder, GoodIsSound, Zenon DEF Good
  <2>3. PICK i \in Places : flows' = [flows EXCEPT ![i] = f]
    BY <2>1, ZenonT(60) DEF persistNew
  <2>4. /\ marking' \subseteq marking /\ dropping' \subseteq dropping /\ probes' \in 0..MaxProbes
        /\ UNCHANGED <<sendVars, moneyVars, lndVars, jobVars, received, stops>>
    BY <1>5, <1>0 DEF ProbeFee
  <2> QED BY <2>2, <2>3, <2>4, ReplaceStep, ZenonT(60)
<1> QED
  BY <1>1, <1>2, <1>3, <1>4, <1>5, Zenon

-----------------------------------------------------------------------------
(* Steps of a send *)

\* A step of one send leaves the others alone.
LEMMA OneSendStep ==
  ASSUME Inv, NEW s \in Sends, TypeOK', FlowsSound', JobGood', OnePending', SendGood(s)',
         \A t \in Sends \ {s} :
            /\ pc'[t] = pc[t] /\ used'[t] = used[t] /\ journal'[t] = journal[t]
            /\ htlc'[t] = htlc[t] /\ cost'[t] = cost[t] /\ back'[t] = back[t]
            /\ (t \in marking' => t \in marking) /\ (t \in misread => t \in misread')
  PROVE  Inv'
<1>1. ASSUME NEW t \in Sends PROVE SendGood(t)'
  <2>1. CASE t = s
    BY <2>1, Zenon
  <2>2. CASE t # s
    <3>1. SendGood(t) /\ t \in Sends \ {s}
      BY <2>2, Zenon DEF Inv
    <3> QED BY <3>1, SendFrame, Zenon
  <2> QED BY <2>1, <2>2, Zenon
<1> QED
  BY <1>1, ZenonT(60) DEF Inv

\* Choosing or building the flow: the send has no entry yet.
LEMMA TakesFlow ==
  ASSUME Inv, NEW s \in Sends, pc[s] \in {"start", "build"}, NEW point \in {"build", "ready"},
         pc' = [pc EXCEPT ![s] = point],
         \/ used' = used /\ point = "build"
         \/ \E f : Good(f, s) /\ used' = [used EXCEPT ![s] = f],
         flows' \in [Places -> Flow \cup {None}], FlowsSound', dropping' \subseteq Sends,
         UNCHANGED <<marking, moneyVars, lndVars, jobVars, received, probes, stops>>
  PROVE  Inv'
<1> USE DEF moneyVars, lndVars, jobVars
<1>1. TypeOK /\ SendGood(s) /\ JobGood /\ OnePending
  BY Zenon DEF Inv
<1>2. used' \in [Sends -> Flow \cup {None}]
  BY <1>1, Zenon DEF TypeOK, Good
<1>3. TypeOK'
  BY <1>1, <1>2, Zenon DEF TypeOK
<1>4. JobGood' /\ OnePending'
  BY <1>1, ZenonT(60) DEF JobGood, OnePending
<1>5. pc'[s] = point /\ journal[s] = "none" /\ journal'[s] = "none" /\ htlc'[s] = "none"
      /\ htlc[s] = "none" /\ back'[s] = Zero /\ (s \in marking' <=> s \in marking)
  BY <1>1, Zenon DEF TypeOK, SendGood
<1>6. (used'[s] = used[s] /\ point = "build") \/ Good(used'[s], s)
  BY <1>1, Zenon DEF TypeOK
<1>7. used'[s] # None => Good(used'[s], s)
  BY <1>1, <1>6, ZenonT(60) DEF SendGood
<1>8. point = "ready" \/ s \in marking' => used'[s] # None
  <2>1. ASSUME Good(used'[s], s) PROVE used'[s] # None
    <3>1. used'[s] \in Flow
      BY <2>1, Zenon DEF Good
    <3> QED BY <3>1, NoneAssumption, Zenon
  <2> QED BY <1>1, <1>5, <1>6, <2>1, ZenonT(60) DEF SendGood
<1>9. SendGood(s)'
  BY <1>5, <1>7, <1>8, ZenonT(60) DEF SendGood, Settled, Good
<1>10. \A t \in Sends \ {s} : pc'[t] = pc[t] /\ used'[t] = used[t]
  BY <1>1, Zenon DEF TypeOK
<1> QED
  BY <1>3, <1>4, <1>9, <1>10, OneSendStep, ZenonT(60)

\* FindFlow, BuildFlow and BuildIntraledger preserve the invariant.
LEMMA FlowInv ==
  ASSUME Inv, NEW s \in Sends, FindFlow(s) \/ BuildFlow(s) \/ BuildIntraledger(s)
  PROVE  Inv'
<1>0. TypeOK /\ FlowsSound
  BY Zenon DEF Inv
<1>1. CASE FindFlow(s)
  <2>1. /\ pc[s] = "start" /\ flows' = flows /\ FlowsSound'
        /\ flows' \in [Places -> Flow \cup {None}]
        /\ UNCHANGED <<marking, moneyVars, lndVars, jobVars, received, probes, stops>>
    BY <1>0, <1>1, ZenonT(60) DEF FindFlow, FlowsSound, TypeOK
  <2>2. CASE /\ pc' = [pc EXCEPT ![s] = "build"] /\ used' = used
             /\ dropping' = dropping \/ dropping' = dropping \cup {s}
    <3>1. dropping' \subseteq Sends
      BY <2>2, <1>0, Zenon DEF TypeOK
    <3> QED BY <2>1, <2>2, <3>1, TakesFlow, ZenonT(60)
  <2>3. CASE \E i \in Places : /\ Finds(Key(s), i) /\ used' = [used EXCEPT ![s] = flows[i]]
                               /\ pc' = [pc EXCEPT ![s] = "ready"] /\ dropping' = dropping
    <3>1. PICK i \in Places : /\ Finds(Key(s), i) /\ used' = [used EXCEPT ![s] = flows[i]]
                              /\ pc' = [pc EXCEPT ![s] = "ready"] /\ dropping' = dropping
      BY <2>3, ZenonT(60)
    <3>2. i \in Stored /\ flows[i].key = Key(s)
      BY <3>1, FindsStored, Zenon
    <3>3. Sound(flows[i])
      BY <3>2, StoredSound, Zenon
    <3>4. Belongs(flows[i], s)
      BY <3>2 DEF Belongs, Key
    <3>5. Good(flows[i], s)
      BY <3>3, <3>4, Zenon DEF Sound, Good
    <3>6. dropping' \subseteq Sends
      BY <3>1, <1>0, Zenon DEF TypeOK
    <3> QED BY <2>1, <3>1, <3>5, <3>6, TakesFlow, ZenonT(60)
  <2> QED BY <1>1, <2>2, <2>3, Zenon DEF FindFlow, Goto
<1>2. CASE BuildFlow(s)
  <2>1. PICK f \in FlowsWithoutRoute(s) : persistNew(f) /\ used' = [used EXCEPT ![s] = f]
    BY <1>2, ZenonT(60) DEF BuildFlow
  <2>2. Good(f, s)
    BY Builder, Zenon DEF Good
  <2>3. PICK i \in Places : flows' = [flows EXCEPT ![i] = f]
    BY <2>1, ZenonT(60) DEF persistNew
  <2>4. Sound(f)
    BY <2>2, GoodIsSound, Zenon
  <2>5. flows' \in [Places -> Flow \cup {None}]
    BY <2>3, <2>2, <1>0, Zenon DEF TypeOK, Good
  <2>6. FlowsSound'
    <3>1. ASSUME NEW j \in Places PROVE flows'[j] = None \/ Sound(flows'[j])
      BY <2>3, <2>4, <1>0, Zenon DEF TypeOK, FlowsSound
    <3> QED BY <3>1, Zenon DEF FlowsSound, Sound
  <2>7. /\ pc[s] = "build" /\ pc' = [pc EXCEPT ![s] = "ready"] /\ dropping' \subseteq Sends
        /\ UNCHANGED <<marking, moneyVars, lndVars, jobVars, received, probes, stops>>
    BY <1>2, <1>0, Zenon DEF BuildFlow, Goto, TypeOK
  <2> QED BY <2>1, <2>2, <2>5, <2>6, <2>7, TakesFlow, ZenonT(60)
<1>3. CASE BuildIntraledger(s)
  <2>1. PICK f \in FlowsWithoutRoute(s) : used' = [used EXCEPT ![s] = f]
    BY <1>3, ZenonT(60) DEF BuildIntraledger
  <2>2. Good(f, s)
    BY Builder DEF Good
  <2>3. /\ pc[s] = "start" /\ pc' = [pc EXCEPT ![s] = "ready"] /\ dropping' \subseteq Sends
        /\ flows' = flows /\ FlowsSound' /\ flows' \in [Places -> Flow \cup {None}]
        /\ UNCHANGED <<marking, moneyVars, lndVars, jobVars, received, probes, stops>>
    BY <1>3, <1>0, ZenonT(60) DEF BuildIntraledger, Goto, TypeOK, recordVars, FlowsSound
  <2> QED BY <2>1, <2>2, <2>3, TakesFlow, ZenonT(60)
<1> QED
  BY <1>1, <1>2, <1>3, Zenon

\* Records and the reconciler are left alone.
LEMMA OthersFrame ==
  ASSUME Inv, flows' = flows, job' = job
  PROVE  FlowsSound' /\ JobGood'
BY Zenon DEF Inv, FlowsSound, JobGood

\* Pay preserves the invariant.
LEMMA PayInv ==
  ASSUME Inv, NEW s \in Sends, Pay(s)
  PROVE  Inv'
<1>0. TypeOK /\ SendGood(s) /\ OnePending
  BY Zenon DEF Inv
<1> USE DEF sendVars, recordVars, moneyVars, lndVars, jobVars, Goto
<1>1. /\ pc[s] = "ready" /\ used' = used /\ back' = back /\ cost' = cost /\ flows' = flows
      /\ marking' = marking /\ dropping' = dropping /\ job' = job /\ misread' = misread
      /\ received' = received /\ probes' = probes /\ stops' = stops /\ ~Intraledger(s)
  BY ZenonT(60) DEF Pay
<1>2. used[s] \in Flow /\ Good(used[s], s) /\ used[s] # None
  BY <1>0, <1>1, ZenonT(60) DEF SendGood, Good
<1>3. journal[s] = "none" /\ htlc[s] = "none" /\ back[s] = Zero
  BY <1>0, <1>1, Zenon DEF SendGood, TypeOK
<1>4. FlowsSound' /\ JobGood'
  BY <1>1, OthersFrame, Zenon
<1>5. CASE pc' = [pc EXCEPT ![s] = "done"] /\ UNCHANGED <<book, journal, htlc>>
  <2>1. TypeOK'
    BY <1>5, <1>1, <1>0, ZenonT(60) DEF TypeOK
  <2>2. OnePending'
    BY <1>5, <1>0, Zenon DEF OnePending
  <2>3. pc'[s] = "done" /\ used'[s] = used[s] /\ \A t \in Sends \ {s} : pc'[t] = pc[t]
    BY <1>5, <1>1, <1>0, Zenon DEF TypeOK
  <2>4. SendGood(s)'
    BY <2>3, <1>1, <1>2, <1>3, <1>5, ZenonT(60) DEF SendGood, Settled
  <2> QED BY <2>1, <2>2, <2>3, <2>4, <1>1, <1>4, <1>5, OneSendStep, ZenonT(60)
<1>6. CASE /\ ~InTransit(s) /\ Post(From[s], Lnd, totalAmountsForPayment(used[s]))
           /\ journal' = [journal EXCEPT ![s] = "pending"]
           /\ htlc' = [htlc EXCEPT ![s] = "inflight"] /\ pc' = [pc EXCEPT ![s] = "paying"]
  <2>1. book' \in [Accounts -> Int]
    <3>1. totalAmountsForPayment(used[s]) \in [btc : Int, usd : Int]
      BY <1>2, TotalType
    <3> QED BY <3>1, <1>6, <1>0, PostType, ZenonT(60) DEF TypeOK
  <2>2. TypeOK'
    BY <2>1, <1>6, <1>1, <1>0, ZenonT(60) DEF TypeOK
  <2>3. OnePending'
    <3>1. \A t \in Sends : Hash[t] = Hash[s] => journal[t] # "pending"
      BY <1>6, ZenonT(60) DEF InTransit
    <3>2. \A t \in Sends \ {s} : journal'[t] = journal[t]
      BY <1>6, <1>0, Zenon DEF TypeOK
    <3> QED BY <3>1, <3>2, <1>0, ZenonT(60) DEF OnePending
  <2>4. /\ pc'[s] = "paying" /\ journal'[s] = "pending" /\ htlc'[s] = "inflight"
        /\ \A t \in Sends \ {s} : pc'[t] = pc[t] /\ journal'[t] = journal[t] /\ htlc'[t] = htlc[t]
    BY <1>6, <1>0, Zenon DEF TypeOK
  <2>5. SendGood(s)'
    BY <2>4, <1>1, <1>2, <1>3, ZenonT(60) DEF SendGood, Settled
  <2> QED BY <2>2, <2>3, <2>4, <2>5, <1>1, <1>4, OneSendStep, ZenonT(60)
<1> QED
  BY <1>5, <1>6, ZenonT(60) DEF Pay

\* PayIntraledger preserves the invariant.
LEMMA PayIntraledgerInv ==
  ASSUME Inv, NEW s \in Sends, PayIntraledger(s)
  PROVE  Inv'
<1>0. TypeOK /\ SendGood(s) /\ OnePending
  BY DEF Inv
<1> USE DEF sendVars, recordVars, moneyVars, lndVars, jobVars, Goto
<1>1. /\ pc[s] = "ready" /\ used' = used /\ back' = back /\ cost' = cost /\ htlc' = htlc
      /\ flows' = flows /\ marking' = marking /\ dropping' = dropping /\ job' = job
      /\ misread' = misread /\ received' = received /\ probes' = probes /\ stops' = stops
      /\ Intraledger(s) /\ pc' = [pc EXCEPT ![s] = "done"]
  BY ZenonT(60) DEF PayIntraledger
<1>2. used[s] \in Flow /\ Good(used[s], s) /\ used[s] # None
  BY <1>0, <1>1, ZenonT(60) DEF SendGood, Good
<1>3. journal[s] = "none" /\ htlc[s] = "none" /\ back[s] = Zero
  BY <1>0, <1>1, ZenonT(60) DEF SendGood, TypeOK
<1>4. FlowsSound' /\ JobGood'
  BY <1>1, OthersFrame, Zenon
<1>5. book' \in [Accounts -> Int]
  <2>1. CASE Post(From[s], To[s], Amounts(used[s]))
    <3>1. Amounts(used[s]) \in [btc : Int, usd : Int]
      BY <1>2, TotalType
    <3> QED BY <2>1, <3>1, <1>0, PostType, ZenonT(60) DEF TypeOK
  <2>2. CASE book' = book
    BY <2>2, <1>0, Zenon DEF TypeOK
  <2> QED BY <2>1, <2>2, ZenonT(60) DEF PayIntraledger
<1>6. journal' = journal \/ journal' = [journal EXCEPT ![s] = "settled"]
  BY ZenonT(60) DEF PayIntraledger
<1>7. TypeOK'
  BY <1>5, <1>6, <1>1, <1>0, ZenonT(60) DEF TypeOK
<1>8. /\ pc'[s] = "done" /\ journal'[s] \in {"none", "settled"}
      /\ \A t \in Sends \ {s} : pc'[t] = pc[t] /\ journal'[t] = journal[t]
  BY <1>6, <1>3, <1>1, <1>0, ZenonT(60) DEF TypeOK
<1>9. OnePending'
  BY <1>8, <1>0, ZenonT(60) DEF OnePending
<1>10. SendGood(s)'
  BY <1>8, <1>1, <1>2, <1>3, ZenonT(60) DEF SendGood, Settled, Intraledger
<1> QED
  BY <1>1, <1>4, <1>7, <1>8, <1>9, <1>10, OneSendStep, ZenonT(60)

\* LndResolves preserves the invariant.
LEMMA LndResolvesInv ==
  ASSUME Inv, NEW s \in Sends, LndResolves(s)
  PROVE  Inv'
<1>0. TypeOK /\ SendGood(s) /\ OnePending
  BY DEF Inv
<1> USE DEF sendVars, recordVars, moneyVars, lndVars, jobVars
<1>1. /\ htlc[s] = "inflight" /\ used' = used /\ back' = back /\ pc' = pc /\ book' = book
      /\ journal' = journal /\ flows' = flows /\ marking' = marking /\ dropping' = dropping
      /\ job' = job /\ misread' = misread /\ received' = received /\ probes' = probes
      /\ stops' = stops
  BY ZenonT(60) DEF LndResolves
<1>2. journal[s] = "pending" \/ Intraledger(s)
  BY <1>0, <1>1, ZenonT(60) DEF SendGood, Settled, TypeOK
<1>3. used[s] \in Flow /\ used[s] # None
  BY <1>0, <1>1, ZenonT(60) DEF SendGood, Good
<1>4. FlowsSound' /\ JobGood'
  BY <1>1, OthersFrame, Zenon
<1>5. \/ htlc' = [htlc EXCEPT ![s] = "failed"] /\ cost' = cost
      \/ /\ htlc' = [htlc EXCEPT ![s] = "settled"]
         /\ \E fee \in Nat : /\ cost' = [cost EXCEPT ![s] = fee] /\ fee <= used[s].btcFee
                             /\ used[s].routed => fee = used[s].btcFee
  <2>1. used[s].btcFee \in Nat
    BY <1>3, Zenon DEF Flow
  <2>2. CASE htlc' = [htlc EXCEPT ![s] = "failed"] /\ UNCHANGED cost
    BY <2>2, Zenon
  <2>3. CASE /\ htlc' = [htlc EXCEPT ![s] = "settled"]
             /\ \E fee \in IF used[s].routed THEN {used[s].btcFee} ELSE 0..used[s].btcFee :
                  cost' = [cost EXCEPT ![s] = fee]
    <3>1. PICK fee \in IF used[s].routed THEN {used[s].btcFee} ELSE 0..used[s].btcFee :
            cost' = [cost EXCEPT ![s] = fee]
      BY <2>3, ZenonT(60)
    <3>2. fee \in Nat /\ fee <= used[s].btcFee /\ (used[s].routed => fee = used[s].btcFee)
      BY <2>1
    <3> QED BY <2>3, <3>1, <3>2, ZenonT(60)
  <2> QED BY <2>2, <2>3, ZenonT(60) DEF LndResolves
<1>6. TypeOK'
  BY <1>5, <1>1, <1>0, ZenonT(60) DEF TypeOK
<1>7. /\ htlc'[s] = "failed" \/ /\ htlc'[s] = "settled" /\ cost'[s] <= used[s].btcFee
                                /\ used[s].routed => cost'[s] = used[s].btcFee
      /\ \A t \in Sends \ {s} : htlc'[t] = htlc[t] /\ cost'[t] = cost[t]
  BY <1>5, <1>0, ZenonT(60) DEF TypeOK
<1>8. OnePending'
  BY <1>1, <1>0, Zenon DEF OnePending
<1>9. SendGood(s)'
  <2>1. ~Settled(s)'
    BY <1>1, <1>2, ZenonT(60) DEF Settled, Intraledger
  <2> QED BY <2>1, <1>0, <1>1, <1>7, ZenonT(60) DEF SendGood
<1> QED
  BY <1>1, <1>4, <1>6, <1>7, <1>8, <1>9, OneSendStep, ZenonT(60)

\* PayTimesOut and Stop preserve the invariant.
LEMMA EndInv ==
  ASSUME Inv, NEW s \in Sends, PayTimesOut(s) \/ Stop(s)
  PROVE  Inv'
<1>0. TypeOK /\ SendGood(s) /\ OnePending
  BY Zenon DEF Inv
<1> USE DEF sendVars, recordVars, moneyVars, lndVars, jobVars, Goto
<1>1. /\ back' = back /\ book' = book /\ journal' = journal /\ htlc' = htlc /\ cost' = cost
      /\ flows' = flows /\ job' = job /\ misread' = misread /\ received' = received
      /\ probes' = probes /\ pc' = [pc EXCEPT ![s] = "done"]
  BY Zenon DEF PayTimesOut, Stop
<1>2. FlowsSound' /\ JobGood'
  BY <1>1, OthersFrame, Zenon
<1>3. OnePending'
  BY <1>1, <1>0, Zenon DEF OnePending
<1>4. pc'[s] = "done" /\ \A t \in Sends \ {s} : pc'[t] = pc[t]
  BY <1>1, <1>0, Zenon DEF TypeOK
<1>5. CASE PayTimesOut(s)
  <2>1. /\ pc[s] = "paying" /\ used' = [used EXCEPT ![s].pending = TRUE]
        /\ marking' = marking \cup {s} /\ dropping' = dropping /\ stops' = stops
    BY <1>5, Zenon DEF PayTimesOut
  <2>2. used[s] \in Flow /\ Good(used[s], s) /\ used[s] # None
    BY <1>0, <2>1, Zenon DEF SendGood, Good
  <2> DEFINE f == [used[s] EXCEPT !.pending = TRUE]
  <2>3. f \in Flow /\ Good(f, s) /\ f # None
    BY <2>2, FlagsGood, Flags, NoneAssumption, ZenonT(60)
  <2>4. /\ f.btc = used[s].btc /\ f.usd = used[s].usd /\ f.btcFee = used[s].btcFee
        /\ f.usdFee = used[s].usdFee /\ f.routed = used[s].routed /\ Amounts(f) = Amounts(used[s])
    BY <2>2, Zenon DEF Flow, Amounts
  <2> HIDE DEF f
  <2>5. used' = [used EXCEPT ![s] = f]
    BY <2>1, Zenon DEF f
  <2>6. used'[s] = f /\ \A t \in Sends \ {s} : used'[t] = used[t]
    BY <2>5, <1>0, Zenon DEF TypeOK
  <2>7. TypeOK'
    <3>1. used' \in [Sends -> Flow \cup {None}]
      BY <2>3, <2>5, <1>0, ZenonT(60) DEF TypeOK
    <3>2. pc' \in [Sends -> {"start", "build", "ready", "paying", "done"}]
      BY <1>1, <1>0, Zenon DEF TypeOK
    <3>3. marking' \subseteq Sends /\ dropping' \subseteq Sends
      BY <2>1, <1>0, Zenon DEF TypeOK
    <3> QED BY <3>1, <3>2, <3>3, <2>1, <1>1, <1>0, Zenon DEF TypeOK
  <2>8. Closed(s) => Closed(s)'
    BY <2>4, <2>6, <1>1, ZenonT(60) DEF Closed
  <2>9. SendGood(s)'
    <3>1. Settled(s)' <=> Settled(s)
      BY <1>1, ZenonT(60) DEF Settled, Intraledger
    <3>2. /\ journal'[s] = journal[s] /\ htlc'[s] = htlc[s] /\ cost'[s] = cost[s]
          /\ back'[s] = back[s] /\ misread' = misread
      BY <1>1, ZenonT(60)
    <3>3. Good(used'[s], s) /\ used'[s] # None
      BY <2>3, <2>6, Zenon
    <3>4. used'[s].btcFee = used[s].btcFee /\ used'[s].routed = used[s].routed
      BY <2>4, <2>6, ZenonT(60)
    <3>5. Good(used[s], s)'
      BY <3>3, ZenonT(60) DEF Good, Belongs, Priced, SatsGiven
    <3> QED BY <3>1, <3>2, <3>3, <3>4, <3>5, <2>8, <1>0, <1>4, ZenonT(60) DEF SendGood, Intraledger
  <2> QED BY <2>1, <2>6, <2>7, <2>9, <1>1, <1>2, <1>3, <1>4, OneSendStep, Zenon
<1>6. CASE Stop(s)
  <2>1. /\ used' = used /\ marking' = marking \ {s} /\ dropping' = dropping \ {s}
        /\ stops < MaxStops /\ stops' = stops + 1
        /\ pc[s] \in {"build", "ready", "paying"} \/ s \in marking \cup dropping
    BY <1>6, ZenonT(60) DEF Stop
  <2>2. stops' \in 0..MaxStops
    <3>1. stops \in 0..MaxStops
      BY <1>0, ZenonT(60) DEF TypeOK
    <3>2. MaxStops \in Nat
      BY PaymentFlowsAssumption, ZenonT(60)
    <3> QED BY <2>1, <3>1, <3>2
  <2>3. TypeOK'
    BY <2>1, <2>2, <1>1, <1>0, ZenonT(60) DEF TypeOK
  <2>4. Closed(s) => Closed(s)'
    BY <2>1, <1>1, ZenonT(60) DEF Closed
  <2>5. SendGood(s)'
    BY <2>1, <2>4, <1>0, <1>1, <1>4, ZenonT(60) DEF SendGood, Settled, Intraledger
  <2> QED BY <2>1, <2>3, <2>5, <1>1, <1>2, <1>3, <1>4, OneSendStep, ZenonT(60)
<1> QED
  BY <1>5, <1>6, Zenon

\* ReceiveInvoice preserves the invariant.
LEMMA ReceiveInv ==
  ASSUME Inv, NEW r \in Receipts, ReceiveInvoice(r)
  PROVE  Inv'
<1>0. TypeOK /\ OnePending /\ \A s \in Sends : SendGood(s)
  BY Zenon DEF Inv
<1> USE DEF sendVars, recordVars, moneyVars, lndVars, jobVars
<1>1. /\ back' = back /\ journal' = journal /\ htlc' = htlc /\ cost' = cost /\ pc' = pc
      /\ used' = used /\ marking' = marking /\ dropping' = dropping /\ stops' = stops
      /\ flows' = flows /\ job' = job /\ misread' = misread /\ probes' = probes
      /\ received' = received \cup {r}
  BY Zenon DEF ReceiveInvoice
<1>2. PICK p \in Prices :
        Post(Lnd, r.wallet, [btc |-> r.sats,
                             usd |-> IF r.wallet \in Usd /\ r.cents > 0 THEN r.cents
                                                        ELSE convertFromBtc(p, r.sats)])
  BY Zenon DEF ReceiveInvoice
<1>3. r.sats \in Nat \ {0} /\ r.cents \in Nat
  BY PaymentFlowsAssumption, Zenon
<1>4. convertFromBtc(p, r.sats) \in Nat
  <2>1. p \in Ratio
    BY PricesAssumption, Zenon DEF Ratio
  <2> QED BY <2>1, <1>3, Conversions, Zenon
<1>5. book' \in [Accounts -> Int]
  <2>1. book \in [Accounts -> Int]
    BY <1>0, ZenonT(60) DEF TypeOK
  <2> QED BY <1>2, <1>3, <1>4, <2>1, PostType
<1>6. TypeOK'
  BY <1>0, <1>1, <1>5, ZenonT(60) DEF TypeOK
<1>7. FlowsSound' /\ JobGood' /\ OnePending'
  BY <1>0, <1>1, OthersFrame, ZenonT(60) DEF OnePending
<1>8. ASSUME NEW s \in Sends PROVE SendGood(s)'
  BY <1>0, <1>1, SendFrame, ZenonT(60)
<1> QED
  BY <1>6, <1>7, <1>8, Zenon DEF Inv

-----------------------------------------------------------------------------
(* Closing a payment *)

\* settlePendingLnSend settles the entries of one send.
LEMMA SettleOne ==
  ASSUME TypeOK, OnePending, NEW s \in Sends, journal[s] = "pending", Settle(s)
  PROVE  journal' = [journal EXCEPT ![s] = "settled"]
<1>1. \A t \in Sends : Hash[t] = Hash[s] /\ journal[t] = "pending" <=> t = s
  BY Zenon DEF OnePending
<1>2. journal' = [t \in Sends |->
        IF Hash[t] = Hash[s] /\ journal[t] = "pending" THEN "settled" ELSE journal[t]]
  BY Zenon DEF Settle
<1>3. \A t \in Sends : journal'[t] = [journal EXCEPT ![s] = "settled"][t]
  BY <1>1, <1>2, Zenon DEF TypeOK
<1> QED
  BY <1>2, <1>3, ZenonT(60) DEF TypeOK

\* A reimbursement is a pair of amounts.
LEMMA ReimbursementType ==
  ASSUME NEW s \in Sends, NEW f, Good(f, s), NEW spent \in Nat, f.btcFee > spent
  PROVE  getReimbursement(Amounts(f), f.btcFee, spent) \in [btc : Nat, usd : Nat]
<1> DEFINE r == getReimbursement(Amounts(f), f.btcFee, spent)
<1>1. f.btcFee \in Nat /\ f.routed \in BOOLEAN /\ SatsGiven(s) \in BOOLEAN
      /\ Priced(f, SatsGiven(s)) /\ spent < f.btcFee
  BY Zenon DEF Good, Flow, SatsGiven
<1>2. r.btc = f.btcFee - spent /\ r.usd \in Nat
  BY <1>1, Reimbursement, Zenon DEF Amounts
<1>3. r.btc \in Nat
  BY <1>1, <1>2
<1>4. r = [btc |-> r.btc, usd |-> r.usd]
  BY Zenon DEF getReimbursement
<1> HIDE DEF r
<1>5. r \in [btc : Nat, usd : Nat]
  BY <1>2, <1>3, <1>4, Zenon
<1> QED
  BY <1>5, Zenon DEF r

\* What is given back, and to the books.
LEMMA GiveBackStep ==
  ASSUME TypeOK, NEW s \in Sends, NEW to, NEW amounts \in [btc : Nat, usd : Nat],
         GiveBack(s, to, amounts)
  PROVE  /\ book' \in [Accounts -> Int] /\ back' \in [Sends -> [btc : Nat, usd : Nat]]
         /\ back'[s].btc = amounts.btc /\ back'[s].usd \in {0, amounts.usd}
         /\ \A t \in Sends \ {s} : back'[t] = back[t]
<1>1. book' \in [Accounts -> Int]
  BY PostType DEF GiveBack, TypeOK
<1>2. PICK u \in {0, amounts.usd} : back' = [back EXCEPT ![s] = [btc |-> amounts.btc, usd |-> u]]
  BY ZenonT(60) DEF GiveBack
<1> QED
  BY <1>1, <1>2 DEF TypeOK

\* The entries of a send are voided.
LEMMA VoidStep ==
  ASSUME TypeOK, NEW s \in Sends, used[s] \in Flow, Void(s)
  PROVE  /\ book' \in [Accounts -> Int] /\ back' \in [Sends -> [btc : Nat, usd : Nat]]
         /\ back'[s].btc = used[s].btc + used[s].btcFee
         /\ back'[s].usd \in {0, used[s].usd + used[s].usdFee}
         /\ \A t \in Sends \ {s} : back'[t] = back[t]
<1>1. book' \in [Accounts -> Int]
  <2>1. totalAmountsForPayment(used[s]) \in [btc : Int, usd : Int]
    BY TotalType
  <2>2. \A a \in Accounts : Leg(From[s], Lnd, totalAmountsForPayment(used[s]), a) \in Int
    BY <2>1, LegType, Zenon
  <2> QED BY <2>2 DEF Void, TypeOK
<1>2. PICK u \in {0, used[s].usd + used[s].usdFee} :
        back' = [back EXCEPT ![s] = [btc |-> used[s].btc + used[s].btcFee, usd |-> u]]
  BY ZenonT(60) DEF Void
<1>3. used[s].btc + used[s].btcFee \in Nat /\ used[s].usd + used[s].usdFee \in Nat
  BY DEF Flow
<1> QED
  BY <1>1, <1>2, <1>3 DEF TypeOK

\* The ways in which a pending payment is closed with the amounts of a flow.
Closes(s, f) ==
  \/ htlc[s] = "settled" /\ used[s].routed /\ UNCHANGED <<book, back>>
  \/ htlc[s] = "settled" /\ ~used[s].routed /\ reimburseFee(s, f)
  \/ htlc[s] = "failed" /\ Void(s)
  \/ htlc[s] = "failed" /\ GiveBack(s, BtcWallet[From[s]], totalAmountsForPayment(f))

\* A payment closed with the amounts that were charged is closed as it should be.
LEMMA ClosesStep ==
  ASSUME TypeOK, NEW s \in Sends, NEW f, Good(f, s), Good(used[s], s), back[s] = Zero,
         Closes(s, f), used' = used, UNCHANGED lndVars
  PROVE  /\ book' \in [Accounts -> Int] /\ back' \in [Sends -> [btc : Nat, usd : Nat]]
         /\ \A t \in Sends \ {s} : back'[t] = back[t]
         /\ SamePrice(f, used[s]) => Closed(s)'
<1> DEFINE r == getReimbursement(Amounts(used[s]), used[s].btcFee, cost[s])
<1>1. htlc' = htlc /\ cost' = cost /\ used[s] \in Flow /\ f \in Flow /\ cost[s] \in Nat
  BY Zenon DEF lndVars, Good, TypeOK
<1>2. SamePrice(f, used[s]) => /\ Amounts(f) = Amounts(used[s]) /\ f.btcFee = used[s].btcFee
                               /\ f.btc = used[s].btc /\ f.usd = used[s].usd
                               /\ f.usdFee = used[s].usdFee
  BY <1>1, ZenonT(60) DEF SamePrice, Amounts
<1>3. CASE /\ UNCHANGED <<book, back>> /\ htlc[s] = "settled"
           /\ used[s].routed \/ ~(f.btcFee > cost[s])
  BY <1>1, <1>2, <1>3, Zenon DEF TypeOK, Closed
<1>4. CASE /\ htlc[s] = "settled" /\ ~used[s].routed /\ f.btcFee > cost[s]
           /\ GiveBack(s, From[s], getReimbursement(Amounts(f), f.btcFee, cost[s]))
  <2>1. getReimbursement(Amounts(f), f.btcFee, cost[s]) \in [btc : Nat, usd : Nat]
    BY <1>1, <1>4, ReimbursementType, ZenonT(60)
  <2> DEFINE g == getReimbursement(Amounts(f), f.btcFee, cost[s])
  <2> HIDE DEF g
  <2>2. /\ book' \in [Accounts -> Int] /\ back' \in [Sends -> [btc : Nat, usd : Nat]]
        /\ back'[s].btc = g.btc /\ back'[s].usd \in {0, g.usd}
        /\ \A t \in Sends \ {s} : back'[t] = back[t]
    BY <1>4, <2>1, GiveBackStep, ZenonT(60) DEF g
  <2>3. SamePrice(f, used[s]) => g = r /\ used[s].btcFee > cost[s]
    BY <1>2, <1>4, ZenonT(60) DEF g
  <2>4. SamePrice(f, used[s]) => Closed(s)'
    BY <1>1, <1>4, <2>2, <2>3, ZenonT(60) DEF Closed
  <2> QED BY <2>2, <2>4, Zenon
<1>5. CASE htlc[s] = "failed" /\ Void(s)
  BY <1>1, <1>5, VoidStep, ZenonT(60) DEF Closed
<1>6. CASE htlc[s] = "failed" /\ GiveBack(s, BtcWallet[From[s]], totalAmountsForPayment(f))
  <2>1. totalAmountsForPayment(f) \in [btc : Nat, usd : Nat]
    BY <1>1, TotalType, Zenon
  <2>2. /\ totalAmountsForPayment(f).btc = f.btc + f.btcFee
        /\ totalAmountsForPayment(f).usd = f.usd + f.usdFee
    BY ZenonT(60) DEF totalAmountsForPayment
  <2>3. /\ book' \in [Accounts -> Int] /\ back' \in [Sends -> [btc : Nat, usd : Nat]]
        /\ back'[s].btc = f.btc + f.btcFee /\ back'[s].usd \in {0, f.usd + f.usdFee}
        /\ \A t \in Sends \ {s} : back'[t] = back[t]
    BY <1>6, <2>1, <2>2, GiveBackStep, ZenonT(60)
  <2>4. SamePrice(f, used[s]) => Closed(s)'
    BY <1>1, <1>2, <1>6, <2>3, ZenonT(60) DEF Closed
  <2> QED BY <2>3, <2>4, Zenon
<1> QED
  BY <1>3, <1>4, <1>5, <1>6, ZenonT(60) DEF Closes, reimburseFee

\* A pending payment is closed, by the payment itself or by the reconciler.
LEMMA CloseInv ==
  ASSUME Inv, NEW s \in Sends, journal[s] = "pending", htlc[s] \in {"settled", "failed"},
         NEW f, Good(f, s), Settle(s), Closes(s, f),
         pc' = pc \/ pc' = [pc EXCEPT ![s] = "done"],
         job' = job \/ job' = Idle,
         misread' = IF SamePrice(f, used[s]) THEN misread ELSE misread \cup {s},
         UNCHANGED <<used, recordVars, lndVars, received, probes, stops>>
  PROVE  Inv'
<1>0. TypeOK /\ SendGood(s) /\ OnePending /\ FlowsSound /\ JobGood
  BY ZenonT(60) DEF Inv
<1>1. /\ used' = used /\ flows' = flows /\ marking' = marking /\ dropping' = dropping
      /\ htlc' = htlc /\ cost' = cost /\ received' = received /\ probes' = probes
      /\ stops' = stops
  BY Zenon DEF recordVars, lndVars
<1>2. used[s] # None /\ Good(used[s], s) /\ back[s] = Zero /\ ~Intraledger(s)
  BY <1>0, ZenonT(60) DEF SendGood
<1>3. /\ book' \in [Accounts -> Int] /\ back' \in [Sends -> [btc : Nat, usd : Nat]]
      /\ \A t \in Sends \ {s} : back'[t] = back[t]
      /\ SamePrice(f, used[s]) => Closed(s)'
  BY <1>0, <1>1, <1>2, ClosesStep, ZenonT(60)
<1>4. journal' = [journal EXCEPT ![s] = "settled"]
  BY <1>0, SettleOne, Zenon
<1>5. /\ journal'[s] = "settled" /\ \A t \in Sends \ {s} : journal'[t] = journal[t]
      /\ pc'[s] \in {pc[s], "done"} /\ \A t \in Sends \ {s} : pc'[t] = pc[t]
  BY <1>0, <1>4, Zenon DEF TypeOK
<1>6. s \notin misread' => Closed(s)'
  BY <1>3, ZenonT(60)
<1>7. misread \subseteq misread' /\ misread' \subseteq Sends
  BY <1>0, Zenon DEF TypeOK
<1>8. TypeOK'
  <2>1. pc' \in [Sends -> {"start", "build", "ready", "paying", "done"}]
    BY <1>0, ZenonT(60) DEF TypeOK
  <2>2. journal' \in [Sends -> {"none", "pending", "settled"}]
    BY <1>0, <1>4, Zenon DEF TypeOK
  <2>3. job' \in [send : Sends, flow : Flow] \cup {Idle}
    BY <1>0, Zenon DEF TypeOK
  <2> QED BY <2>1, <2>2, <2>3, <1>0, <1>1, <1>3, <1>7, ZenonT(60) DEF TypeOK
<1>9. FlowsSound' /\ JobGood'
  BY <1>0, <1>1, ZenonT(60) DEF FlowsSound, JobGood, Idle
<1>10. OnePending'
  BY <1>0, <1>5, ZenonT(60) DEF OnePending
<1>11. SendGood(s)'
  BY <1>0, <1>1, <1>2, <1>5, <1>6, ZenonT(60) DEF SendGood, Settled, Intraledger
<1> QED
  BY <1>1, <1>3, <1>5, <1>7, <1>8, <1>9, <1>10, <1>11, OneSendStep, ZenonT(60)

\* A step that changes a control point to done, or makes the reconciler idle.
LEMMA QuietInv ==
  ASSUME Inv, NEW s \in Sends,
         pc' = pc \/ (journal[s] # "none" /\ pc' = [pc EXCEPT ![s] = "done"]),
         job' = job \/ job' = Idle,
         UNCHANGED <<used, recordVars, moneyVars, lndVars, misread, received, probes, stops>>
  PROVE  Inv'
<1>0. TypeOK /\ SendGood(s) /\ OnePending /\ FlowsSound /\ JobGood
  BY Zenon DEF Inv
<1> USE DEF recordVars, moneyVars, lndVars
<1>1. /\ pc' \in [Sends -> {"start", "build", "ready", "paying", "done"}]
      /\ job' \in [send : Sends, flow : Flow] \cup {Idle}
  BY <1>0, Zenon DEF TypeOK
<1>2. TypeOK'
  BY <1>0, <1>1, Zenon DEF TypeOK
<1>3. FlowsSound' /\ JobGood' /\ OnePending'
  BY <1>0, ZenonT(60) DEF FlowsSound, JobGood, OnePending, Idle
<1>4. /\ \A t \in Sends \ {s} : pc'[t] = pc[t]
      /\ pc'[s] = pc[s] \/ (journal[s] # "none" /\ pc'[s] = "done")
  BY <1>0, Zenon DEF TypeOK
<1>5. Closed(s) => Closed(s)'
  BY ZenonT(60) DEF Closed
<1>6. SendGood(s)'
  BY <1>0, <1>4, <1>5, ZenonT(60) DEF SendGood, Settled, Intraledger
<1> QED
  BY <1>2, <1>3, <1>4, <1>6, OneSendStep, ZenonT(60)

\* PayReturns preserves the invariant.
LEMMA PayReturnsInv ==
  ASSUME Inv, NEW s \in Sends, PayReturns(s)
  PROVE  Inv'
<1>0. TypeOK /\ SendGood(s)
  BY Zenon DEF Inv
<1>1. /\ pc' = [pc EXCEPT ![s] = "done"] /\ htlc[s] \in {"settled", "failed"}
      /\ job' = job /\ misread' = misread
      /\ UNCHANGED <<used, recordVars, lndVars, received, probes, stops>>
  BY ZenonT(60) DEF PayReturns, Goto, jobVars
<1>2. CASE journal[s] = "settled" /\ UNCHANGED moneyVars
  BY <1>1, <1>2, QuietInv, ZenonT(60)
<1>3. CASE journal[s] = "pending" /\ Settle(s) /\ Closes(s, used[s])
  <2>1. Good(used[s], s)
    BY <1>0, <1>3, ZenonT(60) DEF SendGood
  <2>2. SamePrice(used[s], used[s])
    BY Zenon DEF SamePrice
  <2> QED BY <1>1, <1>3, <2>1, <2>2, CloseInv, ZenonT(60)
<1> QED
  BY <1>2, <1>3, ZenonT(60) DEF PayReturns, Closes

\* Resolve preserves the invariant.
LEMMA ResolveInv ==
  ASSUME Inv, NEW s \in Sends, Resolve(s)
  PROVE  Inv'
<1>0. TypeOK /\ JobGood
  BY Zenon DEF Inv
<1>1. /\ job.send = s /\ job' = Idle /\ pc' = pc
      /\ UNCHANGED <<used, recordVars, lndVars, received, probes, stops>>
  BY ZenonT(60) DEF Resolve, sendVars
<1>2. Good(job.flow, s)
  <2>1. job # Idle
    BY <1>1, PaymentFlowsAssumption DEF Idle
  <2> QED BY <1>0, <1>1, <2>1, Zenon DEF JobGood
<1>3. CASE journal[s] # "pending" /\ UNCHANGED <<moneyVars, misread>>
  <2>1. UNCHANGED <<used, recordVars, moneyVars, lndVars, misread, received, probes, stops>>
    BY <1>1, <1>3, Zenon
  <2> QED BY <1>1, <2>1, QuietInv, Zenon
<1>4. CASE /\ journal[s] = "pending" /\ Settle(s) /\ Closes(s, job.flow)
           /\ misread' = IF SamePrice(job.flow, used[s]) THEN misread ELSE misread \cup {s}
  <2>1. htlc[s] \in {"settled", "failed"}
    BY <1>4, ZenonT(60) DEF Closes
  <2> QED BY <1>1, <1>2, <1>4, <2>1, CloseInv, ZenonT(60)
<1> QED
  BY <1>3, <1>4, ZenonT(60) DEF Resolve, Closes

\* TakeFlow preserves the invariant.
LEMMA TakeFlowInv ==
  ASSUME Inv, NEW s \in Sends, TakeFlow(s)
  PROVE  Inv'
<1>0. TypeOK /\ SendGood(s) /\ OnePending /\ FlowsSound
  BY Zenon DEF Inv
<1>1. /\ pc' = pc /\ used' = used /\ marking' = marking /\ dropping' = dropping
      /\ journal' = journal /\ back' = back /\ book' = book /\ htlc' = htlc /\ cost' = cost
      /\ misread' = misread /\ received' = received /\ probes' = probes /\ stops' = stops
      /\ journal[s] = "pending"
  BY Zenon DEF TakeFlow, sendVars, moneyVars, lndVars
<1>2. Good(used[s], s)
  BY <1>0, <1>1, ZenonT(60) DEF SendGood
<1>3. /\ flows' \in [Places -> Flow \cup {None}] /\ FlowsSound'
      /\ \E f : Good(f, s) /\ job' = [send |-> s, flow |-> f]
  <2>1. CASE flows' = flows /\ job' = [send |-> s, flow |-> [used[s] EXCEPT !.pending = TRUE]]
    <3>1. Good([used[s] EXCEPT !.pending = TRUE], s)
      BY <1>2, FlagsGood, ZenonT(60) DEF Good
    <3> QED BY <2>1, <3>1, <1>0, ZenonT(60) DEF TypeOK, FlowsSound
  <2>2. CASE \E i \in Places :
          /\ Finds(LedgerKey(s), i) /\ flows' = [flows EXCEPT ![i].pending = FALSE]
          /\ job' = [send |-> s, flow |-> [flows[i] EXCEPT !.pending = FALSE]]
    <3>1. PICK i \in Places :
          /\ Finds(LedgerKey(s), i) /\ flows' = [flows EXCEPT ![i].pending = FALSE]
          /\ job' = [send |-> s, flow |-> [flows[i] EXCEPT !.pending = FALSE]]
      BY <2>2, ZenonT(60)
    <3>2. i \in Stored /\ flows[i].key = LedgerKey(s)
      BY <3>1, FindsStored, Zenon
    <3>3. flows[i] \in Flow /\ Sound(flows[i])
      BY <3>2, StoredSound, Zenon
    <3>4. Belongs(flows[i], s)
      BY <3>2 DEF Belongs, LedgerKey
    <3>5. Good(flows[i], s)
      BY <3>3, <3>4, Zenon DEF Good, Sound
    <3> DEFINE f == [flows[i] EXCEPT !.pending = FALSE]
    <3>6. f \in Flow /\ Good(f, s) /\ Sound(f)
      BY <3>3, <3>5, FlagsGood, Flags, ZenonT(60)
    <3> HIDE DEF f
    <3>7. flows' = [flows EXCEPT ![i] = f] /\ job' = [send |-> s, flow |-> f]
      BY <3>1, Zenon DEF f
    <3>8. flows' \in [Places -> Flow \cup {None}]
      BY <3>6, <3>7, <1>0, Zenon DEF TypeOK
    <3>9. \A j \in Places : flows'[j] = flows[j] \/ flows'[j] = f
      BY <3>7, <1>0, Zenon DEF TypeOK
    <3>10. FlowsSound'
      BY <3>6, <3>9, <1>0, Zenon DEF FlowsSound, Sound
    <3> QED BY <3>6, <3>7, <3>8, <3>10, Zenon
  <2> QED BY <2>1, <2>2, Zenon DEF TakeFlow, reconstructPendingPaymentFlow
<1>4. PICK f : Good(f, s) /\ job' = [send |-> s, flow |-> f]
  BY <1>3, Zenon
<1>5. job' \in [send : Sends, flow : Flow]
  BY <1>4, Zenon DEF Good
<1>6. TypeOK'
  BY <1>0, <1>1, <1>3, <1>5, ZenonT(60) DEF TypeOK
<1>7. JobGood' /\ OnePending'
  <2>1. job'.send = s /\ job'.flow = f
    BY <1>4, Zenon
  <2>2. Good(job'.flow, job'.send)
    BY <1>4, <2>1, Zenon
  <2> QED BY <2>2, <1>0, <1>1, ZenonT(60) DEF JobGood, OnePending, Good, Belongs, Priced, SatsGiven
<1>8. SendGood(s)'
  BY <1>0, <1>1, SendFrame, ZenonT(60)
<1> QED
  BY <1>1, <1>3, <1>6, <1>7, <1>8, OneSendStep, ZenonT(60)

-----------------------------------------------------------------------------
(* The theorems *)

\* Every step preserves the invariant.
LEMMA NextInv == Inv /\ [Next]_vars => Inv'
<1> SUFFICES ASSUME Inv, [Next]_vars PROVE Inv'
  OBVIOUS
<1>1. ASSUME NEW s \in Sends, Step(s) PROVE Inv'
  BY <1>1, RecordsInv, FlowInv, PayInv, PayIntraledgerInv, LndResolvesInv, PayReturnsInv,
     EndInv, TakeFlowInv, ResolveInv, Zenon DEF Step
<1>2. ASSUME NEW i \in Places, Expires(i) PROVE Inv'
  BY <1>2, RecordsInv, Zenon
<1>3. CASE deleteExpiredLightningPaymentFlows
  BY <1>3, RecordsInv, Zenon
<1>4. ASSUME NEW r \in Receipts, ReceiveInvoice(r) PROVE Inv'
  BY <1>4, ReceiveInv, Zenon
<1>5. CASE UNCHANGED vars
  <2>1. /\ UNCHANGED <<flows, pc, used, journal, htlc, cost, back, marking, dropping, job>>
        /\ UNCHANGED <<misread, received, book, probes, stops>>
    BY <1>5, Zenon DEF vars, sendVars, recordVars, moneyVars, lndVars, jobVars
  <2>2. TypeOK' /\ OnePending' /\ FlowsSound' /\ JobGood'
    BY <2>1, OthersFrame, ZenonT(60) DEF Inv, TypeOK, OnePending
  <2>3. ASSUME NEW s \in Sends PROVE SendGood(s)'
    BY <2>1, SendFrame, ZenonT(60) DEF Inv
  <2> QED BY <2>2, <2>3, Zenon DEF Inv
<1> QED
  BY <1>1, <1>2, <1>3, <1>4, <1>5, Zenon DEF Next

\* The invariant holds in all reachable states.
LEMMA InvHolds == Spec => []Inv
BY InitInv, NextInv, PTL DEF Spec

\* The variables keep their types, for all constants.
THEOREM TypeCorrect == Spec => []TypeOK
<1>1. Inv => TypeOK
  BY Zenon DEF Inv
<1> QED BY <1>1, InvHolds, PTL

\* The facts about a closed payment that the theorems use.
LEMMA ClosedFacts ==
  ASSUME Inv, NEW s \in Sends \ misread, Settled(s)
  PROVE  /\ Closed(s) /\ Good(used[s], s) /\ used[s].btc \in Nat \ {0} /\ used[s].usd \in Nat \ {0}
         /\ used[s].btcFee \in Nat /\ used[s].usdFee \in Nat /\ used[s].routed \in BOOLEAN
         /\ cost[s] \in Nat /\ back[s] \in [btc : Nat, usd : Nat] /\ SatsGiven(s) \in BOOLEAN
         /\ htlc[s] = "settled" => /\ cost[s] <= used[s].btcFee
                                   /\ used[s].routed => cost[s] = used[s].btcFee
<1>1. TypeOK /\ SendGood(s)
  BY ZenonT(60) DEF Inv
<1>2. Closed(s) /\ Good(used[s], s)
  BY <1>1, ZenonT(60) DEF SendGood, Settled
<1>3. used[s] \in Flow /\ Priced(used[s], SatsGiven(s))
  BY <1>2, Zenon DEF Good
<1>4. used[s].routed \in BOOLEAN
  BY <1>3, Zenon DEF Flow
<1> QED
  BY <1>1, <1>2, <1>3, <1>4, ZenonT(60) DEF SendGood, Priced, TypeOK, SatsGiven

\* The invariant makes the account of lnd exact.
LEMMA LndExact == Inv => LndBooksExact
<1>1. ASSUME Inv PROVE LndBooksExact
  <2>1. SUFFICES ASSUME NEW s \in Sends \ misread, Settled(s)
        PROVE  Charged(s) = IF htlc[s] = "settled" THEN used[s].btc + cost[s] ELSE 0
    BY Zenon DEF LndBooksExact
  <2> DEFINE r == getReimbursement(Amounts(used[s]), used[s].btcFee, cost[s])
  <2>2. /\ Closed(s) /\ used[s].btc \in Nat /\ used[s].btcFee \in Nat /\ cost[s] \in Nat
        /\ htlc[s] = "settled" => /\ cost[s] <= used[s].btcFee
                                  /\ used[s].routed => cost[s] = used[s].btcFee
    BY <1>1, <2>1, ClosedFacts, ZenonT(60)
  <2>3. r.btc = used[s].btcFee - cost[s]
    BY ZenonT(60) DEF getReimbursement
  <2> HIDE DEF r
  <2>4. \/ htlc[s] = "settled" /\ cost[s] = used[s].btcFee /\ back[s].btc = 0
        \/ htlc[s] = "settled" /\ back[s].btc = r.btc
        \/ htlc[s] = "failed" /\ back[s].btc = used[s].btc + used[s].btcFee
    <3>1. ~(used[s].btcFee > cost[s]) /\ cost[s] <= used[s].btcFee => cost[s] = used[s].btcFee
      BY <2>2
    <3>2. back[s] = Zero => back[s].btc = 0
      BY DEF Zero
    <3> QED
      BY <2>2, <3>1, <3>2, ZenonT(60) DEF Closed, r
  <2> QED BY <2>2, <2>3, <2>4 DEF Charged
<1> QED BY <1>1, Zenon

\* A closed payment leaves on the account of lnd the sats that lnd spent, for all
\* amounts, prices and fees.
THEOREM LndBooksExactHolds == Spec => []LndBooksExact
BY LndExact, InvHolds, PTL

\* What is given back of a fee, and what the dealer keeps for it.
LEMMA FeeKept ==
  ASSUME Inv, NEW s \in Sends \ misread, Settled(s), htlc[s] = "settled"
  PROVE  /\ back[s].usd \in Nat /\ back[s].usd <= used[s].usdFee
         /\ cost[s] * used[s].usd + back[s].usd * used[s].btc
              <= used[s].usdFee * used[s].btc + (IF SatsGiven(s) THEN 0 ELSE used[s].btc - 1)
<1> DEFINE f == used[s]  inSats == SatsGiven(s)  spent == cost[s]  g == back[s].usd
<1>1. /\ Closed(s) /\ Priced(f, inSats) /\ f.btcFee \in Nat /\ spent \in Nat
      /\ inSats \in BOOLEAN /\ f.routed \in BOOLEAN /\ spent <= f.btcFee
      /\ f.routed => spent = f.btcFee
  BY ClosedFacts, ZenonT(60) DEF Good
<1>2. ~(f.btcFee > spent) => spent = f.btcFee
  <2> HIDE DEF f, spent
  <2> QED
    BY <1>1
<1>3. \/ g = 0 /\ spent = f.btcFee
      \/ /\ f.btcFee > spent
         /\ g \in {0, getReimbursement([btc |-> f.btc, usd |-> f.usd], f.btcFee, spent).usd}
  <2>1. back[s] = Zero => g = 0
    BY DEF Zero
  <2> QED
    BY <1>1, <1>2, <2>1, ZenonT(60) DEF Closed, Amounts
<1>4. f.btcFee > spent => spent < f.btcFee
  <2> HIDE DEF f, spent
  <2> QED
    BY <1>1, Zenon
<1> HIDE DEF f, inSats, spent, g
<1>5. /\ g \in Nat /\ g <= f.usdFee
      /\ spent * f.usd + g * f.btc <= f.usdFee * f.btc + (IF inSats THEN 0 ELSE f.btc - 1)
  BY <1>1, <1>3, <1>4, FeeCovered, ZenonT(60)
<1> QED
  BY <1>5, ZenonT(60) DEF f, inSats, spent, g

\* A USD payer gets back no more cents than were taken for the fee, for all amounts,
\* prices and fees.
THEOREM ReimbursedHolds == Spec => []ReimbursedWithinPrepaid
<1>1. ASSUME Inv PROVE ReimbursedWithinPrepaid
  BY <1>1, FeeKept, ZenonT(60) DEF ReimbursedWithinPrepaid
<1> QED BY <1>1, InvHolds, PTL

\* The dealer is never a whole cent short on a payment of a USD wallet, for all amounts,
\* prices and fees.
THEOREM DealerCoveredHolds == Spec => []DealerCovered
<1>1. ASSUME Inv PROVE DealerCovered
  <2>1. SUFFICES ASSUME NEW s \in Sends \ misread, Settled(s), From[s] \in Usd
        PROVE  (IF htlc[s] = "settled" THEN Charged(s) ELSE 0) * used[s].usd
                 - (used[s].usd + used[s].usdFee - back[s].usd) * used[s].btc
               <= IF SatsGiven(s) THEN 0 ELSE used[s].btc - 1
    BY ZenonT(60) DEF DealerCovered
  <2> DEFINE b == used[s].btc  u == used[s].usd  p == used[s].btcFee  q == used[s].usdFee
             c == cost[s]  g == back[s].usd  slack == IF SatsGiven(s) THEN 0 ELSE b - 1
  <2>2. /\ Closed(s) /\ b \in Nat \ {0} /\ u \in Nat \ {0} /\ p \in Nat /\ q \in Nat
        /\ c \in Nat /\ back[s] \in [btc : Nat, usd : Nat] /\ SatsGiven(s) \in BOOLEAN
    BY <1>1, <2>1, ClosedFacts, ZenonT(60)
  <2>3. CASE htlc[s] = "settled"
    <3>1. Charged(s) = b + c
      BY <1>1, <2>1, <2>3, LndExact, ZenonT(60) DEF LndBooksExact
    <3>2. g \in Nat /\ c * u + g * b <= q * b + slack
      BY <1>1, <2>1, <2>3, FeeKept, Zenon
    <3>3. slack \in Nat
      <4> HIDE DEF b
      <4> QED
        BY <2>2
    <3> HIDE DEF b, u, p, q, c, g
    <3>4. (b + c) * u - (u + q - g) * b <= slack
      BY <2>2, <3>2, <3>3, DealerShort, ZenonT(60)
    <3> QED BY <2>3, <3>1, <3>4, ZenonT(60) DEF b, u, q, g
  <2>4. CASE htlc[s] # "settled"
    <3>1. g \in {0, u + q} /\ g \in Nat
      BY <2>2, <2>4, ZenonT(60) DEF Closed
    <3>2. slack \in Nat
      <4> HIDE DEF b
      <4> QED
        BY <2>2
    <3> HIDE DEF b, u, p, q, c, g
    <3>3. 0 * u - (u + q - g) * b <= slack
      BY <2>2, <3>1, <3>2, DealerShort, ZenonT(60)
    <3> QED BY <2>4, <3>3, ZenonT(60) DEF b, u, q, g
  <2> QED BY <2>3, <2>4, Zenon
<1> QED BY <1>1, InvHolds, PTL

-----------------------------------------------------------------------------
(***************************************************************************)
(* Records marked pending: a record that is marked belongs to the one      *)
(* payment of its hash that is pending, or to none, is the one a query     *)
(* finds, and has the amounts that were charged.                           *)
(***************************************************************************)

MarkOf(i, t) ==
  /\ Hash[t] = flows[i].key[2] /\ journal[t] # "none"
  /\ journal[t] = "pending" => /\ pc[t] = "done" /\ SamePrice(flows[i], used[t])
                               /\ \A j \in Matching(flows[i].key) : i <= j

MarksOwned == \A i \in Stored : flows[i].pending => \E t \in Sends : MarkOf(i, t)

KeysOwn == \A s \in Sends : used[s] # None => used[s].key = Key(s)

Entered ==
  \A s \in Sends : /\ pc[s] = "paying" \/ s \in marking => journal[s] # "none"
                   /\ s \in marking => pc[s] = "done"

MarkInv == Inv /\ MarksOwned /\ KeysOwn /\ Entered

\* A payment that was recorded stays so, and keeps its flow once it was answered.
Steady(t) ==
  journal[t] # "none" =>
    /\ journal'[t] # "none" /\ (journal'[t] = "pending" => journal[t] = "pending")
    /\ pc[t] = "done" => pc'[t] = "done" /\ used'[t] = used[t]

\* A record that is there before and after a step, or is inserted behind all others.
Remains(i) ==
  \/ /\ i \in Stored /\ flows'[i].key = flows[i].key /\ SamePrice(flows'[i], flows[i])
     /\ flows'[i].pending => flows[i].pending
  \/ ~flows'[i].pending /\ \A j \in Stored : j < i

\* Every step leaves recorded payments steady.
LEMMA StepsSteady ==
  ASSUME Inv, Next, NEW t \in Sends
  PROVE  Steady(t)
<1>1. SendGood(t) /\ TypeOK
  BY Zenon DEF Inv
<1>2. journal[t] # "none" => pc[t] \in {"paying", "done"}
  BY <1>1, Zenon DEF SendGood
<1> USE DEF TypeOK
<1>3. ASSUME NEW s \in Sends, FindFlow(s) \/ BuildFlow(s) \/ BuildIntraledger(s) PROVE Steady(t)
  <2>1. UNCHANGED journal /\ pc[s] \in {"start", "build"}
    BY <1>3, Zenon DEF FindFlow, BuildFlow, BuildIntraledger, moneyVars
  <2>2. t # s => pc'[t] = pc[t] /\ used'[t] = used[t]
    BY <1>1, <1>3, ZenonT(60) DEF FindFlow, BuildFlow, BuildIntraledger, Goto
  <2> QED
    BY <1>2, <2>1, <2>2, Zenon DEF Steady
<1>4. ASSUME NEW s \in Sends, Pay(s) \/ PayIntraledger(s) PROVE Steady(t)
  <2>1. pc[s] = "ready" /\ UNCHANGED used
    BY <1>4, Zenon DEF Pay, PayIntraledger
  <2>2. t # s => pc'[t] = pc[t] /\ journal'[t] = journal[t]
    BY <1>1, <1>4, ZenonT(60) DEF Pay, PayIntraledger, Goto
  <2> QED
    BY <1>2, <2>1, <2>2, Zenon DEF Steady
<1>5. ASSUME NEW s \in Sends, PayReturns(s) \/ Resolve(s) PROVE Steady(t)
  <2>1. UNCHANGED used /\ (pc'[t] = pc[t] \/ pc'[t] = "done")
    BY <1>1, <1>5, ZenonT(60) DEF PayReturns, Resolve, Goto, sendVars
  <2>2. journal'[t] = journal[t] \/ journal'[t] = "settled"
    BY <1>5, ZenonT(60) DEF PayReturns, Resolve, Settle, moneyVars
  <2> QED
    BY <2>1, <2>2, Zenon DEF Steady
<1>6. ASSUME NEW s \in Sends, PayTimesOut(s) \/ Stop(s) PROVE Steady(t)
  <2>1. UNCHANGED journal /\ (pc'[t] = pc[t] \/ pc'[t] = "done")
    BY <1>1, <1>6, ZenonT(60) DEF PayTimesOut, Stop, Goto, moneyVars
  <2>2. pc[t] = "done" => used'[t] = used[t]
    BY <1>1, <1>6, ZenonT(60) DEF PayTimesOut, Stop
  <2> QED
    BY <2>1, <2>2, Zenon DEF Steady
<1>7. ASSUME \/ \E s \in Sends : \/ ProbeFee(s) \/ LndResolves(s) \/ UpdateLands(s)
                                 \/ DeleteLands(s) \/ TakeFlow(s)
             \/ \E i \in Places : Expires(i)
             \/ deleteExpiredLightningPaymentFlows
             \/ \E r \in Receipts : ReceiveInvoice(r)
      PROVE  Steady(t)
  <2>1. UNCHANGED <<pc, used, journal>>
    BY <1>7, ZenonT(60) DEF ProbeFee, LndResolves, UpdateLands, DeleteLands, TakeFlow, Expires,
       deleteExpiredLightningPaymentFlows, ReceiveInvoice, sendVars, moneyVars
  <2> QED
    BY <2>1, Zenon DEF Steady
<1> QED
  BY <1>3, <1>4, <1>5, <1>6, <1>7, Zenon DEF Next, Step

\* Records that remain keep their marks.
LEMMA MarksKept ==
  ASSUME MarkInv, \A t \in Sends : Steady(t), \A i \in Stored' : Remains(i)
  PROVE  MarksOwned'
<1> SUFFICES ASSUME NEW i \in Stored', flows'[i].pending
             PROVE  \E t \in Sends : MarkOf(i, t)'
  BY Zenon DEF MarksOwned
<1>1. /\ i \in Stored /\ flows'[i].key = flows[i].key /\ SamePrice(flows'[i], flows[i])
      /\ flows[i].pending
  BY Zenon DEF Remains
<1>2. PICK t \in Sends : MarkOf(i, t)
  BY <1>1, Zenon DEF MarkInv, MarksOwned
<1>3. Steady(t)
  BY Zenon
<1>4. Hash[t] = flows'[i].key[2] /\ journal'[t] # "none"
  BY <1>1, <1>2, <1>3, Zenon DEF MarkOf, Steady
<1>5. ASSUME journal'[t] = "pending"
      PROVE  /\ pc'[t] = "done" /\ SamePrice(flows'[i], used'[t])
             /\ \A j \in Matching(flows[i].key) : i <= j
  <2>1. /\ pc[t] = "done" /\ SamePrice(flows[i], used[t])
        /\ \A j \in Matching(flows[i].key) : i <= j
        /\ pc'[t] = "done" /\ used'[t] = used[t]
    BY <1>2, <1>3, <1>5, Zenon DEF MarkOf, Steady
  <2>2. SamePrice(flows'[i], used[t])
    BY <1>1, <2>1, Zenon DEF SamePrice
  <2> QED
    BY <2>1, <2>2, Zenon
<1>6. ASSUME journal'[t] = "pending", NEW j \in Stored', flows'[j].key = flows'[i].key
      PROVE  i <= j
  <2>2. CASE j \in Stored /\ flows'[j].key = flows[j].key
    <3>1. j \in Matching(flows[i].key)
      BY <1>1, <1>6, <2>2, Zenon DEF Matching
    <3> QED
      BY <1>5, <1>6, <3>1, Zenon
  <2>3. CASE i < j
    <3>1. i \in Int /\ j \in Int
      <4>1. i \in Places /\ j \in Places
        BY Zenon DEF Stored
      <4> QED
        BY <4>1, PaymentFlowsAssumption, SMT DEF Places
    <3> QED
      BY <2>3, <3>1, SMT
  <2> QED
    BY <1>1, <2>2, <2>3, Zenon DEF Remains
<1>7. MarkOf(i, t)'
  BY <1>4, <1>5, <1>6, Zenon DEF MarkOf, Matching
<1> QED
  BY <1>7, Zenon

\* A flow keeps its key and its price when it is marked or unmarked.
LEMMA FlagsPrice ==
  ASSUME NEW f \in Flow, NEW flag \in BOOLEAN
  PROVE  SamePrice([f EXCEPT !.pending = flag], f) /\ [f EXCEPT !.pending = flag].key = f.key
BY Zenon DEF Flow, SamePrice, Amounts

\* Every record that a step leaves as it was remains.
LEMMA SameRemains ==
  ASSUME TypeOK, NEW i \in Stored', flows'[i] = flows[i]
  PROVE  Remains(i)
<1>1. i \in Stored
  BY Zenon DEF Stored
<1>2. SamePrice(flows'[i], flows[i])
  BY Zenon DEF SamePrice
<1> QED
  BY <1>1, <1>2, Zenon DEF Remains

\* persistNew inserts behind all records, unmarked.
LEMMA InsertRemains ==
  ASSUME TypeOK, NEW f, ~f.pending, persistNew(f), NEW i \in Stored'
  PROVE  Remains(i)
<1>1. PICK k \in Places : (\A j \in Stored : j < k) /\ flows' = [flows EXCEPT ![k] = f]
  BY Zenon DEF persistNew
<1>2. CASE i = k
  <2>1. flows'[i] = f
    BY <1>1, <1>2, Zenon DEF TypeOK
  <2> QED
    BY <1>1, <1>2, <2>1, Zenon DEF Remains
<1>3. CASE i # k
  <2>1. flows'[i] = flows[i]
    BY <1>1, <1>3, Zenon DEF TypeOK, Stored
  <2> QED
    BY <2>1, SameRemains, Zenon
<1> QED
  BY <1>2, <1>3, Zenon

\* Flows of the builder are unmarked and have the key of the send.
LEMMA BuiltUnmarked ==
  ASSUME NEW s \in Sends, NEW f \in FlowsWithoutRoute(s) \cup FlowsWithRoute(s)
  PROVE  ~f.pending /\ f.key = Key(s)
<1>1. PICK a, fee, routed : f = MakeFlow(s, a, fee, routed)
  BY Zenon DEF FlowsWithoutRoute, FlowsWithRoute
<1> QED
  BY <1>1, Zenon DEF MakeFlow

\* Only a landing update marks a record.
LEMMA RecordsRemain ==
  ASSUME Inv, Next, ~\E s \in Sends : UpdateLands(s), NEW i \in Stored'
  PROVE  Remains(i)
<1>0. TypeOK /\ i \in Places
  BY Zenon DEF Inv, Stored
<1>1. CASE UNCHANGED flows
  <2>1. flows'[i] = flows[i]
    BY <1>1, Zenon
  <2> QED
    BY <1>0, <2>1, SameRemains, Zenon
<1>2. ASSUME NEW s \in Sends, ProbeFee(s) \/ BuildFlow(s) PROVE Remains(i)
  <2>1. PICK f \in FlowsWithoutRoute(s) \cup FlowsWithRoute(s) : persistNew(f)
    BY <1>2, Zenon DEF ProbeFee, BuildFlow
  <2> QED
    BY <1>0, <2>1, BuiltUnmarked, InsertRemains, Zenon
<1>3. ASSUME NEW k \in Stored, NEW f, flows' = [flows EXCEPT ![k] = f],
             f = None \/ \E flag \in BOOLEAN : f = [flows[k] EXCEPT !.old = flag]
                      \/ f = [flows[k] EXCEPT !.pending = FALSE]
      PROVE  Remains(i)
  <2>1. CASE i # k
    <3>1. flows'[i] = flows[i]
      BY <1>0, <1>3, <2>1, Zenon DEF TypeOK
    <3> QED
      BY <1>0, <3>1, SameRemains, Zenon
  <2>2. CASE i = k
    <3>1. flows'[k] = f /\ f # None /\ flows[k] \in Flow
      BY <1>0, <1>3, <2>2, Zenon DEF TypeOK, Stored
    <3>2. /\ f.key = flows[k].key /\ SamePrice(f, flows[k])
          /\ f.pending => flows[k].pending
      <4>1. PICK g \in Flow : g = flows[k]
        BY <3>1, Zenon
      <4>2. CASE f = [g EXCEPT !.pending = FALSE]
        <5>1. f.pending = FALSE /\ f.key = g.key /\ SamePrice(f, g)
          BY <4>2, Zenon DEF Flow, SamePrice, Amounts
        <5> QED
          BY <4>1, <5>1, Zenon
      <4>3. ASSUME NEW flag \in BOOLEAN, f = [g EXCEPT !.old = flag]
            PROVE  f.key = g.key /\ SamePrice(f, g) /\ f.pending = g.pending
        BY <4>3, Zenon DEF Flow, SamePrice, Amounts
      <4> QED
        BY <1>3, <3>1, <4>1, <4>2, <4>3, Zenon
    <3> QED
      BY <2>2, <3>1, <3>2, Zenon DEF Remains
  <2> QED
    BY <2>1, <2>2, Zenon
<1>4. ASSUME NEW k \in Places, Expires(k) PROVE Remains(i)
  <2>1. k \in Stored /\ flows' = [flows EXCEPT ![k] = [flows[k] EXCEPT !.old = TRUE]]
    BY <1>4, Zenon DEF Expires
  <2> QED
    BY <1>3, <2>1, Zenon
<1>5. CASE deleteExpiredLightningPaymentFlows
  <2>1. flows'[i] = flows[i]
    BY <1>0, <1>5, Zenon DEF deleteExpiredLightningPaymentFlows, Stored
  <2> QED
    BY <1>0, <2>1, SameRemains, Zenon
<1>6. ASSUME NEW s \in Sends, DeleteLands(s) PROVE Remains(i)
  <2>1. CASE ~UNCHANGED flows
    <3>1. PICK k \in Places : Finds(Key(s), k) /\ flows' = [flows EXCEPT ![k] = None]
      BY <1>6, <2>1, Zenon DEF DeleteLands
    <3>2. k \in Stored
      BY <3>1, Zenon DEF Finds, Matching
    <3> QED
      BY <1>3, <3>1, <3>2, Zenon
  <2> QED
    BY <1>1, <2>1, Zenon
<1>7. ASSUME NEW s \in Sends, TakeFlow(s) PROVE Remains(i)
  <2>1. CASE ~UNCHANGED flows
    <3>1. PICK k \in Places : /\ Finds(LedgerKey(s), k)
                              /\ flows' = [flows EXCEPT ![k].pending = FALSE]
      BY <1>7, <2>1, Zenon DEF TakeFlow
    <3>2. k \in Stored
      BY <3>1, Zenon DEF Finds, Matching
    <3>3. flows' = [flows EXCEPT ![k] = [flows[k] EXCEPT !.pending = FALSE]]
      BY <3>1, Zenon
    <3> QED
      BY <1>3, <3>2, <3>3, Zenon
  <2> QED
    BY <1>1, <2>1, Zenon
<1>8. ASSUME \/ \E s \in Sends : \/ FindFlow(s) \/ BuildIntraledger(s) \/ Pay(s)
                                 \/ PayIntraledger(s) \/ LndResolves(s) \/ PayReturns(s)
                                 \/ PayTimesOut(s) \/ Stop(s) \/ Resolve(s)
             \/ \E r \in Receipts : ReceiveInvoice(r)
      PROVE  UNCHANGED flows
  BY <1>8, ZenonT(60) DEF FindFlow, BuildIntraledger, Pay, PayIntraledger, LndResolves,
     PayReturns, PayTimesOut, Stop, Resolve, ReceiveInvoice, recordVars
<1> QED
  BY <1>1, <1>2, <1>4, <1>5, <1>6, <1>7, <1>8, ZenonT(60) DEF Next, Step

\* A landing update marks the record that a query finds, with the amounts charged.
LEMMA UpdateMarks ==
  ASSUME MarkInv, NEW s \in Sends, UpdateLands(s)
  PROVE  MarksOwned'
<1>0. TypeOK /\ UNCHANGED <<pc, used, journal>>
  BY Zenon DEF MarkInv, Inv, UpdateLands, sendVars, moneyVars
<1>1. /\ journal[s] # "none" /\ pc[s] = "done" /\ used[s] # None /\ used[s] \in Flow
      /\ used[s].key = Key(s)
  <2>1. s \in marking /\ SendGood(s)
    BY Zenon DEF UpdateLands, MarkInv, Inv
  <2> QED
    BY <1>0, <2>1, Zenon DEF MarkInv, Entered, KeysOwn, SendGood, Good
<1>2. CASE UNCHANGED flows
  <2>1. \A i : Stored' = Stored /\ \A t : MarkOf(i, t)' = MarkOf(i, t)
    BY <1>0, <1>2, Zenon DEF Stored, MarkOf, Matching
  <2> QED
    BY <1>2, <2>1, Zenon DEF MarkInv, MarksOwned
<1>3. CASE ~UNCHANGED flows
  <2>1. PICK k \in Places : Finds(Key(s), k) /\ flows' = [flows EXCEPT ![k] = used[s]]
    BY <1>3, Zenon DEF UpdateLands
  <2>2. flows'[k] = used[s] /\ flows[k].key = Key(s) /\ k \in Stored
    BY <1>0, <2>1, Zenon DEF TypeOK, Finds, Matching
  <2>3. \A j \in Places : j # k => flows'[j] = flows[j]
    BY <1>0, <2>1, Zenon DEF TypeOK
  <2>4. Stored' = Stored
    BY <1>1, <2>2, <2>3, Zenon DEF Stored
  <2>5. \A j \in Stored : flows'[j].key = flows[j].key
    BY <1>1, <2>2, <2>3, Zenon DEF Stored
  <2> SUFFICES ASSUME NEW i \in Stored', flows'[i].pending
               PROVE  \E t \in Sends : MarkOf(i, t)'
    BY Zenon DEF MarksOwned
  <2>6. CASE i = k
    <3>1. Key(s)[2] = Hash[s]
      BY Zenon DEF Key
    <3>2. ASSUME NEW j \in Stored', flows'[j].key = flows'[i].key PROVE i <= j
      <4>1. j \in Stored /\ flows[j].key = Key(s)
        BY <1>1, <2>2, <2>4, <2>5, <2>6, <3>2, Zenon
      <4> QED
        BY <2>1, <2>6, <4>1, Zenon DEF Finds, Matching
    <3>3. SamePrice(flows'[i], used'[s])
      BY <1>0, <2>2, <2>6, Zenon DEF SamePrice
    <3>4. MarkOf(i, s)'
      BY <1>0, <1>1, <2>2, <2>6, <3>1, <3>2, <3>3, Zenon DEF MarkOf, Matching
    <3> QED
      BY <3>4, Zenon
  <2>7. CASE i # k
    <3>1. i \in Stored /\ flows'[i] = flows[i]
      BY <2>3, <2>4, <2>7, Zenon DEF Stored
    <3>2. PICK t \in Sends : MarkOf(i, t)
      BY <3>1, Zenon DEF MarkInv, MarksOwned
    <3>3. journal[t] = "pending" =>
            \A j \in Stored' : flows'[j].key = flows'[i].key => i <= j
      BY <2>4, <2>5, <3>1, <3>2, Zenon DEF MarkOf, Matching
    <3>4. MarkOf(i, t)'
      BY <1>0, <3>1, <3>2, <3>3, Zenon DEF MarkOf, Matching
    <3> QED
      BY <3>4, Zenon
  <2> QED
    BY <2>6, <2>7, Zenon
<1> QED
  BY <1>2, <1>3, Zenon

\* A send works with flows of its own key.
LEMMA KeysStep ==
  ASSUME MarkInv, Next
  PROVE  KeysOwn'
<1> SUFFICES ASSUME NEW t \in Sends, used'[t] # None PROVE used'[t].key = Key(t)
  BY Zenon DEF KeysOwn
<1>1. TypeOK /\ (used[t] # None => used[t].key = Key(t)) /\ SendGood(t)
  BY Zenon DEF MarkInv, KeysOwn, Inv
<1>2. CASE used'[t] = used[t]
  BY <1>1, <1>2, Zenon
<1>3. ASSUME NEW s \in Sends, NEW f, used' = [used EXCEPT ![s] = f], f.key = Key(s)
      PROVE  used'[t].key = Key(t)
  <2>1. CASE t = s
    BY <1>1, <1>3, <2>1, Zenon DEF TypeOK
  <2>2. CASE t # s
    <3>1. used'[t] = used[t]
      BY <1>1, <1>3, <2>2, Zenon DEF TypeOK
    <3> QED
      BY <1>2, <3>1, Zenon
  <2> QED
    BY <2>1, <2>2, Zenon
<1>4. ASSUME NEW s \in Sends, FindFlow(s) PROVE used'[t].key = Key(t)
  <2>1. CASE ~UNCHANGED used
    <3>1. PICK i \in Places : Finds(Key(s), i) /\ used' = [used EXCEPT ![s] = flows[i]]
      BY <1>4, <2>1, Zenon DEF FindFlow
    <3>2. flows[i].key = Key(s)
      BY <3>1, Zenon DEF Finds, Matching
    <3> QED
      BY <1>3, <3>1, <3>2, Zenon
  <2> QED
    BY <1>2, <2>1, Zenon
<1>5. ASSUME NEW s \in Sends, BuildFlow(s) \/ BuildIntraledger(s) PROVE used'[t].key = Key(t)
  <2>1. PICK f \in FlowsWithoutRoute(s) : used' = [used EXCEPT ![s] = f]
    BY <1>5, Zenon DEF BuildFlow, BuildIntraledger
  <2> QED
    BY <1>3, <2>1, BuiltUnmarked, Zenon
<1>6. ASSUME NEW s \in Sends, PayTimesOut(s) PROVE used'[t].key = Key(t)
  <2>1. SendGood(s) /\ pc[s] = "paying"
    BY <1>6, Zenon DEF MarkInv, Inv, PayTimesOut
  <2>2. used[s] \in Flow /\ used[s].key = Key(s)
    BY <2>1, Zenon DEF MarkInv, KeysOwn, SendGood, Good
  <2>3. used' = [used EXCEPT ![s] = [used[s] EXCEPT !.pending = TRUE]]
    BY <1>6, Zenon DEF PayTimesOut
  <2>4. [used[s] EXCEPT !.pending = TRUE].key = Key(s)
    BY <2>2, FlagsPrice, Zenon
  <2> QED
    BY <1>3, <2>3, <2>4, Zenon
<1>7. ASSUME \/ \E s \in Sends : \/ ProbeFee(s) \/ Pay(s) \/ PayIntraledger(s)
                                 \/ LndResolves(s) \/ PayReturns(s) \/ UpdateLands(s)
                                 \/ DeleteLands(s) \/ Stop(s) \/ TakeFlow(s) \/ Resolve(s)
             \/ \E i \in Places : Expires(i)
             \/ deleteExpiredLightningPaymentFlows
             \/ \E r \in Receipts : ReceiveInvoice(r)
      PROVE  UNCHANGED used
  BY <1>7, ZenonT(60) DEF ProbeFee, Pay, PayIntraledger, LndResolves, PayReturns, UpdateLands,
     DeleteLands, Stop, TakeFlow, Resolve, Expires, deleteExpiredLightningPaymentFlows,
     ReceiveInvoice, sendVars
<1> QED
  BY <1>2, <1>4, <1>5, <1>6, <1>7, ZenonT(60) DEF Next, Step

\* A payment is entered in the ledger before its flow is marked.
LEMMA EnteredStep ==
  ASSUME MarkInv, Next
  PROVE  Entered'
<1> SUFFICES ASSUME NEW t \in Sends
             PROVE  /\ pc'[t] = "paying" \/ t \in marking' => journal'[t] # "none"
                    /\ t \in marking' => pc'[t] = "done"
  BY Zenon DEF Entered
<1> DEFINE Goal == /\ pc'[t] = "paying" \/ t \in marking' => journal'[t] # "none"
                   /\ t \in marking' => pc'[t] = "done"
<1>1. /\ TypeOK /\ Steady(t)
      /\ pc[t] = "paying" \/ t \in marking => journal[t] # "none"
      /\ t \in marking => pc[t] = "done"
  BY StepsSteady, Zenon DEF MarkInv, Entered, Inv
<1>2. ASSUME t \in marking' => t \in marking, pc'[t] = "paying" => pc[t] = "paying"
      PROVE  Goal
  BY <1>1, <1>2, Zenon DEF Steady
<1>3. ASSUME NEW s \in Sends, Pay(s) PROVE Goal
  <2>1. UNCHANGED marking
    BY <1>3, Zenon DEF Pay, recordVars
  <2>2. CASE pc'[t] # "paying" \/ pc[t] = "paying"
    BY <1>2, <2>1, <2>2, Zenon
  <2>3. CASE pc'[t] = "paying" /\ pc[t] # "paying"
    <3>1. journal'[t] = "pending"
      BY <1>1, <1>3, <2>3, ZenonT(60) DEF Pay, Goto, TypeOK
    <3>2. t \notin marking
      <4>1. pc[t] # "done"
        BY <1>1, <1>3, <2>3, ZenonT(60) DEF Pay, Goto, TypeOK
      <4> QED
        BY <1>1, <4>1, Zenon
    <3> QED
      BY <2>1, <3>1, <3>2, Zenon
  <2> QED
    BY <2>2, <2>3, Zenon
<1>4. ASSUME NEW s \in Sends, PayTimesOut(s) PROVE Goal
  <2>1. CASE t = s
    <3>1. pc'[t] = "done" /\ pc[t] = "paying" /\ UNCHANGED journal
      BY <1>1, <1>4, <2>1, Zenon DEF PayTimesOut, Goto, TypeOK, moneyVars
    <3> QED
      BY <1>1, <3>1, Zenon
  <2>2. CASE t # s
    <3>1. pc'[t] = pc[t] /\ (t \in marking' => t \in marking)
      BY <1>1, <1>4, <2>2, Zenon DEF PayTimesOut, Goto, TypeOK
    <3> QED
      BY <1>2, <3>1, Zenon
  <2> QED
    BY <2>1, <2>2, Zenon
<1>5. ASSUME NEW s \in Sends,
             \/ FindFlow(s) \/ BuildFlow(s) \/ BuildIntraledger(s) \/ PayIntraledger(s)
             \/ PayReturns(s) \/ Stop(s)
      PROVE  Goal
  <2>1. t \in marking' => t \in marking
    BY <1>5, Zenon DEF FindFlow, BuildFlow, BuildIntraledger, PayIntraledger, PayReturns, Stop,
       recordVars
  <2>2. pc'[t] = "paying" => pc[t] = "paying"
    <3>1. \E p \in {"build", "ready", "done"} : Goto(s, p)
      BY <1>5, Zenon DEF FindFlow, BuildFlow, BuildIntraledger, PayIntraledger, PayReturns, Stop
    <3>2. pc'[t] \in {pc[t], "build", "ready", "done"}
      BY <1>1, <3>1, Zenon DEF Goto, TypeOK
    <3> QED
      BY <3>2, Zenon
  <2> QED
    BY <1>2, <2>1, <2>2, Zenon
<1>6. ASSUME \/ \E s \in Sends : \/ ProbeFee(s) \/ LndResolves(s) \/ UpdateLands(s)
                                 \/ DeleteLands(s) \/ TakeFlow(s) \/ Resolve(s)
             \/ \E i \in Places : Expires(i)
             \/ deleteExpiredLightningPaymentFlows
             \/ \E r \in Receipts : ReceiveInvoice(r)
      PROVE  Goal
  <2>1. UNCHANGED pc /\ (t \in marking' => t \in marking)
    BY <1>6, ZenonT(60) DEF ProbeFee, LndResolves, UpdateLands, DeleteLands, TakeFlow, Resolve,
       Expires, deleteExpiredLightningPaymentFlows, ReceiveInvoice, sendVars, recordVars
  <2> QED
    BY <1>2, <2>1, Zenon
<1> QED
  BY <1>3, <1>4, <1>5, <1>6, Zenon DEF Next, Step

\* Nothing is marked, used or on its way at the start.
LEMMA MarkInit == Init => MarkInv
<1> SUFFICES ASSUME Init PROVE MarkInv
  OBVIOUS
<1>1. Stored = {}
  BY Zenon DEF Init, Stored
<1>2. \A s \in Sends : used[s] = None /\ pc[s] = "start" /\ s \notin marking
  BY Zenon DEF Init
<1>3. KeysOwn /\ MarksOwned
  BY <1>1, <1>2, Zenon DEF KeysOwn, MarksOwned
<1>4. Entered
  BY <1>2, Zenon DEF Entered
<1> QED
  BY <1>3, <1>4, InitInv, Zenon DEF MarkInv

\* Every step keeps marks with the payments they belong to.
LEMMA MarkNext == MarkInv /\ [Next]_vars => MarkInv'
<1> SUFFICES ASSUME MarkInv, [Next]_vars PROVE MarkInv'
  OBVIOUS
<1>1. Inv'
  BY NextInv, Zenon DEF MarkInv
<1>2. CASE Next
  <2>1. \A t \in Sends : Steady(t)
    BY <1>2, StepsSteady, Zenon DEF MarkInv
  <2>2. MarksOwned'
    <3>1. CASE \E s \in Sends : UpdateLands(s)
      BY <3>1, UpdateMarks, Zenon
    <3>2. CASE ~\E s \in Sends : UpdateLands(s)
      <4>1. \A i \in Stored' : Remains(i)
        BY <1>2, <3>2, RecordsRemain, Zenon DEF MarkInv
      <4> QED
        BY <2>1, <4>1, MarksKept, Zenon
    <3> QED
      BY <3>1, <3>2, Zenon
  <2> QED
    BY <1>1, <1>2, <2>2, KeysStep, EnteredStep, Zenon DEF MarkInv
<1>3. CASE UNCHANGED vars
  <2>1. UNCHANGED <<flows, pc, used, journal, marking>>
    BY <1>3, Zenon DEF vars, sendVars, recordVars, moneyVars
  <2>2. MarksOwned'
    BY <2>1, Zenon DEF MarkInv, MarksOwned, MarkOf, Matching, Stored
  <2>3. KeysOwn' /\ Entered'
    BY <2>1, Zenon DEF MarkInv, KeysOwn, Entered
  <2> QED
    BY <1>1, <2>2, <2>3, Zenon DEF MarkInv
<1> QED
  BY <1>2, <1>3, Zenon

\* The reconciler takes the record that is marked with the amounts charged.
LEMMA TakesOwn ==
  ASSUME MarkInv, NEW s \in Sends, TakeFlow(s), \E i \in Matching(LedgerKey(s)) : flows[i].pending
  PROVE  SamePrice(job'.flow, used[s])
<1>1. PICK i \in Matching(LedgerKey(s)) : flows[i].pending
  OBVIOUS
<1>2. i \in Stored /\ flows[i].key = LedgerKey(s)
  BY <1>1, Zenon DEF Matching
<1>3. PICK t \in Sends : MarkOf(i, t)
  BY <1>1, <1>2, Zenon DEF MarkInv, MarksOwned
<1>4. Hash[t] = Hash[s] /\ journal[t] = "pending"
  <2>1. LedgerKey(s)[2] = Hash[s]
    BY Zenon DEF LedgerKey
  <2>2. Hash[t] = Hash[s] /\ journal[t] # "none"
    BY <1>2, <1>3, <2>1, Zenon DEF MarkOf
  <2>3. journal[t] # "settled" /\ journal[t] \in {"none", "pending", "settled"}
    BY <2>2, Zenon DEF TakeFlow, isLnTxRecorded, MarkInv, Inv, TypeOK
  <2> QED
    BY <2>2, <2>3, Zenon
<1>5. t = s
  <2>1. journal[s] = "pending" /\ OnePending
    BY Zenon DEF TakeFlow, MarkInv, Inv
  <2> QED
    BY <1>4, <2>1, Zenon DEF OnePending
<1>6. SamePrice(flows[i], used[s]) /\ \A j \in Matching(LedgerKey(s)) : i <= j
  BY <1>2, <1>3, <1>4, <1>5, Zenon DEF MarkOf
<1>7. PICK k \in Places : /\ Finds(LedgerKey(s), k)
                          /\ job' = [send |-> s, flow |-> [flows[k] EXCEPT !.pending = FALSE]]
  BY <1>1, Zenon DEF TakeFlow
<1>8. k = i
  <2>1. k <= i /\ i <= k
    BY <1>1, <1>6, <1>7, Zenon DEF Finds
  <2>2. k \in Int /\ i \in Int
    <3>1. i \in Places
      BY <1>2, Zenon DEF Stored
    <3> QED
      BY <3>1, PaymentFlowsAssumption, SMT DEF Places
  <2> QED
    BY <2>1, <2>2, SMT
<1>9. SamePrice(job'.flow, flows[i])
  <2>1. flows[i] \in Flow
    BY <1>2, Zenon DEF MarkInv, Inv, TypeOK, Stored
  <2>2. job'.flow = [flows[i] EXCEPT !.pending = FALSE]
    BY <1>7, <1>8, Zenon
  <2>3. SamePrice([flows[i] EXCEPT !.pending = FALSE], flows[i])
    BY <2>1, FlagsPrice, Zenon
  <2> QED
    BY <2>2, <2>3, Zenon
<1> QED
  BY <1>6, <1>9, Zenon DEF SamePrice

\* markLightningPaymentFlowNotPending: for any sends, wallets and prices, when a record of
\* the payment is marked pending, the reconciler works with the amounts that were charged.
THEOREM PendingRecordsAreOwn == Spec => PendingRecordIsOwn
<1>1. ASSUME MarkInv, Next, NEW s \in Sends, job.send # s, job'.send = s,
             \E i \in Matching(LedgerKey(s)) : flows[i].pending
      PROVE  SamePrice(job'.flow, used[s])
  <2>1. TakeFlow(s)
    <3>1. job' # job
      BY <1>1, Zenon
    <3>2. job' # Idle
      <4>1. s # None
        BY PaymentFlowsAssumption, Zenon
      <4> QED
        BY <1>1, <4>1, SMT DEF Idle
    <3>3. \E t \in Sends : TakeFlow(t)
      BY <1>1, <3>1, <3>2, ZenonT(60) DEF Next, Step, ProbeFee, FindFlow, BuildFlow,
         BuildIntraledger, Pay, PayIntraledger, LndResolves, PayReturns, PayTimesOut, UpdateLands,
         DeleteLands, Stop, Resolve, Expires, deleteExpiredLightningPaymentFlows,
         ReceiveInvoice, jobVars
    <3>4. PICK t \in Sends : TakeFlow(t)
      BY <3>3, Zenon
    <3>5. job'.send = t
      BY <3>4, SMT DEF TakeFlow
    <3> QED
      BY <1>1, <3>4, <3>5, Zenon
  <2> QED
    BY <1>1, <2>1, TakesOwn, Zenon
<1>2. MarkInv /\ [Next]_vars =>
        [\A s \in Sends :
           /\ job.send # s /\ job'.send = s
           /\ \E i \in Matching(LedgerKey(s)) : flows[i].pending
           => SamePrice(job'.flow, used[s])]_vars
  BY <1>1, Zenon
<1> QED
  BY <1>2, MarkInit, MarkNext, PTL DEF Spec, PendingRecordIsOwn

-----------------------------------------------------------------------------
(***************************************************************************)
(* The ledger balances, for any finite number of wallets: every step       *)
(* leaves the accounts alone, or posts or voids one entry whose legs add   *)
(* up to nothing in each currency.                                         *)
(***************************************************************************)
INSTANCE SetTheorems

Parties == Wallets \cup {Lnd}
Pair == [btc : Int, usd : Int]

\* The accounts of a currency are finitely many, and hold the parties of that currency.
LEMMA AccountsSplit ==
  /\ IsFiniteSet(BtcAccounts) /\ IsFiniteSet(UsdAccounts)
  /\ BtcAccounts \subseteq Accounts /\ UsdAccounts \subseteq Accounts
  /\ IsFiniteSet(Usd) /\ IsFiniteSet(Wallets \ Usd)
  /\ "bank" \in BtcAccounts /\ "dealerBtc" \in BtcAccounts /\ "dealerUsd" \notin BtcAccounts
  /\ "bank" \notin UsdAccounts /\ "dealerBtc" \notin UsdAccounts /\ "dealerUsd" \in UsdAccounts
  /\ \A a \in Parties : /\ a \in BtcAccounts <=> Currency(a) = "BTC"
                        /\ a \in UsdAccounts <=> Currency(a) = "USD"
<1> USE PaymentFlowsAssumption
<1>1. IsFiniteSet(Usd) /\ IsFiniteSet(Wallets \ Usd)
  BY WalletsAssumption, FS_Subset, Zenon
<1>2. /\ BtcAccounts = (((Wallets \ Usd) \cup {Lnd}) \cup {"bank"}) \cup {"dealerBtc"}
      /\ UsdAccounts = Usd \cup {"dealerUsd"}
  BY Zenon DEF BtcAccounts, UsdAccounts
<1>3. IsFiniteSet(BtcAccounts) /\ IsFiniteSet(UsdAccounts)
  BY <1>1, <1>2, FS_AddElement, Zenon
<1>4. BtcAccounts \subseteq Accounts /\ UsdAccounts \subseteq Accounts
  BY Zenon DEF BtcAccounts, UsdAccounts, Accounts, Dealer
<1>5. /\ "bank" \in BtcAccounts /\ "dealerBtc" \in BtcAccounts /\ "dealerUsd" \notin BtcAccounts
      /\ "bank" \notin UsdAccounts /\ "dealerBtc" \notin UsdAccounts
      /\ "dealerUsd" \in UsdAccounts
  BY Zenon DEF BtcAccounts, UsdAccounts, Dealer, Lnd
<1>6. \A a \in Parties : /\ a \in BtcAccounts <=> Currency(a) = "BTC"
                         /\ a \in UsdAccounts <=> Currency(a) = "USD"
  BY Zenon DEF Parties, BtcAccounts, UsdAccounts, Currency, Dealer, Lnd
<1> QED
  BY <1>1, <1>3, <1>4, <1>5, <1>6, Zenon

\* The legs of an entry between two parties add up to nothing in either currency.
LEMMA LegsBalance ==
  ASSUME NEW from \in Parties, NEW to \in Parties, NEW total \in Pair,
         NEW legs, \A a \in Accounts : legs[a] = Leg(from, to, total, a)
  PROVE  /\ SumFunctionOnSet(legs, BtcAccounts) = 0
         /\ SumFunctionOnSet(legs, UsdAccounts) = 0
<1> DEFINE e == Entry(Currency(from), Currency(to), total, Zero)
<1>1. Currency(from) \in {"BTC", "USD"} /\ Currency(to) \in {"BTC", "USD"}
  BY Zenon DEF Currency
<1>2. /\ e.debited \in Int /\ e.credited \in Int /\ e.bank \in Int
      /\ e.dealerBtc \in Int /\ e.dealerUsd \in Int
  BY <1>1 DEF Entry, Conversion, In, Zero, Pair
<1>3. BtcTotal(Currency(from), Currency(to), e) = 0 /\ UsdTotal(Currency(from), Currency(to), e) = 0
  <2>1. Zero \in [btc : Int, usd : Int] /\ Zero = [btc |-> 0, usd |-> 0]
    BY DEF Zero
  <2>2. total \in [btc : Int, usd : Int]
    BY Zenon DEF Pair
  <2>3. Currency(from) = "USD" /\ Currency(to) = "USD" =>
          Zero.usd > 0 \/ Zero = [btc |-> 0, usd |-> 0]
    BY <2>1, Zenon
  <2> QED
    BY <1>1, <2>1, <2>2, <2>3, EntryBalances, Zenon
<1>4. \A a \in Accounts : legs[a] =
           (IF a = from THEN e.debited ELSE 0) + (IF a = to THEN e.credited ELSE 0)
         + (IF a = "bank" THEN e.bank ELSE 0) + (IF a = "dealerBtc" THEN e.dealerBtc ELSE 0)
         + (IF a = "dealerUsd" THEN e.dealerUsd ELSE 0)
  BY Zenon DEF Leg
<1> HIDE DEF e
<1>5. ASSUME NEW S, S \subseteq Accounts, IsFiniteSet(S)
      PROVE  SumFunctionOnSet(legs, S) =
           (IF from \in S THEN e.debited ELSE 0) + (IF to \in S THEN e.credited ELSE 0)
         + (IF "bank" \in S THEN e.bank ELSE 0) + (IF "dealerBtc" \in S THEN e.dealerBtc ELSE 0)
         + (IF "dealerUsd" \in S THEN e.dealerUsd ELSE 0)
  <2>1. PutOn(legs, S, from, e.debited, to, e.credited, "bank", e.bank,
              "dealerBtc", e.dealerBtc, "dealerUsd", e.dealerUsd)
    BY <1>4, <1>5, Zenon DEF PutOn
  <2> QED
    BY <1>2, <1>5, <2>1, SumPoints, Zenon
<1>6. /\ SumFunctionOnSet(legs, BtcAccounts) =
           (IF Currency(from) = "BTC" THEN e.debited ELSE 0)
         + (IF Currency(to) = "BTC" THEN e.credited ELSE 0) + e.bank + e.dealerBtc + 0
      /\ SumFunctionOnSet(legs, UsdAccounts) =
           (IF Currency(from) = "USD" THEN e.debited ELSE 0)
         + (IF Currency(to) = "USD" THEN e.credited ELSE 0) + 0 + 0 + e.dealerUsd
  <2> DEFINE Q(S) == SumFunctionOnSet(legs, S) =
           (IF from \in S THEN e.debited ELSE 0) + (IF to \in S THEN e.credited ELSE 0)
         + (IF "bank" \in S THEN e.bank ELSE 0) + (IF "dealerBtc" \in S THEN e.dealerBtc ELSE 0)
         + (IF "dealerUsd" \in S THEN e.dealerUsd ELSE 0)
  <2>1. Q(BtcAccounts) /\ Q(UsdAccounts)
    BY <1>5, AccountsSplit, Zenon
  <2> QED
    BY <2>1, AccountsSplit, Zenon
<1> DEFINE p == IF Currency(from) = "BTC" THEN e.debited ELSE 0
           q == IF Currency(to) = "BTC" THEN e.credited ELSE 0
           r == IF Currency(from) = "USD" THEN e.debited ELSE 0
           t == IF Currency(to) = "USD" THEN e.credited ELSE 0
           b == e.bank
           c == e.dealerBtc
           d == e.dealerUsd
<1>7. p \in Int /\ q \in Int /\ r \in Int /\ t \in Int /\ b \in Int /\ c \in Int /\ d \in Int
  BY <1>2
<1>8. /\ b + c + p + q = 0 /\ SumFunctionOnSet(legs, BtcAccounts) = p + q + b + c + 0
      /\ d + r + t = 0 /\ SumFunctionOnSet(legs, UsdAccounts) = r + t + 0 + 0 + d
  BY <1>3, <1>6, Zenon DEF BtcTotal, UsdTotal
<1> HIDE DEF p, q, r, t, b, c, d
<1> QED
  BY <1>7, <1>8

\* What an entry, or the void of one, does to the books.
Posts(from, to, total) ==
  \/ Post(from, to, total)
  \/ book' = [a \in Accounts |-> book[a] - Leg(from, to, total, a)]

\* Neither changes the total of a currency.
LEMMA PostBalances ==
  ASSUME NEW from \in Parties, NEW to \in Parties, NEW total \in Pair,
         book \in [Accounts -> Int], Posts(from, to, total), BooksBalance
  PROVE  BooksBalance'
<1> DEFINE legs == [a \in Accounts |-> Leg(from, to, total, a)]
<1>1. \A a \in Accounts : legs[a] = Leg(from, to, total, a)
  BY Zenon
<1>2. \A a \in Accounts : legs[a] \in Int /\ book[a] \in Int
  BY LegType, Zenon DEF Pair
<1>3. \/ \A a \in Accounts : book'[a] = book[a] + legs[a]
      \/ \A a \in Accounts : book'[a] = book[a] - legs[a]
  BY <1>1, Zenon DEF Posts, Post
<1>4. SumFunctionOnSet(legs, BtcAccounts) = 0 /\ SumFunctionOnSet(legs, UsdAccounts) = 0
  <2> HIDE DEF legs
  <2> QED
    BY <1>1, LegsBalance, Zenon
<1> HIDE DEF legs
<1>5. ASSUME NEW S, S \subseteq Accounts, IsFiniteSet(S), SumFunctionOnSet(legs, S) = 0
      PROVE  SumFunctionOnSet(book', S) = SumFunctionOnSet(book, S)
  <2>1. SumFunctionOnSet(book, S) \in Int
    BY <1>2, <1>5, SumType, Zenon
  <2>2. CASE \A a \in Accounts : book'[a] = book[a] + legs[a]
    <3>1. \A a \in S : book[a] \in Int /\ legs[a] \in Int /\ book'[a] = book[a] + legs[a]
      BY <1>2, <1>5, <2>2, Zenon
    <3>2. SumFunctionOnSet(book', S) = SumFunctionOnSet(book, S) + SumFunctionOnSet(legs, S)
      BY <1>5, <3>1, SumAdd, Zenon
    <3> QED
      BY <1>5, <2>1, <3>2
  <2>3. CASE \A a \in Accounts : book'[a] = book[a] - legs[a]
    <3>1. \A a \in S : book'[a] \in Int /\ legs[a] \in Int /\ book[a] = book'[a] + legs[a]
      BY <1>2, <1>5, <2>3
    <3>2. SumFunctionOnSet(book, S) = SumFunctionOnSet(book', S) + SumFunctionOnSet(legs, S)
      BY <1>5, <3>1, SumAdd, Zenon
    <3>3. SumFunctionOnSet(book', S) \in Int
      BY <1>5, <3>1, SumType, Zenon
    <3> QED
      BY <1>5, <3>2, <3>3
  <2> QED
    BY <1>3, <2>2, <2>3, Zenon
<1>6. /\ SumFunctionOnSet(book', BtcAccounts) = SumFunctionOnSet(book, BtcAccounts)
      /\ SumFunctionOnSet(book', UsdAccounts) = SumFunctionOnSet(book, UsdAccounts)
  BY <1>4, <1>5, AccountsSplit, Zenon
<1> QED
  BY <1>6, Zenon DEF BooksBalance, TotalOf, FundsOf, BtcAccounts, UsdAccounts

\* Every step leaves the books alone, or posts or voids one entry.
LEMMA StepPosts ==
  ASSUME Inv, [Next]_vars
  PROVE  \/ book' = book
         \/ \E from, to \in Parties, total \in Pair : Posts(from, to, total)
<1>0. TypeOK /\ JobGood /\ \A s \in Sends : SendGood(s)
  BY Zenon DEF Inv
<1>1. /\ Lnd \in Parties /\ \A w \in Wallets : w \in Parties
      /\ \A s \in Sends : From[s] \in Parties /\ To[s] \in Parties /\ From[s] \in Wallets
      /\ \A w \in Wallets : BtcWallet[w] \in Parties
  BY PaymentFlowsAssumption, Zenon DEF Parties
<1>2. ASSUME NEW f \in Flow
      PROVE  totalAmountsForPayment(f) \in Pair /\ Amounts(f) \in Pair
  BY TotalType DEF Pair
<1>3. ASSUME NEW s \in Sends, NEW f \in Flow, Good(used[s], s), Good(f, s), Closes(s, f)
      PROVE  book' = book \/ \E from, to \in Parties, total \in Pair : Posts(from, to, total)
  <2>1. CASE Void(s)
    <3>1. Posts(From[s], Lnd, totalAmountsForPayment(used[s]))
      BY <2>1, Zenon DEF Void, Posts
    <3> QED BY <1>1, <1>2, <1>3, <3>1, Zenon DEF Good
  <2>2. CASE GiveBack(s, BtcWallet[From[s]], totalAmountsForPayment(f))
    BY <1>1, <1>2, <1>3, <2>2, Zenon DEF GiveBack, Posts
  <2>3. CASE reimburseFee(s, f)
    <3>1. CASE f.btcFee > cost[s]
      <4> DEFINE r == getReimbursement(Amounts(f), f.btcFee, cost[s])
      <4>1. r \in Pair
        <5>1. cost[s] \in Nat
          BY <1>0, Zenon DEF TypeOK
        <5> QED BY <1>3, <3>1, <5>1, ReimbursementType DEF Pair
      <4>2. Posts(Lnd, From[s], r)
        BY <2>3, <3>1, Zenon DEF reimburseFee, GiveBack, Posts
      <4> QED BY <1>1, <4>1, <4>2, Zenon
    <3>2. CASE ~(f.btcFee > cost[s])
      BY <2>3, <3>2, Zenon DEF reimburseFee
    <3> QED BY <3>1, <3>2, Zenon
  <2> QED BY <1>3, <2>1, <2>2, <2>3, Zenon DEF Closes
<1>4. ASSUME NEW s \in Sends, Step(s)
      PROVE  book' = book \/ \E from, to \in Parties, total \in Pair : Posts(from, to, total)
  <2>1. CASE Pay(s)
    <3>1. CASE Post(From[s], Lnd, totalAmountsForPayment(used[s]))
      <4>1. used[s] \in Flow
        BY <1>0, <2>1, Zenon DEF Pay, SendGood, Good
      <4> QED BY <1>1, <1>2, <3>1, <4>1, Zenon DEF Posts
    <3> QED BY <2>1, <3>1, Zenon DEF Pay
  <2>2. CASE PayIntraledger(s)
    <3>1. CASE Post(From[s], To[s], Amounts(used[s]))
      <4>1. used[s] \in Flow
        BY <1>0, <2>2, Zenon DEF PayIntraledger, SendGood, Good
      <4> QED BY <1>1, <1>2, <3>1, <4>1, Zenon DEF Posts
    <3> QED BY <2>2, <3>1, Zenon DEF PayIntraledger
  <2>3. CASE PayReturns(s)
    <3>1. CASE journal[s] = "pending" /\ Closes(s, used[s])
      <4>1. Good(used[s], s) /\ used[s] \in Flow
        BY <1>0, <3>1, Zenon DEF SendGood, Good
      <4> QED BY <1>3, <3>1, <4>1, Zenon
    <3> QED BY <2>3, <3>1, Zenon DEF PayReturns, Closes, moneyVars
  <2>4. CASE Resolve(s)
    <3>1. CASE journal[s] = "pending" /\ Closes(s, job.flow)
      <4>1. Good(used[s], s)
        BY <1>0, <3>1, Zenon DEF SendGood
      <4>2. job.send = s
        BY <2>4, Zenon DEF Resolve
      <4>3. job # Idle
        BY <4>2, PaymentFlowsAssumption DEF Idle
      <4>4. Good(job.flow, s) /\ job.flow \in Flow
        BY <1>0, <4>2, <4>3, Zenon DEF JobGood, Good
      <4> QED BY <1>3, <3>1, <4>1, <4>4, Zenon
    <3> QED BY <2>4, <3>1, Zenon DEF Resolve, Closes, moneyVars
  <2>5. CASE \/ ProbeFee(s) \/ FindFlow(s) \/ BuildFlow(s) \/ BuildIntraledger(s)
            \/ LndResolves(s) \/ PayTimesOut(s) \/ UpdateLands(s) \/ DeleteLands(s)
            \/ Stop(s) \/ TakeFlow(s)
    BY <2>5, Zenon DEF ProbeFee, FindFlow, BuildFlow, BuildIntraledger, LndResolves, PayTimesOut,
       UpdateLands, DeleteLands, Stop, TakeFlow, moneyVars
  <2> QED BY <1>4, <2>1, <2>2, <2>3, <2>4, <2>5, Zenon DEF Step
<1>5. ASSUME NEW r \in Receipts, ReceiveInvoice(r)
      PROVE  \E from, to \in Parties, total \in Pair : Posts(from, to, total)
  <2> DEFINE T(p) == [btc |-> r.sats,
                      usd |-> IF r.wallet \in Usd /\ r.cents > 0 THEN r.cents
                                                                 ELSE convertFromBtc(p, r.sats)]
  <2>1. PICK p \in Prices : Post(Lnd, r.wallet, T(p))
    BY <1>5, Zenon DEF ReceiveInvoice
  <2>2. r.wallet \in Wallets /\ r.sats \in Nat /\ r.cents \in Nat
    BY PaymentFlowsAssumption, Zenon
  <2>3. p \in Ratio
    BY PricesAssumption, Zenon DEF Ratio
  <2>4. convertFromBtc(p, r.sats) \in Nat
    BY <2>2, <2>3, Conversions, Zenon
  <2>5. T(p) \in Pair
    BY <2>2, <2>4 DEF Pair
  <2> QED BY <1>1, <2>1, <2>2, <2>5, Zenon DEF Posts
<1> QED
  BY <1>4, <1>5, Zenon DEF Next, vars, moneyVars, Expires, deleteExpiredLightningPaymentFlows

\* At first the wallets hold their funds and the other accounts nothing.
LEMMA BalanceInit == Init => BooksBalance
<1> SUFFICES ASSUME Init PROVE BooksBalance
  OBVIOUS
<1> USE PaymentFlowsAssumption
<1>1. ASSUME NEW S, NEW W \in SUBSET S, IsFiniteSet(S), S \subseteq Accounts, W \subseteq Wallets,
             (S \ W) \cap Wallets = {}
      PROVE  SumFunctionOnSet(Funds, W) = SumFunctionOnSet(book, S)
  <2>1. \A a \in S : book[a] = IF a \in W THEN Funds[a] ELSE 0
    BY <1>1, Zenon DEF Init
  <2>2. \A a \in W : Funds[a] \in Int
    BY <1>1
  <2> QED
    BY <1>1, <2>1, <2>2, SumPart, SMT
<1>2. /\ Wallets \ Usd \subseteq BtcAccounts /\ (BtcAccounts \ (Wallets \ Usd)) \cap Wallets = {}
      /\ Usd \subseteq UsdAccounts /\ (UsdAccounts \ Usd) \cap Wallets = {}
  BY Zenon DEF BtcAccounts, UsdAccounts, Dealer
<1> QED
  BY <1>1, <1>2, AccountsSplit, Zenon DEF BooksBalance, TotalOf, FundsOf

\* Payments, refunds and receipts never create or lose a sat or a cent in the ledger as a
\* whole, for all wallets, amounts and prices.
THEOREM BooksBalanceHolds == Spec => []BooksBalance
<1>1. ASSUME Inv, BooksBalance, [Next]_vars PROVE BooksBalance'
  <2>1. CASE book' = book
    BY <1>1, <2>1, Zenon DEF BooksBalance, TotalOf, FundsOf, BtcAccounts, UsdAccounts
  <2>2. CASE \E from, to \in Parties, total \in Pair : Posts(from, to, total)
    <3>1. book \in [Accounts -> Int]
      BY <1>1, Zenon DEF Inv, TypeOK
    <3> QED BY <1>1, <2>2, <3>1, PostBalances, Zenon
  <2> QED BY <1>1, <2>1, <2>2, StepPosts, Zenon
<1> QED
  BY <1>1, BalanceInit, InvHolds, PTL DEF Spec
=============================================================================
