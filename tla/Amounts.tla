------------------------------ MODULE Amounts ------------------------------
(***************************************************************************)
(* The arithmetic of payments: integer division as AmountCalculator does   *)
(* it, conversions at the price ratio of a payment, protocol fees and      *)
(* their reimbursement, and the legs EntryBuilder gives a journal.         *)
(* Amounts are natural numbers of sats ("BTC") or cents ("USD"); a pair    *)
(* [btc, usd] is one value in both.                                        *)
(***************************************************************************)
EXTENDS Integers

divFloor(a, b) == a \div b

divRound(a, b) == IF a % b > b \div 2 THEN a \div b + 1 ELSE a \div b

divCeil(a, b) == IF a % b > 0 THEN a \div b + 1 ELSE a \div b

mulBasisPoints(a, points) == divRound(a * points, 10000)

(***************************************************************************)
(* PriceRatio: ratio is the pair of a payment's amounts.                   *)
(***************************************************************************)
ValidRatio(ratio) == ratio.usd # 0 /\ ratio.btc # 0

AtLeastOne(a) == IF a = 0 THEN 1 ELSE a

convertFromUsd(ratio, cents) ==
  IF cents = 0 THEN 0 ELSE AtLeastOne(divRound(cents * ratio.btc, ratio.usd))

convertFromBtc(ratio, sats) ==
  IF sats = 0 THEN 0 ELSE AtLeastOne(divRound(sats * ratio.usd, ratio.btc))

convertFromBtcToFloor(ratio, sats) == divFloor(sats * ratio.usd, ratio.btc)

convertFromBtcToCeil(ratio, sats) == divCeil(sats * ratio.usd, ratio.btc)

(***************************************************************************)
(* LnFees.maxProtocolFee and FeeReimbursement.getReimbursement.  The       *)
(* reimbursement is only asked for when prepaid >= actual.                 *)
(***************************************************************************)
maxProtocolFee(amount, points) ==
  IF amount = 0 THEN 0 ELSE AtLeastOne(mulBasisPoints(amount, points))

\* The sats taken for cents (mutant), or the whole fee given back (mutant).
ReimburseSatsAsCents(ratio, prepaid, actual) ==
  [btc |-> prepaid - actual, usd |-> prepaid - actual]

ReimburseWholeFee(ratio, prepaid, actual) ==
  [btc |-> prepaid - actual, usd |-> convertFromBtc(ratio, prepaid)]

getReimbursement(ratio, prepaid, actual) ==
  [btc |-> prepaid - actual,
   usd |-> IF actual = 0 THEN convertFromBtc(ratio, prepaid)
                         ELSE convertFromBtcToFloor(ratio, prepaid - actual)]

(***************************************************************************)
(* EntryBuilder: the legs of a journal that debits an account of currency  *)
(* from and credits one of currency to.  A leg is what is credited to the  *)
(* account, negative for a debit.  total includes the bank's fee.          *)
(***************************************************************************)
\* The dealer does not stand in for BTC that becomes USD (mutant).
ConversionOneWay(from, to, total, fee) ==
  CASE from = "USD" /\ to = "USD" /\ fee.usd > 0 -> [btc |-> -fee.btc, usd |-> fee.usd]
    [] from = "USD" /\ to = "BTC" -> [btc |-> -total.btc, usd |-> total.usd]
    [] OTHER -> [btc |-> 0, usd |-> 0]

\* Legs of the dealer's two accounts.
Conversion(from, to, total, fee) ==
  CASE from = "USD" /\ to = "USD" /\ fee.usd > 0 -> [btc |-> -fee.btc, usd |-> fee.usd]
    [] from = "USD" /\ to = "BTC" -> [btc |-> -total.btc, usd |-> total.usd]
    [] from = "BTC" /\ to = "USD" -> [btc |-> total.btc - fee.btc, usd |-> fee.usd - total.usd]
    [] OTHER -> [btc |-> 0, usd |-> 0]

In(currency, pair) == IF currency = "BTC" THEN pair.btc ELSE pair.usd

Entry(from, to, total, fee) ==
  [bank      |-> fee.btc,
   debited   |-> -In(from, total),
   credited  |-> In(to, total) - In(to, fee),
   dealerBtc |-> Conversion(from, to, total, fee).btc,
   dealerUsd |-> Conversion(from, to, total, fee).usd]

\* What an entry adds to all accounts in BTC, and in USD.
BtcTotal(from, to, entry) ==
  entry.bank + entry.dealerBtc + (IF from = "BTC" THEN entry.debited ELSE 0)
                               + (IF to = "BTC" THEN entry.credited ELSE 0)
UsdTotal(from, to, entry) ==
  entry.dealerUsd + (IF from = "USD" THEN entry.debited ELSE 0)
                  + (IF to = "USD" THEN entry.credited ELSE 0)
=============================================================================
