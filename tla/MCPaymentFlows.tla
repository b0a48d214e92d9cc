--------------------------- MODULE MCPaymentFlows ---------------------------
(***************************************************************************)
(* An instance of PaymentFlows for TLC: an account with a BTC and a USD    *)
(* wallet, prices of five and of six cents for ten sats.                   *)
(***************************************************************************)
EXTENDS PaymentFlows

CONSTANTS s1, s2, h1, h2, btc, usd

MCWallets == {btc, usd}
MCUsd == {usd}
MCBtcWallet == [w \in MCWallets |-> btc]
MCFunds == [w \in MCWallets |-> IF w = btc THEN 12 ELSE 7]
MCPrices == {[usd |-> 6, btc |-> 10], [usd |-> 5, btc |-> 10]}
OneReceipt == {[wallet |-> usd, sats |-> 10, cents |-> 4]}

\* An outside payment of the USD wallet, and a transfer to the BTC wallet of the account.
SendsAll == {s1, s2}
FromUsd == [s \in SendsAll |-> usd]
ToLndAndBtc == [s \in SendsAll |-> IF s = s1 THEN "lnd" ELSE btc]
TwoHashes == [s \in SendsAll |-> IF s = s1 THEN h1 ELSE h2]
FourAndTwo == [s \in SendsAll |-> IF s = s1 THEN 4 ELSE 2]
=============================================================================
