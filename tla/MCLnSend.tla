------------------------------ MODULE MCLnSend ------------------------------
(***************************************************************************)
(* Instances of LnSend for TLC.  BTC wallet b1 and USD wallet u1 are one   *)
(* account, b2 is another.  The config names the scenario.                 *)
(***************************************************************************)
EXTENDS LnSend, TLC

WorkerSymmetry == Permutations(Workers)

CONSTANTS b1, u1, b2, h1, h2, a1, a2

\* One wallet, two payments of different invoices.
Wallet1 == {b1}
BtcSelf == [w \in {b1} |-> b1]
BothFromB1 == a1 :> b1 @@ a2 :> b1
TwoHashes == a1 :> h1 @@ a2 :> h2

\* Two payments of one invoice.
OneHash == a1 :> h1 @@ a2 :> h1

\* The BTC and the USD wallet of an account.
Wallet2 == {b1, u1}
BtcOfAccount == b1 :> b1 @@ u1 :> b1
FromB1U1 == a1 :> b1 @@ a2 :> u1

\* One payment from the USD wallet.
U1Once == a1 :> u1
H1Once == a1 :> h1

\* BTC wallets of two accounts.
Wallet3 == {b1, b2}
BtcSelves == [w \in {b1, b2} |-> w]
FromB1B2 == a1 :> b1 @@ a2 :> b2

Everywhere == RequestPoints \cup WorkerPoints
WhilePaying == {"paying"}
Nowhere == {}
=============================================================================
