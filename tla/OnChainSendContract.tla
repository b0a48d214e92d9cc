------------------------- MODULE OnChainSendContract -------------------------
(***************************************************************************)
(* What the senders of on-chain payments are promised, whoever carries a   *)
(* payment out: it is charged to the wallet once, and before it is sent;   *)
(* no more is sent than was charged; it is final only after the network    *)
(* has confirmed it; or the whole charge is given back, once, and then it  *)
(* is never sent.  Apart from that, money only moves between wallets.      *)
(***************************************************************************)
EXTENDS Integers

CONSTANTS Wallets, Requests, WalletOf, InitBalance

VARIABLES
  stage,    \* idle, held, sent, confirmed, settled or returned
  charge,   \* what the sender is charged
  paid,     \* what was sent to the address
  balance   \* of each wallet

Init ==
  /\ stage = [r \in Requests |-> "idle"]
  /\ charge = [r \in Requests |-> 0] /\ paid = [r \in Requests |-> 0]
  /\ balance = [w \in Wallets |-> InitBalance]

Become(r, from, to) == stage[r] = from /\ stage' = [stage EXCEPT ![r] = to]

Hold(r) ==
  LET sats == charge'[r] IN
  /\ Become(r, "idle", "held")
  /\ sats \in Nat /\ charge' = [charge EXCEPT ![r] = sats]
  /\ balance' = [balance EXCEPT ![WalletOf[r]] = @ - sats]
  /\ UNCHANGED paid

Send(r) ==
  /\ Become(r, "held", "sent")
  /\ paid'[r] \in 0..charge[r] /\ paid' = [paid EXCEPT ![r] = paid'[r]]
  /\ UNCHANGED <<charge, balance>>

Confirm(r) == Become(r, "sent", "confirmed") /\ UNCHANGED <<charge, paid, balance>>

Settle(r) == Become(r, "confirmed", "settled") /\ UNCHANGED <<charge, paid, balance>>

GiveBack(r) ==
  /\ Become(r, "held", "returned")
  /\ balance' = [balance EXCEPT ![WalletOf[r]] = @ + charge[r]]
  /\ charge' = [charge EXCEPT ![r] = 0]
  /\ UNCHANGED paid

\* A payment to an address of the bank.
Transfer(r) ==
  LET sats == balance[WalletOf[r]] - balance'[WalletOf[r]] IN
  /\ stage[r] = "idle" /\ sats \in Nat
  /\ \E w \in Wallets \ {WalletOf[r]} :
       balance' = [balance EXCEPT ![WalletOf[r]] = @ - sats, ![w] = @ + sats]
  /\ UNCHANGED <<stage, charge, paid>>

Next ==
  \E r \in Requests : \/ Hold(r) \/ Send(r) \/ Confirm(r) \/ Settle(r) \/ GiveBack(r)
                      \/ Transfer(r)

vars == <<stage, charge, paid, balance>>

Spec == Init /\ [][Next]_vars
=============================================================================
