--------------------------- MODULE LnSendContract ---------------------------
(***************************************************************************)
(* What a sender is promised for each lightning payment, whoever carries   *)
(* it out: the amount and the most the fee can be are taken first; then    *)
(* the payment is delivered, and the fee that was not spent is given back  *)
(* once; or all of it is given back, once, and it is never delivered.      *)
(***************************************************************************)
EXTENDS Integers

CONSTANTS Attempts, Amount, MaxFee

VARIABLES stage, charge

Init ==
  /\ stage = [a \in Attempts |-> "idle"]
  /\ charge = [a \in Attempts |-> 0]

Hold(a) ==
  /\ stage[a] = "idle"
  /\ stage' = [stage EXCEPT ![a] = "held"]
  /\ charge' = [charge EXCEPT ![a] = Amount + MaxFee]

Deliver(a) ==
  /\ stage[a] = "held"
  /\ stage' = [stage EXCEPT ![a] = "delivered"]
  /\ UNCHANGED charge

Refund(a) ==
  /\ stage[a] = "held"
  /\ stage' = [stage EXCEPT ![a] = "refunded"]
  /\ charge' = [charge EXCEPT ![a] = 0]

FeeBack(a) ==
  /\ stage[a] = "delivered"
  /\ charge[a] = Amount + MaxFee
  /\ \E spent \in 0..(MaxFee - 1) : charge' = [charge EXCEPT ![a] = Amount + spent]
  /\ UNCHANGED stage

Next == \E a \in Attempts : Hold(a) \/ Deliver(a) \/ Refund(a) \/ FeeBack(a)

vars == <<stage, charge>>

Spec == Init /\ [][Next]_vars
=============================================================================
