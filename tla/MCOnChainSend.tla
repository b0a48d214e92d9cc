--------------------------- MODULE MCOnChainSend ---------------------------
(***************************************************************************)
(* Instances of OnChainSend for TLC: the requests come from one wallet and *)
(* pay outside, another wallet of the bank, or the wallet itself.          *)
(***************************************************************************)
EXTENDS OnChainSend

CONSTANTS w1

OneWallet == [r \in Requests |-> w1]
=============================================================================
