-------------------------- MODULE MCOnChainReceive --------------------------
(***************************************************************************)
(* An instance of OnChainReceive for TLC: a transaction that pays one      *)
(* wallet twice and another one once, and a withdrawal from cold storage   *)
(* of two outputs, with change between them.                               *)
(***************************************************************************)
EXTENDS OnChainReceive

CONSTANTS deposit, withdrawal, w1, w2

Outputs == [t \in Txs |-> IF t = deposit THEN <<w1, w2, w1>> ELSE <<Hot, Cold, Hot>>]
=============================================================================
