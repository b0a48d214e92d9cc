----------------------------- MODULE MCSwapOut -----------------------------
(***************************************************************************)
(* Instance of SwapOut: a swap that two triggers, as during a roll-out,    *)
(* hear of, each with two calls of the handler.                            *)
(***************************************************************************)
EXTENDS SwapOut
=============================================================================
