---------------------------- MODULE MCLnPayments ----------------------------
(***************************************************************************)
(* Instance of LnPayments: two payments, made three times in all, on pages *)
(* of one and of two.                                                      *)
(***************************************************************************)
EXTENDS LnPayments
=============================================================================
