---------------------------- MODULE MCNodeBooks ----------------------------
(***************************************************************************)
(* Instance of NodeBooks: five days, and fees on each of them.             *)
(***************************************************************************)
EXTENDS NodeBooks
=============================================================================
