----------------------------- MODULE Deployment -----------------------------
(***************************************************************************)
(* What the modules of the admin's desk have in common: whether the server *)
(* has transactions, and that it may stop.                                 *)
(***************************************************************************)

CONSTANTS
  None,        \* null
  Parties,
  MaxCrashes   \* bound: how often the process may stop

VARIABLE useTransactions   \* supportsTransactions()
=============================================================================
