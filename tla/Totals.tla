------------------------------- MODULE Totals -------------------------------
(***************************************************************************)
(* Adding up the entries of a ledger: f[x] over the accounts x of a finite *)
(* set.  The ledgers of the project are sums of this form.                 *)
(***************************************************************************)
EXTENDS Integers, FiniteSetsExt

Total(f, S) == MapThenSumSet(LAMBDA x : f[x], S)
=============================================================================
