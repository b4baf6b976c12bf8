-------------------------------- MODULE Sums --------------------------------
(***************************************************************************)
(* Totals: what a function's values over a set add up to.                  *)
(***************************************************************************)
EXTENDS FiniteSetsExt

SumOver(f, S) == MapThenSumSet(LAMBDA x : f[x], S)
=============================================================================
