------------------------------- MODULE Totals -------------------------------
(***************************************************************************)
(* Totals of amounts, as the properties compare them with a bucket or a    *)
(* cumulative_amount.                                                      *)
(***************************************************************************)
EXTENDS FiniteSetsExt

\* The sum of f[x] over the members x of S.
SumOver(f, S) == MapThenSumSet(LAMBDA x : f[x], S)
=============================================================================
