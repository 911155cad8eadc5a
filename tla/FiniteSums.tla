----------------------------- MODULE FiniteSums -----------------------------
(* Sums over finite sets, shared by the models that add up amounts.        *)
EXTENDS FiniteSets, FiniteSetsExt

\* The values of f added up over the finite set S.
SumOver(f, S) == MapThenSumSet(LAMBDA x : f[x], S)
============================================================================
