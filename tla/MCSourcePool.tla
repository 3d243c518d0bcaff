----------------------------- MODULE MCSourcePool -----------------------------
EXTENDS SourcePool, TLC

CONSTANTS j1, j2, q1, q2

TwoJobs == {j1, j2}
TwoQueries == {q1, q2}

\* A job of the fast path and one of the standard path.
FastAndStandard == (j1 :> 1) @@ (j2 :> 2)

Symmetry == Permutations(TwoQueries)
===============================================================================
