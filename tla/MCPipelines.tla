------------------------------ MODULE MCPipelines ------------------------------
EXTENDS Pipelines, TLC

CONSTANTS j1, j2, t1

TwoJobs == {j1, j2}
OneTopic == {t1}

UnclearSource == [stance |-> "UNCLEAR", quality |-> 5]
OnePool == {<<UnclearSource>>}

SymmetryOfTwo == Permutations(TwoJobs)
===============================================================================
