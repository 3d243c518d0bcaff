-------------------------- MODULE MCConnectionPool --------------------------
(* ConnectionPool with two tasks, the watchdog and the six connections that  *)
(* suffice for them; and with the code's ten connections (db/connection.py)  *)
(* and the five jobs that the queue of short texts runs.                     *)
EXTENDS ConnectionPool, TLC

CONSTANTS t1, t2, t3, t4, t5

TwoTasks == {t1, t2}

FiveTasks == {t1, t2, t3, t4, t5}

\* Safety only: no liveness property is checked with it.
Symmetry == Permutations(FiveTasks)
=============================================================================
