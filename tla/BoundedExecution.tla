-------------------------- MODULE BoundedExecution --------------------------
(***************************************************************************)
(* What a caller of orchestration/worker_executor.py may rely on: every    *)
(* job runs at most once, and at no time do more than Capacity jobs run.   *)
(* Nothing is said about slots, queues or who admits whom.                 *)
(***************************************************************************)
EXTENDS Naturals, FiniteSets

CONSTANTS Jobs,      \* the jobs that may ever be handed to the pool
          Capacity   \* how many of them may run at the same time

VARIABLES running,   \* jobs whose pipeline is executing
          over       \* jobs whose pipeline has ended

vars == <<running, over>>

Init == running = {} /\ over = {}

Start(j) ==
  /\ j \notin running \cup over
  /\ Cardinality(running) < Capacity
  /\ running' = running \cup {j}
  /\ UNCHANGED over

Stop(j) ==
  /\ j \in running
  /\ running' = running \ {j}
  /\ over' = over \cup {j}

Next == \E j \in Jobs : Start(j) \/ Stop(j)

Spec == Init /\ [][Next]_vars
=============================================================================
