------------------------------ MODULE JobResults ------------------------------
(***************************************************************************)
(* What the results of jobs promise to those who read them (the REST API,  *)
(* the reuse of finished jobs), however many runs share their tables.      *)
(*                                                                         *)
(* A job's results only grow, by steps of its own run, and stand as they   *)
(* are when that run is over; a job that is COMPLETE has an article, a     *)
(* bias row and an overall verdict.  Repetitions of a source do not count. *)
(***************************************************************************)
EXTENDS Integers

CONSTANT Jobs

VARIABLES
  status,
  over,      \* the jobs whose runs are over
  rows       \* what the tables hold for a job

vars == <<status, over, rows>>

Nothing == [articles |-> {}, bias |-> {}, claims |-> {}, sources |-> {}, verdicts |-> {}]

Init ==
  /\ status = [j \in Jobs |-> "PENDING"]
  /\ over = {}
  /\ rows = [j \in Jobs |-> Nothing]

Within(r, s) ==
  /\ r.articles \subseteq s.articles
  /\ r.bias \subseteq s.bias
  /\ r.claims \subseteq s.claims
  /\ r.sources \subseteq s.sources
  /\ r.verdicts \subseteq s.verdicts

\* The claim of an overall verdict is 0.
Readable(r) ==
  r.articles # {} /\ r.bias # {} /\ \E v \in r.verdicts : v.claim = 0

\* The run of j does something.
Write(j) ==
  /\ j \notin over
  /\ Within(rows[j], rows'[j])
  /\ status'[j] = "COMPLETE" => Readable(rows'[j])
  /\ over' \in {over, over \cup {j}}
  /\ \A k \in Jobs \ {j} : rows'[k] = rows[k] /\ status'[k] = status[k]

Next == \E j \in Jobs : Write(j)

Spec == Init /\ [][Next]_vars
=============================================================================
