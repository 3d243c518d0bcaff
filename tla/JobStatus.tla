------------------------------ MODULE JobStatus ------------------------------
(***************************************************************************)
(* What the column jobs.status promises to those who read it (the REST     *)
(* API, the history page, the hydration of a job page): the order of its   *)
(* values, whoever of the gateway, the worker, the watchdog and the        *)
(* startup cleanup writes them, and however their writes interleave.       *)
(*                                                                         *)
(* A job is submitted once and never becomes PENDING again.  A result is   *)
(* written only for a job that was started before, a result is never       *)
(* turned back into PROCESSING, and only FAILED may replace anything.      *)
(***************************************************************************)
CONSTANT Jobs

VARIABLE status

Values == {"ABSENT", "PENDING", "PROCESSING", "COMPLETE", "PARTIAL", "FAILED"}

Results == {"COMPLETE", "PARTIAL"}

Init == status = [j \in Jobs |-> "ABSENT"]

\* Whether a row that holds s may hold n next.
MayFollow(s, n) ==
  \/ n = s
  \/ s = "ABSENT" /\ n = "PENDING"
  \/ s = "PENDING" /\ n \in {"PROCESSING", "FAILED"}
  \/ s \in {"PROCESSING", "FAILED"} /\ n \in Results \cup {"PROCESSING", "FAILED"}
  \/ s \in Results /\ n \in Results \cup {"FAILED"}

\* One statement may change several rows (the startup cleanup).
Next == \E new \in [Jobs -> Values] :
          /\ \A j \in Jobs : MayFollow(status[j], new[j])
          /\ status' = new

Spec == Init /\ [][Next]_status
=============================================================================
