------------------------------ MODULE Submission ------------------------------
(***************************************************************************)
(* How the gateway takes jobs: the requests of one user to POST /api/jobs, *)
(* the hourly limit in Redis and the search for a finished job of the same *)
(* URL (JobService.createJob, RateLimitService).  The limit on logins      *)
(* (AuthController) is the same counter, counted before it is used.        *)
(*                                                                         *)
(* A request runs in a thread of its own and inside a database             *)
(* transaction.  Its phases end at a call of the database or of Redis:     *)
(*                                                                         *)
(*   new       not sent                                                    *)
(*   lookup    about to look for a finished job of the URL                 *)
(*   check     about to read the counter                                   *)
(*   incr      job saved in the transaction, about to count it             *)
(*   expire    counted as the first, about to set the expiry               *)
(*   commit    about to commit                                             *)
(*   accepted, cached, limited, ambiguous                                  *)
(*             answered: 201, 200 with an earlier job, 429, and 500 for     *)
(*             more than one earlier job                                   *)
(*   broken    ended by an exception or with the process: rolled back      *)
(*   brokeCounting                                                         *)
(*             the same, at INCR or EXPIRE                                 *)
(***************************************************************************)
EXTENDS Naturals, FiniteSets

CONSTANTS
  Requests,
  Urls,        \* requests that carry the same URL; the others carry text alone
  Lookups,     \* those of input_type=url; a text request may carry a URL as well
  MaxJobs,     \* app.rate-limit.max-jobs-per-hour
  Threads      \* how many requests are handled at the same time

ASSUME RequestAssumption == IsFiniteSet(Requests) /\ Urls \subseteq Requests /\ Lookups \subseteq Urls

ASSUME LimitAssumption == MaxJobs \in Nat \ {0} /\ Threads \in Nat \ {0}

VARIABLES
  phase,
  count,      \* ratelimit:jobs:<user>, 0 without the key
  expires,    \* the key has an expiry
  job,        \* status of the job of a request, as far as it is committed
  fresh,      \* the jobs created in the last 24 hours
  seen        \* history: the jobs that had finished when the request looked

redis == <<count, expires>>
rows == <<job, fresh>>
vars == <<phase, redis, rows, seen>>

Active == {"lookup", "check", "incr", "expire", "commit"}

Busy == {r \in Requests : phase[r] \in Active}

\* The URL is stored with the job whatever type the request is of.
Finished == {r \in Urls : job[r] = "COMPLETE"}
-------------------------------------------------------------------------------
Init ==
  /\ phase = [r \in Requests |-> "new"]
  /\ count = 0 /\ expires = FALSE
  /\ job = [r \in Requests |-> "none"]
  /\ fresh = {}
  /\ seen = [r \in Requests |-> {}]

Goto(r, p) == phase' = [phase EXCEPT ![r] = p]

\* Only a request of type url looks for a finished job.
Arrive(r) ==
  /\ phase[r] = "new"
  /\ Cardinality(Busy) < Threads
  /\ Goto(r, IF r \in Lookups THEN "lookup" ELSE "check")
  /\ UNCHANGED <<redis, rows, seen>>

\* A slip, used by no behaviour of Spec: jobs that are still to be run are found.
FoundPending == {r \in fresh \cap Urls : job[r] = "PENDING"}

\* The finished jobs of the URL in the last 24 hours.
Found == fresh \cap Finished

\* The query has no LIMIT and its result is one job or none.
Lookup(r) ==
  /\ phase[r] = "lookup"
  /\ seen' = [seen EXCEPT ![r] = Finished]
  /\ Goto(r, IF Found = {} THEN "check"
             ELSE IF Cardinality(Found) = 1 THEN "cached" ELSE "ambiguous")
  /\ UNCHANGED <<redis, rows>>

\* A slip, used by no behaviour of Spec: one job more than the limit.
CheckLate(r) ==
  /\ phase[r] = "check"
  /\ Goto(r, IF count > MaxJobs THEN "limited" ELSE "incr")
  /\ UNCHANGED <<redis, rows, seen>>

\* checkJobRateLimit, and the save of the job in the transaction.
Check(r) ==
  /\ phase[r] = "check"
  /\ Goto(r, IF count >= MaxJobs THEN "limited" ELSE "incr")
  /\ UNCHANGED <<redis, rows, seen>>

\* A slip, used by no behaviour of Spec: the counter is read and set anew.
IncrBySet(r) ==
  /\ phase[r] = "incr"
  /\ count' = count + 1
  /\ expires' = FALSE
  /\ Goto(r, IF count = 0 THEN "expire" ELSE "commit")
  /\ UNCHANGED <<rows, seen>>

\* INCR, which creates the key without an expiry.
Incr(r) ==
  /\ phase[r] = "incr"
  /\ count' = count + 1
  /\ Goto(r, IF count = 0 THEN "expire" ELSE "commit")
  /\ UNCHANGED <<expires, rows, seen>>

\* EXPIRE finds the key, which nothing else removes.
Expire(r) ==
  /\ phase[r] = "expire"
  /\ expires' = TRUE
  /\ Goto(r, "commit")
  /\ UNCHANGED <<count, rows, seen>>

\* The row becomes visible, and the dispatch follows.
Commit(r) ==
  /\ phase[r] = "commit"
  /\ job' = [job EXCEPT ![r] = "PENDING"]
  /\ fresh' = fresh \cup {r}
  /\ Goto(r, "accepted")
  /\ UNCHANGED <<redis, seen>>

\* A slip, used by no behaviour of Spec: a request that breaks off takes back a
\* count that it has not made.
BreakUncounts(r) ==
  /\ phase[r] \in Active
  /\ count' = count - 1
  /\ Goto(r, "broken")
  /\ UNCHANGED <<expires, rows, seen>>

\* An exception of the database or of Redis, or the end of the process.  A call
\* that raises may still have been carried out by Redis.
Break(r) ==
  /\ phase[r] \in Active
  /\ \/ UNCHANGED redis
     \/ phase[r] = "incr" /\ count' = count + 1 /\ UNCHANGED expires
     \/ phase[r] = "expire" /\ expires' = TRUE /\ UNCHANGED count
  /\ Goto(r, IF phase[r] \in {"incr", "expire"} THEN "brokeCounting" ELSE "broken")
  /\ UNCHANGED <<rows, seen>>
-------------------------------------------------------------------------------
(* Outside the gateway *)

\* The AI service sets the status of a job, more than once where it runs again.
\* Here PROCESSING and PARTIAL are no different from FAILED.
Runs(r) ==
  /\ job[r] # "none"
  /\ \E s \in {"COMPLETE", "FAILED"} : job' = [job EXCEPT ![r] = s]
  /\ UNCHANGED <<phase, redis, fresh, seen>>

DayPasses(r) ==
  /\ r \in fresh
  /\ fresh' = fresh \ {r}
  /\ UNCHANGED <<phase, redis, job, seen>>

\* The hour is over and Redis drops the key.
HourPasses ==
  /\ expires
  /\ count' = 0 /\ expires' = FALSE
  /\ UNCHANGED <<phase, rows, seen>>

Handle(r) ==
  Lookup(r) \/ Check(r) \/ Incr(r) \/ Expire(r) \/ Commit(r)

Next ==
  \/ \E r \in Requests : \/ Arrive(r) \/ Handle(r) \/ Break(r)
                         \/ Runs(r) \/ DayPasses(r)
  \/ HourPasses

Spec == Init /\ [][Next]_vars

\* A thread goes on with its request, and hours pass.
FairSpec == Spec /\ (\A r \in Requests : WF_vars(Handle(r))) /\ WF_vars(HourPasses)
-------------------------------------------------------------------------------
TypeOK ==
  /\ phase \in [Requests -> Active \cup {"new", "accepted", "cached", "limited", "ambiguous",
                                         "broken", "brokeCounting"}]
  /\ count \in Nat /\ expires \in BOOLEAN
  /\ job \in [Requests -> {"none", "PENDING", "COMPLETE", "FAILED"}]
  /\ fresh \subseteq Requests
  /\ seen \in [Requests -> SUBSET Urls]

\* The requests that have passed the check and are not counted yet.
Saving == {r \in Requests : phase[r] = "incr"}

\* The limit is read before a job is saved and counted after it: requests handled
\* at the same time exceed it, but by no more than one for each other thread
\* (RateLimitService.java:33, JobService.java:70).
ExcessWithinThreads ==
  count + Cardinality(Saving) <= MaxJobs + Threads - 1

\* A user who has reached the limit may send jobs again some time later, unless a
\* request broke off between INCR and EXPIRE (RateLimitService.java:71).
LockoutEnds ==
  count >= MaxJobs ~> count < MaxJobs \/ \E r \in Requests : phase[r] = "brokeCounting"

\* A request of type url that finds a finished job of its URL from the last day adds
\* no other: of the finished jobs of one URL and one day, among which no lookup can
\* choose, none had finished when a request of type url behind another one of them
\* looked.  So they come from requests that overlapped, or from text requests that
\* carry the URL (JobService.java:50, JobRepository.java:31).
LookupsAddNoDuplicate ==
  \A r \in fresh \cap Finished \cap Lookups, s \in fresh \cap Finished :
    r # s => s \notin seen[r]
===============================================================================
