---------------------------- MODULE JobLifecycle ----------------------------
(***************************************************************************)
(* The life of jobs across the system: the gateway creates a row and       *)
(* dispatches the job over HTTP, the AI service queues it in Redis, a      *)
(* worker's task runs the pipeline, and four parties write jobs.status     *)
(* without looking at what it holds: the task, a user's cancel, the        *)
(* stalled-jobs watchdog, and the cleanup at the start of the AI service.  *)
(*                                                                         *)
(* The task of a job is in one of these phases; while an UPDATE is in      *)
(* flight the task awaits it and the database may or may not have it:      *)
(*   none       no worker has popped the job                               *)
(*   accepted   popped, in the worker pool, not yet in active_tasks        *)
(*   loading    registered, reading the job's row                          *)
(*   starting   UPDATE .. PROCESSING in flight                             *)
(*   lookup     looking for a finished job with the same article           *)
(*   cloning    its results copied, UPDATE .. COMPLETE in flight           *)
(*   cloned     that UPDATE is done, the audit row is being written        *)
(*   working    fetching, routing, inside one of the pipelines             *)
(*   reporting  the pipeline's UPDATE .. COMPLETE or PARTIAL in flight     *)
(*   failing    UPDATE .. FAILED of _fail_job in flight                    *)
(*   settled    publishing the last events                                 *)
(*   over       ended, cancelled, or lost with its process                 *)
(***************************************************************************)
EXTENDS Naturals, FiniteSets

CONSTANTS Jobs,       \* ids of the jobs users submit
          MaxFaults   \* bound on crashes and failing database statements

ASSUME LifecycleAssumption == MaxFaults \in Nat

VARIABLES row,       \* jobs.status, "ABSENT" before the row exists
          dispatch,  \* jobs whose POST /internal/jobs is on its way
          queue,     \* jobs in job_queue_fast or job_queue_slow
          task,      \* phase of each job's task
          doomed,    \* tasks on which cancel() was called, not yet woken
          events,    \* job:cancel:events published and not yet handled
          cancel,    \* progress of a cancelJob transaction per job
          sweep,     \* rows of the watchdog's query still to be handled
          struck,    \* the row it has published for and not yet failed
          service,   \* AI service: "down", "up", "deaf" (no cancel listener)
          faults     \* faults so far

vars == <<row, dispatch, queue, task, doomed, events, cancel, sweep, struck,
          service, faults>>

Statuses == {"ABSENT", "PENDING", "PROCESSING", "COMPLETE", "PARTIAL", "FAILED"}

Active == {"PENDING", "PROCESSING"}

Settled == {"COMPLETE", "PARTIAL", "FAILED"}

\* The phases in which active_tasks has an entry for the job.
Registered == {"loading", "starting", "lookup", "cloning", "cloned", "working",
               "reporting", "failing", "settled"}

Phases == Registered \cup {"none", "accepted", "over"}

Init ==
  /\ row = [j \in Jobs |-> "ABSENT"]
  /\ dispatch = {} /\ queue = {}
  /\ task = [j \in Jobs |-> "none"]
  /\ doomed = {} /\ events = {}
  /\ cancel = [j \in Jobs |-> "no"]
  /\ sweep = {} /\ struck = {}
  /\ service = "up"
  /\ faults = 0

TaskTo(j, p) == task' = [task EXCEPT ![j] = p]

RowTo(j, s) == row' = [row EXCEPT ![j] = s]

Fault == faults < MaxFaults /\ faults' = faults + 1

\* Redis Pub/Sub: without a subscriber an event is gone.
Publish(j) == events' = IF service = "up" THEN events \cup {j} ELSE events

tickets == <<dispatch, queue>>
watchdog == <<sweep, struck>>

\* The values the row of j may have once its task has stopped awaiting,
\* for whatever reason, the UPDATE it had sent.
Outcomes(j) ==
  {s \in Statuses :
     \/ s = row[j]
     \/ task[j] = "starting" /\ s = "PROCESSING"
     \/ task[j] = "cloning" /\ s = "COMPLETE"
     \/ task[j] = "reporting" /\ s \in {"COMPLETE", "PARTIAL"}
     \/ task[j] = "failing" /\ s = "FAILED"}

-----------------------------------------------------------------------------
(* Plausible slips, one change each; no behaviour of Spec uses them.       *)

\* The job id is read from the list but not popped.
PickKeepsTicket(j) ==
  /\ service # "down" /\ j \in queue
  /\ TaskTo(j, "accepted")
  /\ UNCHANGED <<row, tickets, doomed, events, cancel, watchdog, service, faults>>

\* cancel() on any task of the job, registered or not.
DeliverToAnyTask(j) ==
  /\ service = "up" /\ j \in events
  /\ events' = events \ {j}
  /\ doomed' = doomed \cup {j}
  /\ UNCHANGED <<row, tickets, task, cancel, watchdog, service, faults>>

\* The UPDATE to PROCESSING is left out.
LandForgetsStart(j) ==
  /\ j \notin doomed
  /\ \/ /\ task[j] = "starting" /\ TaskTo(j, "lookup") /\ UNCHANGED row
     \/ /\ task[j] = "cloning" /\ RowTo(j, "COMPLETE") /\ TaskTo(j, "cloned")
     \/ /\ task[j] = "reporting" /\ TaskTo(j, "settled")
        /\ \E s \in {"COMPLETE", "PARTIAL"} : RowTo(j, s)
     \/ /\ task[j] = "failing" /\ RowTo(j, "FAILED") /\ TaskTo(j, "settled")
  /\ UNCHANGED <<tickets, doomed, events, cancel, watchdog, service, faults>>

\* The watchdog's query selects PROCESSING rows only.
SweepOnlyProcessing(S) ==
  /\ service # "down" /\ sweep = {} /\ struck = {}
  /\ S # {} /\ S \subseteq {j \in Jobs : row[j] = "PROCESSING"}
  /\ sweep' = S
  /\ UNCHANGED <<row, tickets, task, doomed, events, cancel, struck, service,
                 faults>>

\* The dead task's job goes back to its queue.
DieRequeues(j) ==
  /\ j \in doomed
  /\ \E s \in Outcomes(j) : RowTo(j, s)
  /\ TaskTo(j, "none") /\ doomed' = doomed \ {j} /\ queue' = queue \cup {j}
  /\ UNCHANGED <<dispatch, events, cancel, watchdog, service, faults>>

-----------------------------------------------------------------------------
(* From the gateway to a worker.                                           *)

\* createJob: the row is committed, then the POST is sent (afterCommit).
Create(j) ==
  /\ row[j] = "ABSENT"
  /\ RowTo(j, "PENDING")
  /\ dispatch' = dispatch \cup {j}
  /\ UNCHANGED <<queue, task, doomed, events, cancel, watchdog, service, faults>>

\* dispatchJob swallows a failed POST; nobody repeats it.
DispatchLost(j) ==
  /\ j \in dispatch
  /\ dispatch' = dispatch \ {j}
  /\ UNCHANGED <<row, queue, task, doomed, events, cancel, watchdog, service,
                 faults>>

\* dispatch_job: LPUSH.
Enqueue(j) ==
  /\ service # "down" /\ j \in dispatch
  /\ dispatch' = dispatch \ {j} /\ queue' = queue \cup {j}
  /\ UNCHANGED <<row, task, doomed, events, cancel, watchdog, service, faults>>

\* job_worker: BRPOP, then a task is created for the job.
Pick(j) ==
  /\ service # "down" /\ j \in queue
  /\ queue' = queue \ {j}
  /\ TaskTo(j, "accepted")
  /\ UNCHANGED <<row, dispatch, doomed, events, cancel, watchdog, service, faults>>

\* Redis keeps nothing on disk; its restart may end cancellation_listener.
RedisRestart ==
  /\ queue' = {} /\ events' = {}
  /\ service' \in {service} \cup (IF service = "up" THEN {"deaf"} ELSE {})
  /\ UNCHANGED <<row, dispatch, task, doomed, cancel, watchdog, faults>>

-----------------------------------------------------------------------------
(* The task of a job, from active_tasks[job_id] = .. to active_tasks.pop.  *)

\* The task goes on by itself from one phase to the next.
Advance(j, p, q) ==
  /\ j \notin doomed /\ task[j] = p
  /\ TaskTo(j, q)
  /\ UNCHANGED <<row, tickets, doomed, events, cancel, watchdog, service, faults>>

\* The worker pool lets the job execute.
Register(j) == Advance(j, "accepted", "loading")

Start(j) == Advance(j, "loading", "starting")

\* reuse_completed_job, up to its UPDATE; or no job to reuse.
Clone(j) == Advance(j, "lookup", "cloning")
Analyse(j) == Advance(j, "lookup", "working")

Report(j) == Advance(j, "working", "reporting")

\* An early return or an exception of the pipeline: _fail_job.
Abort(j) == Advance(j, "working", "failing")

CloneDone(j) == Advance(j, "cloned", "settled")

\* The UPDATE in flight is acknowledged.
Land(j) ==
  /\ j \notin doomed
  /\ \/ /\ task[j] = "starting" /\ RowTo(j, "PROCESSING") /\ TaskTo(j, "lookup")
     \/ /\ task[j] = "cloning" /\ RowTo(j, "COMPLETE") /\ TaskTo(j, "cloned")
     \/ /\ task[j] = "reporting" /\ TaskTo(j, "settled")
        /\ \E s \in {"COMPLETE", "PARTIAL"} : RowTo(j, s)
     \/ /\ task[j] = "failing" /\ RowTo(j, "FAILED") /\ TaskTo(j, "settled")
  /\ UNCHANGED <<tickets, doomed, events, cancel, watchdog, service, faults>>

\* A database statement raises: process_job turns it into _fail_job, which
\* swallows its own; reuse_completed_job falls through to the pipeline.
Trouble(j) ==
  /\ Fault
  /\ j \notin doomed
  /\ \/ task[j] \in {"loading", "starting", "lookup", "reporting"}
           /\ TaskTo(j, "failing")
     \/ task[j] \in {"cloning", "cloned"} /\ TaskTo(j, "working")
     \/ task[j] = "failing" /\ TaskTo(j, "settled")
  /\ \E s \in Outcomes(j) : RowTo(j, s)
  /\ UNCHANGED <<tickets, doomed, events, cancel, watchdog, service>>

Finish(j) == Advance(j, "settled", "over")

\* CancelledError at the await where the task stands; nothing catches it.
Die(j) ==
  /\ j \in doomed
  /\ \E s \in Outcomes(j) : RowTo(j, s)
  /\ TaskTo(j, "over") /\ doomed' = doomed \ {j}
  /\ UNCHANGED <<tickets, events, cancel, watchdog, service, faults>>

-----------------------------------------------------------------------------
(* Cancellation.                                                           *)

\* cancelJob: the check on the row it has read.
CancelDecide(j) ==
  /\ cancel[j] = "no"
  /\ row[j] \notin {"ABSENT", "COMPLETE", "FAILED"}
  /\ cancel' = [cancel EXCEPT ![j] = "decided"]
  /\ UNCHANGED <<row, tickets, task, doomed, events, watchdog, service, faults>>

\* The event is sent before the transaction commits.
CancelPublish(j) ==
  /\ cancel[j] = "decided"
  /\ cancel' = [cancel EXCEPT ![j] = "published"]
  /\ Publish(j)
  /\ UNCHANGED <<row, tickets, task, doomed, watchdog, service, faults>>

CancelCommit(j) ==
  /\ cancel[j] = "published"
  /\ cancel' = [cancel EXCEPT ![j] = "no"]
  /\ RowTo(j, "FAILED")
  /\ UNCHANGED <<tickets, task, doomed, events, watchdog, service, faults>>

\* The transaction is rolled back or the gateway stops.
CancelRollback(j) ==
  /\ Fault
  /\ cancel[j] # "no"
  /\ cancel' = [cancel EXCEPT ![j] = "no"]
  /\ UNCHANGED <<row, tickets, task, doomed, events, watchdog, service>>

\* cancellation_listener.
Deliver(j) ==
  /\ service = "up" /\ j \in events
  /\ events' = events \ {j}
  /\ doomed' = IF task[j] \in Registered THEN doomed \cup {j} ELSE doomed
  /\ UNCHANGED <<row, tickets, task, cancel, watchdog, service, faults>>

-----------------------------------------------------------------------------
(* The watchdog and the restart of the AI service.                         *)

\* The query of stalled_jobs_watchdog.  Which rows are older than 45 s is
\* not modelled: any set of active ones may be.
Sweep(S) ==
  /\ service # "down" /\ sweep = {} /\ struck = {}
  /\ S # {} /\ S \subseteq {j \in Jobs : row[j] \in Active}
  /\ sweep' = S
  /\ UNCHANGED <<row, tickets, task, doomed, events, cancel, struck, service,
                 faults>>

Strike(j) ==
  /\ j \in sweep /\ struck = {}
  /\ sweep' = sweep \ {j} /\ struck' = {j}
  /\ Publish(j)
  /\ UNCHANGED <<row, tickets, task, doomed, cancel, service, faults>>

\* _fail_job writes whatever the row holds by now, or swallows its failure.
FailStruck(j) ==
  /\ j \in struck
  /\ struck' = {}
  /\ \/ RowTo(j, "FAILED") /\ UNCHANGED faults
     \/ Fault /\ UNCHANGED row
  /\ UNCHANGED <<tickets, task, doomed, events, cancel, sweep, service>>

Crash ==
  /\ Fault
  /\ service # "down" /\ service' = "down"
  /\ row' \in {r \in [Jobs -> Statuses] : \A j \in Jobs : r[j] \in Outcomes(j)}
  /\ task' = [j \in Jobs |-> IF task[j] = "none" THEN "none" ELSE "over"]
  /\ doomed' = {} /\ events' = {} /\ sweep' = {} /\ struck' = {}
  /\ UNCHANGED <<tickets, cancel>>

\* lifespan: cleanup_stuck_jobs, which swallows a failure, then the workers.
Restart ==
  /\ service = "down" /\ service' = "up"
  /\ \/ /\ row' = [j \in Jobs |-> IF row[j] \in Active THEN "FAILED" ELSE row[j]]
        /\ UNCHANGED faults
     \/ Fault /\ UNCHANGED row
  /\ UNCHANGED <<tickets, task, doomed, events, cancel, watchdog>>

-----------------------------------------------------------------------------
\* What the event loop runs once a registered task can go on.
TaskStep(j) ==
  \/ Start(j) \/ Clone(j) \/ Analyse(j) \/ Report(j) \/ Abort(j) \/ CloneDone(j)
  \/ Land(j) \/ Trouble(j) \/ Finish(j) \/ Die(j)

GatewayStep(j) ==
  \/ Create(j) \/ DispatchLost(j)
  \/ CancelDecide(j) \/ CancelPublish(j) \/ CancelCommit(j) \/ CancelRollback(j)

ServiceStep(j) ==
  Enqueue(j) \/ Pick(j) \/ Register(j) \/ Deliver(j) \/ Strike(j) \/ FailStruck(j)

Next ==
  \/ RedisRestart \/ Crash \/ Restart
  \/ \E S \in SUBSET Jobs : Sweep(S)
  \/ \E j \in Jobs : GatewayStep(j) \/ ServiceStep(j) \/ TaskStep(j)

Spec == Init /\ [][Next]_vars

\* Every await of a registered task is bounded by a timeout, but that for a
\* database connection: connections are taken to come in the end (when they do
\* is the subject of ConnectionPool).  The watchdog comes round every 15 s, an
\* untouched row grows old, so it is selected sooner or later.  A stopped AI
\* service is started again, a transaction of the gateway ends.  Nothing is
\* assumed of dispatch, queues, the worker pool, or the users.
Fairness ==
  /\ WF_vars(Restart)
  /\ \A j \in Jobs :
       /\ WF_vars(TaskStep(j))
       /\ WF_vars(Strike(j)) /\ WF_vars(FailStruck(j))
       /\ WF_vars(CancelPublish(j) \/ CancelCommit(j))
       /\ SF_vars(\E S \in SUBSET Jobs : j \in S /\ Sweep(S))

FairSpec == Spec /\ Fairness

-----------------------------------------------------------------------------
TypeOK ==
  /\ row \in [Jobs -> Statuses]
  /\ dispatch \subseteq Jobs /\ queue \subseteq Jobs
  /\ task \in [Jobs -> Phases]
  /\ doomed \subseteq {j \in Jobs : task[j] \in Registered}
  /\ events \subseteq Jobs
  /\ cancel \in [Jobs -> {"no", "decided", "published"}]
  /\ sweep \subseteq Jobs /\ struck \subseteq Jobs
  /\ service \in {"down", "up", "deaf"}
  /\ faults \in 0..MaxFaults

\* A job is in one place: on its way, queued, or with the one task that ever
\* runs it.
OneTicket ==
  /\ dispatch \cap queue = {}
  /\ \A j \in dispatch \cup queue : task[j] = "none" /\ row[j] # "ABSENT"

\* A reader of the row is never ahead of the task: PROCESSING is shown only
\* for a job whose task was started, a result only once the task has got as
\* far as writing one.
RowFollowsTask ==
  \A j \in Jobs :
    /\ row[j] \in {"ABSENT", "PENDING"} => task[j] \notin {"lookup", "cloning", "cloned", "working", "reporting"}
    /\ row[j] = "PROCESSING" => task[j] \notin {"none", "accepted", "loading", "cloned"}
    /\ row[j] = "COMPLETE" =>
         task[j] \in {"cloned", "working", "reporting", "failing", "settled", "over"}
    /\ row[j] = "PARTIAL" => task[j] \in {"failing", "settled", "over"}

\* The order of the values of jobs.status that its readers rely on.
Status == INSTANCE JobStatus WITH status <- row

ImplementsJobStatus == Status!Spec

\* A submitted job comes to rest in COMPLETE, PARTIAL or FAILED, whatever is
\* lost or crashes on its way and whether or not a worker ever admits it.
EventuallySettled ==
  \A j \in Jobs : row[j] # "ABSENT" ~> [](row[j] \in Settled)

\* cancel() reached the task before it had a result to write.
CancelledEarly(j) ==
  j \in doomed /\ task[j] \in {"loading", "lookup", "working"} /\ row[j] # "COMPLETE"

\* A cancellation that reaches a task at work is final: the job ends FAILED
\* and no later write, retry or restart shows anything else.
DeliveredCancelIsFinal == \A j \in Jobs : CancelledEarly(j) ~> [](row[j] = "FAILED")

-----------------------------------------------------------------------------
(* Statements of the repository that the code does not meet.               *)

\* "Aborts an active processing job. Returns updated job metadata with
\* status FAILED": once the cancellation is through, the job stays FAILED.
CancelledStaysFailed ==
  \A j \in Jobs : cancel[j] = "published" ~> [](row[j] = "FAILED")

=============================================================================
