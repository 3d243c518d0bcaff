----------------------------- MODULE WorkerPool -----------------------------
(***************************************************************************)
(* One WorkerPool of ai-service/orchestration/worker_executor.py together  *)
(* with the tasks that use it (run_job_with_semaphore).  asyncio switches  *)
(* tasks only at an await; the critical sections of the pool hold its lock *)
(* without awaiting, so each of them is one atomic action here.            *)
(*                                                                         *)
(* The life of a job's task:                                               *)
(*   idle       run_job_with_semaphore not yet scheduled                   *)
(*   announcing queue_pos > 0: publishing the "waiting" status             *)
(*   polling    inside the loop of wait_for_slot                           *)
(*   admitted   past the if/else, publishing "initializing"                *)
(*   running    registered in active_tasks, inside process_job             *)
(*   closing    unregistered, deleting the heartbeat key                   *)
(*   over       release_slot has returned                                  *)
(***************************************************************************)
EXTENDS Naturals, Sequences, FiniteSets

CONSTANTS Jobs,          \* job ids handed to this pool
          MaxConcurrent  \* WorkerPool.max_concurrent_jobs

ASSUME PoolAssumption ==
  /\ IsFiniteSet(Jobs)
  /\ MaxConcurrent \in Nat \ {0}

VARIABLES active,   \* keys of WorkerPool.active_jobs
          waiting,  \* WorkerPool.waiting_queue
          phase     \* where the task of each job stands

vars == <<active, waiting, phase>>

Phases == {"idle", "announcing", "polling", "admitted", "running", "closing",
           "over"}

Waiting == {waiting[i] : i \in 1..Len(waiting)}

\* Jobs past their admission whose slot has not been given back.
Running == {j \in Jobs : phase[j] \in {"admitted", "running", "closing"}}

Over == {j \in Jobs : phase[j] = "over"}

\* Keys of active_jobs whose task still exists.
LiveSlots == active \ Over

MoveTo(j, p) == phase' = [phase EXCEPT ![j] = p]

Init ==
  /\ active = {}
  /\ waiting = <<>>
  /\ phase = [j \in Jobs |-> "idle"]

-----------------------------------------------------------------------------
(***************************************************************************)
(* Plausible slips in the code below, each the body of one action with one *)
(* change.  No behaviour of Spec uses them: a run is worth keeping only if *)
(* it reports the system wrong when the slip replaces the action.          *)
(***************************************************************************)

\* "<=" for "<" in acquire_slot.
AcquireSlotOffByOne(j) ==
  /\ phase[j] = "idle"
  /\ \/ /\ Cardinality(active) <= MaxConcurrent
        /\ active' = active \cup {j}
        /\ MoveTo(j, "admitted")
        /\ UNCHANGED waiting
     \/ /\ Cardinality(active) > MaxConcurrent
        /\ MoveTo(j, IF Len(waiting) > 0 THEN "announcing" ELSE "admitted")
        /\ waiting' = Append(waiting, j)
        /\ UNCHANGED active

\* Position 1 also read as "slot granted".
AcquireSlotTwoUnslotted(j) ==
  /\ phase[j] = "idle"
  /\ \/ /\ Cardinality(active) < MaxConcurrent
        /\ active' = active \cup {j}
        /\ MoveTo(j, "admitted")
        /\ UNCHANGED waiting
     \/ /\ Cardinality(active) >= MaxConcurrent
        /\ MoveTo(j, IF Len(waiting) > 1 THEN "announcing" ELSE "admitted")
        /\ waiting' = Append(waiting, j)
        /\ UNCHANGED active

\* The promoted job is popped from the queue but not entered as active.
ReleaseSlotDropsHead(j) ==
  /\ phase[j] = "closing"
  /\ MoveTo(j, "over")
  /\ active' = active \ {j}
  /\ waiting' = IF waiting = <<>> THEN waiting ELSE Tail(waiting)

\* pop() for pop(0): the newest waiter is promoted.
ReleaseSlotLifo(j) ==
  /\ phase[j] = "closing"
  /\ MoveTo(j, "over")
  /\ \/ /\ waiting = <<>>
        /\ active' = active \ {j}
        /\ UNCHANGED waiting
     \/ /\ waiting # <<>>
        /\ active' = (active \ {j}) \cup {waiting[Len(waiting)]}
        /\ waiting' = SubSeq(waiting, 1, Len(waiting) - 1)

\* The slot is returned and nobody is promoted.
ReleaseSlotForgetsPromotion(j) ==
  /\ phase[j] = "closing"
  /\ MoveTo(j, "over")
  /\ active' = active \ {j}
  /\ UNCHANGED waiting

\* The test "if self.waiting_queue" left out: None is promoted.
ReleaseSlotPromotesNobody(j) ==
  /\ phase[j] = "closing"
  /\ MoveTo(j, "over")
  /\ active' = (active \ {j})
                 \cup {IF waiting = <<>> THEN "None" ELSE Head(waiting)}
  /\ waiting' = IF waiting = <<>> THEN waiting ELSE Tail(waiting)

-----------------------------------------------------------------------------
(* acquire_slot and the branch on its result: position 0 is taken for      *)
(* "slot granted", although it is also the position of the first waiter.   *)

AcquireSlot(j) ==
  /\ phase[j] = "idle"
  /\ \/ /\ Cardinality(active) < MaxConcurrent
        /\ active' = active \cup {j}
        /\ MoveTo(j, "admitted")
        /\ UNCHANGED waiting
     \/ /\ Cardinality(active) >= MaxConcurrent
        /\ MoveTo(j, IF Len(waiting) > 0 THEN "announcing" ELSE "admitted")
        /\ waiting' = Append(waiting, j)
        /\ UNCHANGED active

\* The first section of wait_for_slot.
EnterWait(j) ==
  /\ phase[j] = "announcing"
  /\ \/ /\ j \in active
        /\ MoveTo(j, "admitted")
        /\ UNCHANGED waiting
     \/ /\ j \notin active
        /\ MoveTo(j, "polling")
        /\ waiting' = IF j \in Waiting THEN waiting ELSE Append(waiting, j)
  /\ UNCHANGED active

\* One 100 ms poll that finds the job promoted.
PollSlot(j) ==
  /\ phase[j] = "polling"
  /\ j \in active
  /\ MoveTo(j, "admitted")
  /\ UNCHANGED <<active, waiting>>

\* active_tasks[job_id] = current_task(), the heartbeat starts.
Register(j) ==
  /\ phase[j] = "admitted"
  /\ MoveTo(j, "running")
  /\ UNCHANGED <<active, waiting>>

\* process_job returns, raises or is cancelled; active_tasks.pop.
EndJob(j) ==
  /\ phase[j] = "running"
  /\ MoveTo(j, "closing")
  /\ UNCHANGED <<active, waiting>>

\* release_slot: give the slot back, promote the head of the queue.
ReleaseSlot(j) ==
  /\ phase[j] = "closing"
  /\ MoveTo(j, "over")
  /\ \/ /\ waiting = <<>>
        /\ active' = active \ {j}
        /\ UNCHANGED waiting
     \/ /\ waiting # <<>>
        /\ active' = (active \ {j}) \cup {Head(waiting)}
        /\ waiting' = Tail(waiting)

TaskStep(j) ==
  \/ EnterWait(j)
  \/ PollSlot(j)
  \/ Register(j)
  \/ EndJob(j)
  \/ ReleaseSlot(j)

Next == \E j \in Jobs : AcquireSlot(j) \/ TaskStep(j)

Spec == Init /\ [][Next]_vars

\* The event loop runs every ready task, and each stage of process_job is
\* bounded by a timeout or ended by the watchdog; nothing forces a new job.
Fairness == \A j \in Jobs : WF_vars(TaskStep(j))

FairSpec == Spec /\ Fairness

-----------------------------------------------------------------------------
TypeOK ==
  /\ active \subseteq Jobs
  /\ waiting \in Seq(Jobs)
  /\ phase \in [Jobs -> Phases]

\* A task that waits has been promoted, or it is in the queue and the pool is
\* full: the append in acquire_slot, the membership test in wait_for_slot and
\* the pop in release_slot neither lose it nor leave a slot idle meanwhile.
WaitsOnlyWhenFull ==
  \A j \in Jobs :
    phase[j] \in {"announcing", "polling"} =>
      \/ j \in active
      \/ j \in Waiting /\ Cardinality(active) >= MaxConcurrent

\* A job that executes without a slot (position 0 taken for a grant) is the
\* head of the queue, so a pool has at most one such job at a time.
UnslottedRunnerIsHead ==
  \A j \in Running : j \notin active => waiting # <<>> /\ Head(waiting) = j

\* The slots held by tasks that still exist never exceed the configured
\* number, although active_jobs itself may grow past it.
LiveSlotsWithinCapacity == Cardinality(LiveSlots) <= MaxConcurrent

\* release_slot serves waiters in the order in which acquire_slot queued them.
FifoPromotion ==
  [][\A k \in 1..Len(waiting) :
       waiting[k] \in active' => \A i \in 1..(k - 1) : waiting[i] \notin Waiting'
    ]_vars

\* However its tasks interleave, the pool runs each job at most once and never
\* more than max_concurrent_jobs + 1 of them together.
Bounded == INSTANCE BoundedExecution
             WITH running <- Running, over <- Over, Capacity <- MaxConcurrent + 1

ImplementsBoundedExecution == Bounded!Spec

\* As long as no slot stays behind with a finished job, every job that waits
\* in wait_for_slot is admitted.
ServedWhileLeakFree ==
  [](active \cap Over = {})
    => \A j \in Jobs : phase[j] = "polling" ~> phase[j] = "admitted"

=============================================================================
