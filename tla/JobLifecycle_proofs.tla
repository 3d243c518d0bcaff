------------------------- MODULE JobLifecycle_proofs -------------------------
(***************************************************************************)
(* Proofs about JobLifecycle for any set of jobs and any number of faults. *)
(* The properties are inductive together with one more fact: nobody works  *)
(* on a job before its row exists.  OneTicket gives what RowFollowsTask    *)
(* needs when a job is picked, RowFollowsTask what the refinement needs    *)
(* when an UPDATE of the task lands.                                       *)
(***************************************************************************)
EXTENDS JobLifecycle, TLAPS

\* Before the row exists there is no task, no cancellation and no sweep.
AbsentIsUntouched ==
  \A j \in Jobs : row[j] = "ABSENT" =>
    /\ task[j] = "none" /\ cancel[j] = "no"
    /\ j \notin sweep \cup struck

IInv == TypeOK /\ OneTicket /\ RowFollowsTask /\ AbsentIsUntouched

\* Every row keeps its value or takes one that may follow it.
RowsMove == \A j \in Jobs : Status!MayFollow(row[j], row'[j])

-----------------------------------------------------------------------------
\* The invariant holds before the first job is submitted.
LEMMA InitIInv == Init => IInv
BY LifecycleAssumption
   DEF Init, IInv, TypeOK, OneTicket, RowFollowsTask, AbsentIsUntouched,
       Statuses, Phases, Registered

\* Every step keeps the invariant and moves the rows in the promised order.
LEMMA StepIInv ==
  ASSUME IInv, Next
  PROVE  IInv' /\ RowsMove
<1> USE LifecycleAssumption
    DEF IInv, TypeOK, OneTicket, RowFollowsTask, AbsentIsUntouched, RowsMove,
        Statuses, Phases, Registered, Active, tickets, watchdog, RowTo, TaskTo,
        Status!MayFollow, Status!Results
<1>1. ASSUME NEW j \in Jobs, Create(j)  PROVE IInv' /\ RowsMove
  BY <1>1 DEF Create
<1>2. ASSUME NEW j \in Jobs, DispatchLost(j)  PROVE IInv' /\ RowsMove
  BY <1>2 DEF DispatchLost
<1>3. ASSUME NEW j \in Jobs, Enqueue(j)  PROVE IInv' /\ RowsMove
  BY <1>3 DEF Enqueue
<1>4. ASSUME NEW j \in Jobs, Pick(j)  PROVE IInv' /\ RowsMove
  BY <1>4 DEF Pick
<1>5. ASSUME NEW j \in Jobs, Register(j)  PROVE IInv' /\ RowsMove
  BY <1>5 DEF Register, Advance
<1>6. ASSUME NEW j \in Jobs, Start(j)  PROVE IInv' /\ RowsMove
  BY <1>6 DEF Start, Advance
<1>7. ASSUME NEW j \in Jobs, Clone(j)  PROVE IInv' /\ RowsMove
  BY <1>7 DEF Clone, Advance
<1>8. ASSUME NEW j \in Jobs, Analyse(j)  PROVE IInv' /\ RowsMove
  BY <1>8 DEF Analyse, Advance
<1>9. ASSUME NEW j \in Jobs, Report(j)  PROVE IInv' /\ RowsMove
  BY <1>9 DEF Report, Advance
<1>10. ASSUME NEW j \in Jobs, Abort(j)  PROVE IInv' /\ RowsMove
  BY <1>10 DEF Abort, Advance
<1>11. ASSUME NEW j \in Jobs, CloneDone(j)  PROVE IInv' /\ RowsMove
  BY <1>11 DEF CloneDone, Advance
<1>12. ASSUME NEW j \in Jobs, Finish(j)  PROVE IInv' /\ RowsMove
  BY <1>12 DEF Finish, Advance
<1>13. ASSUME NEW j \in Jobs, Land(j)  PROVE IInv' /\ RowsMove
  BY <1>13 DEF Land
<1>14. ASSUME NEW j \in Jobs, Trouble(j)  PROVE IInv' /\ RowsMove
  BY <1>14 DEF Trouble, Fault, Outcomes
<1>15. ASSUME NEW j \in Jobs, Die(j)  PROVE IInv' /\ RowsMove
  BY <1>15 DEF Die, Outcomes
<1>16. ASSUME NEW j \in Jobs, CancelDecide(j)  PROVE IInv' /\ RowsMove
  BY <1>16 DEF CancelDecide
<1>17. ASSUME NEW j \in Jobs, CancelPublish(j)  PROVE IInv' /\ RowsMove
  BY <1>17 DEF CancelPublish, Publish
<1>18. ASSUME NEW j \in Jobs, CancelCommit(j)  PROVE IInv' /\ RowsMove
  BY <1>18 DEF CancelCommit
<1>19. ASSUME NEW j \in Jobs, CancelRollback(j)  PROVE IInv' /\ RowsMove
  BY <1>19 DEF CancelRollback, Fault
<1>20. ASSUME NEW j \in Jobs, Deliver(j)  PROVE IInv' /\ RowsMove
  BY <1>20 DEF Deliver
<1>21. ASSUME NEW j \in Jobs, Strike(j)  PROVE IInv' /\ RowsMove
  BY <1>21 DEF Strike, Publish
<1>22. ASSUME NEW j \in Jobs, FailStruck(j)  PROVE IInv' /\ RowsMove
  BY <1>22 DEF FailStruck, Fault
<1>23. ASSUME NEW S \in SUBSET Jobs, Sweep(S)  PROVE IInv' /\ RowsMove
  BY <1>23 DEF Sweep
<1>24. ASSUME RedisRestart  PROVE IInv' /\ RowsMove
  BY <1>24 DEF RedisRestart
<1>25. ASSUME Crash  PROVE IInv' /\ RowsMove
  BY <1>25 DEF Crash, Fault, Outcomes
<1>26. ASSUME Restart  PROVE IInv' /\ RowsMove
  BY <1>26 DEF Restart, Fault
<1>27. ASSUME NEW j \in Jobs, TaskStep(j)  PROVE IInv' /\ RowsMove
  BY <1>27, <1>6, <1>7, <1>8, <1>9, <1>10, <1>11, <1>12, <1>13, <1>14, <1>15 DEF TaskStep
<1>28. ASSUME NEW j \in Jobs, GatewayStep(j)  PROVE IInv' /\ RowsMove
  BY <1>28, <1>1, <1>2, <1>16, <1>17, <1>18, <1>19 DEF GatewayStep
<1>29. ASSUME NEW j \in Jobs, ServiceStep(j)  PROVE IInv' /\ RowsMove
  BY <1>29, <1>3, <1>4, <1>5, <1>20, <1>21, <1>22 DEF ServiceStep
<1>30. QED
  BY <1>23, <1>24, <1>25, <1>26, <1>27, <1>28, <1>29 DEF Next

\* A step that changes nothing keeps the invariant and the rows.
LEMMA StutterIInv ==
  ASSUME IInv, UNCHANGED vars
  PROVE  IInv' /\ UNCHANGED row
BY DEF vars, IInv, TypeOK, OneTicket, RowFollowsTask, AbsentIsUntouched

\* The invariant holds in every reachable state.
LEMMA Invariance == Spec => []IInv
<1>1. IInv /\ [Next]_vars => IInv'
  BY StepIInv, StutterIInv
<1>2. QED
  BY InitIInv, <1>1, PTL DEF Spec

-----------------------------------------------------------------------------
\* The state is always well-typed; a cancelled task is a registered one.
THEOREM TypeCorrect == Spec => []TypeOK
BY Invariance, PTL DEF IInv

\* A job never has two tickets: it is on its way, queued, or with its task.
THEOREM SingleTicket == Spec => []OneTicket
BY Invariance, PTL DEF IInv

\* jobs.status is never ahead of the task that runs the job.
THEOREM RowNeverAhead == Spec => []RowFollowsTask
BY Invariance, PTL DEF IInv

\* Whoever writes jobs.status, in whatever order, its values follow the order
\* that JobStatus promises: the lifecycle implements it.
THEOREM LifecycleRefinesStatus == Spec => ImplementsJobStatus
<1>1. Init => Status!Init
  BY DEF Init, Status!Init
<1>2. IInv /\ [Next]_vars => [Status!Next]_row
  <2>1. ASSUME IInv, Next  PROVE Status!Next
    <3>1. RowsMove /\ row' \in [Jobs -> Status!Values]
      BY <2>1, StepIInv DEF IInv, TypeOK, Statuses, Status!Values
    <3>2. QED
      BY <3>1 DEF RowsMove, Status!Next
  <2>2. QED
    BY <2>1, StutterIInv
<1>3. QED
  BY <1>1, <1>2, Invariance, PTL DEF Spec, Status!Spec, ImplementsJobStatus

-----------------------------------------------------------------------------
(* Why a job comes to rest: what holds without fairness of EventuallySettled *)
(* and of DeliveredCancelIsFinal.                                          *)

\* The phases in the order in which a task passes them.
Rank == [none |-> 0, accepted |-> 1, loading |-> 2, starting |-> 3,
         lookup |-> 4, cloning |-> 5, cloned |-> 6, working |-> 7,
         reporting |-> 8, failing |-> 9, settled |-> 10, over |-> 11]

Forward(j) == task'[j] # task[j] => Rank[task[j]] < Rank[task'[j]]

\* A task only goes forward: whatever fails, is cancelled or restarted, it
\* passes no phase twice, so that it ends after at most eleven steps.
TaskNeverGoesBack == [][\A j \in Jobs : Forward(j)]_vars

StaysSettled(j) ==
  row[j] \in Settled /\ row'[j] \notin Settled => task[j] = "starting"

\* A settled job is made active again by nothing but the UPDATE to PROCESSING
\* of its own task: no crash, restart, cancel or sweep does it.
OnlyItsTaskReopens == [][\A j \in Jobs : StaysSettled(j)]_vars

\* Nothing on its way will run the job, and its row is final.
AtRest(j) ==
  /\ j \notin dispatch \cup queue
  /\ task[j] \in {"none", "over"}
  /\ row[j] \in Settled

\* The task is cancelled or gone, and there is no result.
WithoutResult(j) ==
  /\ row[j] \notin {"COMPLETE", "PARTIAL"}
  /\ \/ task[j] = "over"
     \/ task[j] \in {"loading", "lookup", "working"} /\ j \in doomed

\* What a step keeps of one job.
Kept(j) ==
  /\ Forward(j)
  /\ StaysSettled(j)
  /\ AtRest(j) => AtRest(j)'
  /\ WithoutResult(j) => WithoutResult(j)'

LEMMA StepKept ==
  ASSUME IInv, Next, NEW j \in Jobs
  PROVE  Kept(j)
<1> USE DEF IInv, TypeOK, OneTicket, AbsentIsUntouched, Statuses, Phases,
        Registered, Active, Settled, tickets, watchdog, RowTo, TaskTo, Rank,
        Kept, Forward, StaysSettled, AtRest, WithoutResult
<1>1. ASSUME NEW i \in Jobs, Create(i)  PROVE Kept(j)
  BY <1>1 DEF Create
<1>2. ASSUME NEW i \in Jobs, DispatchLost(i)  PROVE Kept(j)
  BY <1>2 DEF DispatchLost
<1>3. ASSUME NEW i \in Jobs, Enqueue(i)  PROVE Kept(j)
  BY <1>3 DEF Enqueue
<1>4. ASSUME NEW i \in Jobs, Pick(i)  PROVE Kept(j)
  BY <1>4 DEF Pick
<1>5. ASSUME NEW i \in Jobs, Register(i)  PROVE Kept(j)
  BY <1>5 DEF Register, Advance
<1>6. ASSUME NEW i \in Jobs, Start(i)  PROVE Kept(j)
  BY <1>6 DEF Start, Advance
<1>7. ASSUME NEW i \in Jobs, Clone(i)  PROVE Kept(j)
  BY <1>7 DEF Clone, Advance
<1>8. ASSUME NEW i \in Jobs, Analyse(i)  PROVE Kept(j)
  BY <1>8 DEF Analyse, Advance
<1>9. ASSUME NEW i \in Jobs, Report(i)  PROVE Kept(j)
  BY <1>9 DEF Report, Advance
<1>10. ASSUME NEW i \in Jobs, Abort(i)  PROVE Kept(j)
  BY <1>10 DEF Abort, Advance
<1>11. ASSUME NEW i \in Jobs, CloneDone(i)  PROVE Kept(j)
  BY <1>11 DEF CloneDone, Advance
<1>12. ASSUME NEW i \in Jobs, Finish(i)  PROVE Kept(j)
  BY <1>12 DEF Finish, Advance
<1>13. ASSUME NEW i \in Jobs, Land(i)  PROVE Kept(j)
  BY <1>13 DEF Land
<1>14. ASSUME NEW i \in Jobs, Trouble(i)  PROVE Kept(j)
  BY <1>14 DEF Trouble, Fault, Outcomes
<1>15. ASSUME NEW i \in Jobs, Die(i)  PROVE Kept(j)
  BY <1>15 DEF Die, Outcomes
<1>16. ASSUME NEW i \in Jobs, CancelDecide(i)  PROVE Kept(j)
  BY <1>16 DEF CancelDecide
<1>17. ASSUME NEW i \in Jobs, CancelPublish(i)  PROVE Kept(j)
  BY <1>17 DEF CancelPublish, Publish
<1>18. ASSUME NEW i \in Jobs, CancelCommit(i)  PROVE Kept(j)
  BY <1>18 DEF CancelCommit
<1>19. ASSUME NEW i \in Jobs, CancelRollback(i)  PROVE Kept(j)
  BY <1>19 DEF CancelRollback, Fault
<1>20. ASSUME NEW i \in Jobs, Deliver(i)  PROVE Kept(j)
  BY <1>20 DEF Deliver
<1>21. ASSUME NEW i \in Jobs, Strike(i)  PROVE Kept(j)
  BY <1>21 DEF Strike, Publish
<1>22. ASSUME NEW i \in Jobs, FailStruck(i)  PROVE Kept(j)
  BY <1>22 DEF FailStruck, Fault
<1>23. ASSUME NEW S \in SUBSET Jobs, Sweep(S)  PROVE Kept(j)
  BY <1>23 DEF Sweep
<1>24. ASSUME RedisRestart  PROVE Kept(j)
  BY <1>24 DEF RedisRestart
<1>25. ASSUME Crash  PROVE Kept(j)
  BY <1>25 DEF Crash, Fault, Outcomes
<1>26. ASSUME Restart  PROVE Kept(j)
  BY <1>26 DEF Restart, Fault
<1>27. ASSUME NEW i \in Jobs, TaskStep(i)  PROVE Kept(j)
  BY <1>27, <1>6, <1>7, <1>8, <1>9, <1>10, <1>11, <1>12, <1>13, <1>14, <1>15
     DEF TaskStep
<1>28. ASSUME NEW i \in Jobs, GatewayStep(i)  PROVE Kept(j)
  BY <1>28, <1>1, <1>2, <1>16, <1>17, <1>18, <1>19 DEF GatewayStep
<1>29. ASSUME NEW i \in Jobs, ServiceStep(i)  PROVE Kept(j)
  BY <1>29, <1>3, <1>4, <1>5, <1>20, <1>21, <1>22 DEF ServiceStep
<1>30. QED
  BY <1>23, <1>24, <1>25, <1>26, <1>27, <1>28, <1>29 DEF Next

LEMMA StutterKept ==
  ASSUME UNCHANGED vars, NEW j \in Jobs
  PROVE  Kept(j)
BY DEF vars, Kept, Forward, StaysSettled, AtRest, WithoutResult, Settled

\* Every task makes at most eleven steps, forward in the order of Rank.
THEOREM TasksGoForward == Spec => TaskNeverGoesBack
<1>1. IInv /\ [Next]_vars => [\A j \in Jobs : Forward(j)]_vars
  BY StepKept DEF Kept
<1>2. QED
  BY <1>1, Invariance, PTL DEF Spec, TaskNeverGoesBack

\* Only the task of a job itself turns a final status into PROCESSING.
THEOREM SettledStays == Spec => OnlyItsTaskReopens
<1>1. IInv /\ [Next]_vars => [\A j \in Jobs : StaysSettled(j)]_vars
  BY StepKept DEF Kept
<1>2. QED
  BY <1>1, Invariance, PTL DEF Spec, OnlyItsTaskReopens

\* A job at rest stays at rest: late cancels, sweeps, crashes and restarts may
\* put FAILED for a result, but nothing runs the job or makes it active again.
THEOREM RestIsFinal ==
  ASSUME NEW j \in Jobs
  PROVE  Spec => [](AtRest(j) => []AtRest(j))
<1>1. IInv /\ AtRest(j) /\ [Next]_vars => AtRest(j)'
  BY StepKept, StutterKept DEF Kept
<1>2. QED
  BY <1>1, Invariance, PTL DEF Spec

\* After a cancellation has reached a task that had not begun to write its
\* result, no result is ever shown: the safety half of DeliveredCancelIsFinal,
\* which needs neither fairness nor a bound on faults.
THEOREM CancelledHasNoResult ==
  ASSUME NEW j \in Jobs
  PROVE  Spec => [](CancelledEarly(j) => [](row[j] \notin {"COMPLETE", "PARTIAL"}))
<1>1. IInv /\ CancelledEarly(j) => WithoutResult(j)
  BY DEF IInv, RowFollowsTask, CancelledEarly, WithoutResult
<1>2. IInv /\ WithoutResult(j) /\ [Next]_vars => WithoutResult(j)'
  BY StepKept, StutterKept DEF Kept
<1>3. WithoutResult(j) => row[j] \notin {"COMPLETE", "PARTIAL"}
  BY DEF WithoutResult
<1>4. QED
  BY <1>1, <1>2, <1>3, Invariance, PTL DEF Spec

=============================================================================
