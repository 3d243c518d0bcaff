-------------------------- MODULE WorkerPool_proofs --------------------------
(***************************************************************************)
(* Proofs about WorkerPool for any finite set of jobs and any capacity.    *)
(* IInv is the inductive invariant; the properties the runs check follow   *)
(* from it.  Its heart is Queued: a waiting job is asleep, except that the *)
(* head may be the one job that executes without a slot.                   *)
(***************************************************************************)
EXTENDS WorkerPool, FiniteSetTheorems, TLAPS

\* No job is queued twice.
QueuedOnce ==
  \A i, k \in 1..Len(waiting) : waiting[i] = waiting[k] => i = k

\* A queued job has no slot, and sleeps unless it is the head.
Queued ==
  \A i \in 1..Len(waiting) :
    /\ waiting[i] \notin active
    /\ \/ phase[waiting[i]] \in {"announcing", "polling"}
       \/ i = 1 /\ waiting[i] \in Running

\* A job whose task has not called acquire_slot has no slot.
IdleHoldsNothing == \A j \in active : phase[j] # "idle"

\* A task that waits is in the queue or promoted.
Known ==
  \A j \in Jobs :
    phase[j] \in {"announcing", "polling"} => j \in active \cup Waiting

\* The queue is in use only while no slot is free.
FullWhileQueued == waiting # <<>> => Cardinality(active) >= MaxConcurrent

IInv ==
  /\ TypeOK
  /\ QueuedOnce
  /\ Queued
  /\ IdleHoldsNothing
  /\ Known
  /\ FullWhileQueued
  /\ UnslottedRunnerIsHead
  /\ LiveSlotsWithinCapacity

-----------------------------------------------------------------------------
\* The sets of jobs the cardinalities are about are finite.
LEMMA FiniteParts ==
  ASSUME TypeOK
  PROVE  /\ IsFiniteSet(active) /\ IsFiniteSet(LiveSlots)
         /\ IsFiniteSet(Running)
         /\ Cardinality(active) \in Nat /\ Cardinality(LiveSlots) \in Nat
         /\ Cardinality(Running) \in Nat
<1>1. IsFiniteSet(Jobs)
  BY PoolAssumption
<1>2. active \subseteq Jobs /\ LiveSlots \subseteq Jobs /\ Running \subseteq Jobs
  BY DEF TypeOK, LiveSlots, Running
<1>3. IsFiniteSet(active) /\ IsFiniteSet(LiveSlots) /\ IsFiniteSet(Running)
  BY <1>1, <1>2, FS_Subset
<1>4. QED
  BY <1>3, FS_CardinalityType

\* Replacing at most one element by another does not enlarge a finite set.
LEMMA ReplaceOne ==
  ASSUME NEW S, IsFiniteSet(S), NEW x, x \in S, NEW y, NEW T,
         T \subseteq (S \ {x}) \cup {y}
  PROVE  Cardinality(T) <= Cardinality(S)
<1> DEFINE R == S \ {x}
<1>1. /\ IsFiniteSet(R)
      /\ Cardinality(R) = Cardinality(S) - 1
  BY FS_RemoveElement
<1>2. /\ IsFiniteSet(R \cup {y})
      /\ Cardinality(R \cup {y}) <= Cardinality(R) + 1
  <2>1. /\ IsFiniteSet(R \cup {y})
        /\ Cardinality(R \cup {y})
             = IF y \in R THEN Cardinality(R) ELSE Cardinality(R) + 1
    BY <1>1, FS_AddElement
  <2>2. Cardinality(R) \in Nat
    BY <1>1, FS_CardinalityType
  <2>3. QED
    BY <2>1, <2>2
<1>3. /\ Cardinality(T) <= Cardinality(R \cup {y})
      /\ Cardinality(T) \in Nat
  <2>1. T \subseteq R \cup {y}
    OBVIOUS
  <2>2. IsFiniteSet(T) /\ Cardinality(T) <= Cardinality(R \cup {y})
    BY <1>2, <2>1, FS_Subset
  <2>3. QED
    BY <2>2, FS_CardinalityType
<1>4. /\ Cardinality(S) \in Nat /\ Cardinality(R) \in Nat
      /\ Cardinality(R \cup {y}) \in Nat
  BY <1>1, <1>2, FS_CardinalityType
<1>5. QED
  BY <1>1, <1>2, <1>3, <1>4

\* Adding one element enlarges a finite set by at most one.
LEMMA AddOne ==
  ASSUME NEW S, IsFiniteSet(S), NEW y, NEW T, T \subseteq S \cup {y}
  PROVE  /\ IsFiniteSet(T)
         /\ Cardinality(T) \in Nat
         /\ Cardinality(T) <= Cardinality(S) + 1
<1>1. /\ IsFiniteSet(S \cup {y})
      /\ Cardinality(S \cup {y})
           = IF y \in S THEN Cardinality(S) ELSE Cardinality(S) + 1
  BY FS_AddElement
<1>2. IsFiniteSet(T) /\ Cardinality(T) <= Cardinality(S \cup {y})
  BY <1>1, FS_Subset
<1>3. /\ Cardinality(S) \in Nat /\ Cardinality(T) \in Nat
      /\ Cardinality(S \cup {y}) \in Nat
  BY <1>1, <1>2, FS_CardinalityType
<1>4. QED
  BY <1>1, <1>2, <1>3

-----------------------------------------------------------------------------
\* Every variable keeps its type (TypeOK), whatever the tasks do.
THEOREM TypeCorrect == Spec => []TypeOK
<1>1. Init => TypeOK
  BY DEF Init, TypeOK, Phases
<1>2. TypeOK /\ [Next]_vars => TypeOK'
  <2> SUFFICES ASSUME TypeOK, [Next]_vars PROVE TypeOK'
    OBVIOUS
  <2> USE DEF TypeOK, MoveTo, Phases
  <2>1. ASSUME NEW j \in Jobs, AcquireSlot(j) PROVE TypeOK'
    BY <2>1 DEF AcquireSlot
  <2>2. ASSUME NEW j \in Jobs, EnterWait(j) PROVE TypeOK'
    BY <2>2 DEF EnterWait
  <2>3. ASSUME NEW j \in Jobs, PollSlot(j) PROVE TypeOK'
    BY <2>3 DEF PollSlot
  <2>4. ASSUME NEW j \in Jobs, Register(j) PROVE TypeOK'
    BY <2>4 DEF Register
  <2>5. ASSUME NEW j \in Jobs, EndJob(j) PROVE TypeOK'
    BY <2>5 DEF EndJob
  <2>6. ASSUME NEW j \in Jobs, ReleaseSlot(j) PROVE TypeOK'
    <3>1. waiting # <<>> => Head(waiting) \in Jobs /\ Tail(waiting) \in Seq(Jobs)
      OBVIOUS
    <3>2. QED
      BY <2>6, <3>1 DEF ReleaseSlot
  <2>7. CASE UNCHANGED vars
    BY <2>7 DEF vars
  <2>8. QED
    BY <2>1, <2>2, <2>3, <2>4, <2>5, <2>6, <2>7 DEF Next, TaskStep
<1>3. QED
  BY <1>1, <1>2, PTL DEF Spec

-----------------------------------------------------------------------------
(* IInv holds initially and every action preserves it. *)

LEMMA InitIInv == Init => IInv
<1> SUFFICES ASSUME Init PROVE IInv
  OBVIOUS
<1>1. TypeOK
  BY DEF Init, TypeOK, Phases
<1>2. Running = {} /\ LiveSlots = {}
  BY DEF Init, Running, LiveSlots
<1>3. LiveSlotsWithinCapacity
  BY <1>2, FS_EmptySet, PoolAssumption DEF LiveSlotsWithinCapacity
<1>4. QED
  BY <1>1, <1>2, <1>3 DEF Init, IInv, QueuedOnce, Queued, IdleHoldsNothing,
     Known, FullWhileQueued, UnslottedRunnerIsHead

LEMMA AcquireSlotIInv ==
  ASSUME IInv, NEW j \in Jobs, AcquireSlot(j), TypeOK'
  PROVE  IInv'
<1> USE DEF IInv, TypeOK, MoveTo, Running
<1>0. j \notin active /\ \A i \in 1..Len(waiting) : waiting[i] # j
  BY DEF AcquireSlot, IdleHoldsNothing, Queued
<1>1. CASE /\ Cardinality(active) < MaxConcurrent
           /\ active' = active \cup {j}
           /\ phase' = [phase EXCEPT ![j] = "admitted"]
           /\ UNCHANGED waiting
  <2>1. LiveSlotsWithinCapacity'
    <3>1. LiveSlots' \subseteq active \cup {j}
      BY <1>1 DEF LiveSlots
    <3>2. /\ Cardinality(LiveSlots') \in Nat
          /\ Cardinality(LiveSlots') <= Cardinality(active) + 1
      BY <3>1, AddOne, FiniteParts
    <3>3. QED
      BY <1>1, <3>2, FiniteParts, PoolAssumption DEF LiveSlotsWithinCapacity
  <2>2. QueuedOnce' /\ Queued'
    BY <1>0, <1>1 DEF QueuedOnce, Queued
  <2>3. IdleHoldsNothing' /\ UnslottedRunnerIsHead'
    BY <1>1 DEF IdleHoldsNothing, UnslottedRunnerIsHead
  <2>4. Known'
    BY <1>1 DEF Known, Waiting
  <2>5. FullWhileQueued'
    BY <1>1, FiniteParts, PoolAssumption DEF FullWhileQueued
  <2>6. QED
    BY <2>1, <2>2, <2>3, <2>4, <2>5
<1>2. CASE /\ Cardinality(active) >= MaxConcurrent
           /\ phase' = [phase EXCEPT ![j] = IF Len(waiting) > 0
                                             THEN "announcing" ELSE "admitted"]
           /\ waiting' = Append(waiting, j)
           /\ UNCHANGED active
  <2>1. /\ Len(waiting') = Len(waiting) + 1
        /\ \A i \in 1..Len(waiting) : waiting'[i] = waiting[i]
        /\ waiting'[Len(waiting) + 1] = j
        /\ waiting' # <<>>
        /\ Head(waiting') = waiting'[1]
    BY <1>2
  <2>2. LiveSlotsWithinCapacity'
    <3>1. LiveSlots' = LiveSlots
      BY <1>0, <1>2 DEF LiveSlots, Over, AcquireSlot
    <3>2. QED
      BY <3>1 DEF LiveSlotsWithinCapacity
  <2>3. QueuedOnce'
    BY <1>0, <1>2, <2>1 DEF QueuedOnce
  <2>4. Queued'
    BY <1>0, <1>2, <2>1 DEF Queued
  <2>5. IdleHoldsNothing'
    BY <1>0, <1>2 DEF IdleHoldsNothing
  <2>6. Known'
    <3>1. Waiting \cup {j} \subseteq Waiting'
      BY <2>1 DEF Waiting
    <3>2. QED
      BY <1>2, <3>1 DEF Known
  <2>7. UnslottedRunnerIsHead'
    <3> SUFFICES ASSUME NEW k \in Jobs, k \in Running', k \notin active
                 PROVE  Head(waiting') = k
      BY <1>2, <2>1 DEF UnslottedRunnerIsHead
    <3>1. CASE k = j
      <4>1. Len(waiting) = 0
        BY <1>2, <3>1
      <4>2. QED
        BY <2>1, <3>1, <4>1
    <3>2. CASE k # j
      <4>1. waiting # <<>> /\ Head(waiting) = k
        BY <1>2, <3>2 DEF UnslottedRunnerIsHead
      <4>2. Len(waiting) > 0 /\ waiting[1] = k
        BY <4>1
      <4>3. QED
        BY <2>1, <4>2
    <3>3. QED
      BY <3>1, <3>2
  <2>8. FullWhileQueued'
    BY <1>2 DEF FullWhileQueued
  <2>9. QED
    BY <2>2, <2>3, <2>4, <2>5, <2>6, <2>7, <2>8
<1>3. QED
  BY <1>1, <1>2 DEF AcquireSlot

\* A step that moves one task, leaves the pool alone and neither starts nor
\* ends an unslotted execution keeps IInv.
LEMMA MoveOnlyIInv ==
  ASSUME IInv, TypeOK', NEW j \in Jobs, NEW p \in Phases,
         MoveTo(j, p), UNCHANGED <<active, waiting>>,
         phase[j] \notin {"idle", "over"}, p \notin {"idle", "over"},
         \/ phase[j] \in {"announcing", "polling"} /\ j \in active
         \/ phase[j] = "announcing" /\ p = "polling"
         \/ j \in Running /\ p \in {"running", "closing"}
  PROVE  IInv'
<1> USE DEF IInv, TypeOK, MoveTo, Running
<1>1. QueuedOnce' /\ IdleHoldsNothing' /\ FullWhileQueued'
  BY DEF QueuedOnce, IdleHoldsNothing, FullWhileQueued
<1>2. Queued'
  BY DEF Queued
<1>3. Known'
  BY DEF Known, Waiting
<1>4. UnslottedRunnerIsHead'
  BY DEF UnslottedRunnerIsHead
<1>5. LiveSlotsWithinCapacity'
  <2>1. LiveSlots' = LiveSlots
    BY DEF LiveSlots, Over
  <2>2. QED
    BY <2>1 DEF LiveSlotsWithinCapacity
<1>6. QED
  BY <1>1, <1>2, <1>3, <1>4, <1>5

LEMMA EnterWaitIInv ==
  ASSUME IInv, NEW j \in Jobs, EnterWait(j), TypeOK'
  PROVE  IInv'
<1>1. UNCHANGED <<active, waiting>>
  BY DEF EnterWait, IInv, Known
<1>2. \/ j \in active /\ MoveTo(j, "admitted")
      \/ MoveTo(j, "polling")
  BY DEF EnterWait
<1>3. QED
  BY <1>1, <1>2, MoveOnlyIInv DEF EnterWait, Phases

LEMMA ReleaseSlotIInv ==
  ASSUME IInv, NEW j \in Jobs, ReleaseSlot(j), TypeOK'
  PROVE  IInv'
<1> USE DEF IInv, TypeOK, MoveTo, Running
<1>0. phase[j] = "closing" /\ phase' = [phase EXCEPT ![j] = "over"]
  BY DEF ReleaseSlot
<1>1. CASE waiting = <<>> /\ active' = active \ {j} /\ UNCHANGED waiting
  <2>1. QueuedOnce' /\ Queued' /\ IdleHoldsNothing' /\ FullWhileQueued'
    BY <1>0, <1>1 DEF QueuedOnce, Queued, IdleHoldsNothing, FullWhileQueued
  <2>2. Known' /\ UnslottedRunnerIsHead'
    BY <1>0, <1>1 DEF Known, UnslottedRunnerIsHead, Waiting
  <2>3. LiveSlotsWithinCapacity'
    <3>1. LiveSlots' \subseteq LiveSlots
      BY <1>0, <1>1 DEF LiveSlots, Over
    <3>2. Cardinality(LiveSlots') <= Cardinality(LiveSlots)
      BY <3>1, FiniteParts, FS_Subset
    <3>3. Cardinality(LiveSlots') \in Nat
      BY <3>1, FiniteParts, FS_Subset, FS_CardinalityType
    <3>4. QED
      BY <3>2, <3>3, FiniteParts, PoolAssumption DEF LiveSlotsWithinCapacity
  <2>4. QED
    BY <2>1, <2>2, <2>3
<1>2. CASE /\ waiting # <<>>
           /\ active' = (active \ {j}) \cup {Head(waiting)}
           /\ waiting' = Tail(waiting)
  <2> DEFINE h == Head(waiting)
  <2>1. /\ Len(waiting) >= 1
        /\ h = waiting[1] /\ h \in Jobs
        /\ Len(waiting') = Len(waiting) - 1
        /\ \A i \in 1..Len(waiting') : waiting'[i] = waiting[i + 1]
    BY <1>2
  <2>2. /\ h \notin active
        /\ phase[h] \notin {"idle", "over"}
        /\ \A i \in 2..Len(waiting) : waiting[i] # h
    BY <2>1 DEF Queued, QueuedOnce
  <2>3. \A i \in 2..Len(waiting) :
          /\ waiting[i] \notin active
          /\ phase[waiting[i]] \in {"announcing", "polling"}
    BY DEF Queued
  <2>4. j \notin active => j = h
    BY <1>0, <2>1 DEF UnslottedRunnerIsHead
  <2>5. QueuedOnce'
    BY <2>1 DEF QueuedOnce
  <2>6. Queued'
    BY <1>0, <1>2, <2>1, <2>2, <2>3 DEF Queued
  <2>7. IdleHoldsNothing'
    BY <1>0, <1>2, <2>2 DEF IdleHoldsNothing
  <2>8. Known'
    <3>1. Waiting \subseteq Waiting' \cup {h}
      <4> SUFFICES ASSUME NEW i \in 1..Len(waiting), waiting[i] # h
                   PROVE  waiting[i] \in Waiting'
        BY DEF Waiting
      <4>1. i - 1 \in 1..Len(waiting') /\ waiting'[i - 1] = waiting[i]
        BY <2>1
      <4>2. QED
        BY <4>1 DEF Waiting
    <3>2. QED
      BY <1>0, <1>2, <3>1 DEF Known
  <2>9. UnslottedRunnerIsHead'
    BY <1>0, <1>2, <2>1 DEF UnslottedRunnerIsHead
  <2>10. LiveSlotsWithinCapacity'
    <3>1. CASE j \in active
      <4>1. j \in LiveSlots
        BY <1>0, <3>1 DEF LiveSlots, Over
      <4>2. LiveSlots' \subseteq (LiveSlots \ {j}) \cup {h}
        BY <1>0, <1>2 DEF LiveSlots, Over
      <4>3. Cardinality(LiveSlots') <= Cardinality(LiveSlots)
        BY <4>1, <4>2, ReplaceOne, FiniteParts
      <4>4. Cardinality(LiveSlots') \in Nat
        BY <4>2, AddOne, FiniteParts
      <4>5. QED
        BY <4>3, <4>4, FiniteParts, PoolAssumption DEF LiveSlotsWithinCapacity
    <3>2. CASE j \notin active
      <4>1. LiveSlots' = LiveSlots
        BY <1>0, <1>2, <2>4, <3>2 DEF LiveSlots, Over
      <4>2. QED
        BY <4>1 DEF LiveSlotsWithinCapacity
    <3>3. QED
      BY <3>1, <3>2
  <2>11. FullWhileQueued'
    <3> DEFINE R == active \ {j}
    <3>1. /\ IsFiniteSet(R)
          /\ Cardinality(R) >= Cardinality(active) - 1
          /\ j \notin active => R = active
      <4>1. IsFiniteSet(active) /\ Cardinality(active) \in Nat
        BY FiniteParts
      <4>2. j \in active => /\ IsFiniteSet(R)
                            /\ Cardinality(R) = Cardinality(active) - 1
        BY <4>1, FS_RemoveElement
      <4>3. j \notin active => R = active
        OBVIOUS
      <4> HIDE DEF R
      <4>4. QED
        BY <4>1, <4>2, <4>3
    <3>2. h \notin R
      BY <2>2
    <3>3. Cardinality(active') = Cardinality(R) + 1
      BY <1>2, <3>1, <3>2, FS_AddElement
    <3>4. Cardinality(active) >= MaxConcurrent
      BY <1>2 DEF FullWhileQueued
    <3>5. QED
      BY <3>1, <3>3, <3>4, FiniteParts, FS_CardinalityType, PoolAssumption
         DEF FullWhileQueued
  <2>12. QED
    BY <2>5, <2>6, <2>7, <2>8, <2>9, <2>10, <2>11
<1>3. QED
  BY <1>1, <1>2 DEF ReleaseSlot

LEMMA NextIInv == IInv /\ TypeOK' /\ [Next]_vars => IInv'
<1> SUFFICES ASSUME IInv, TypeOK', [Next]_vars PROVE IInv'
  OBVIOUS
<1>1. ASSUME NEW j \in Jobs, AcquireSlot(j) PROVE IInv'
  BY <1>1, AcquireSlotIInv
<1>2. ASSUME NEW j \in Jobs, EnterWait(j) PROVE IInv'
  BY <1>2, EnterWaitIInv
<1>3. ASSUME NEW j \in Jobs, PollSlot(j) PROVE IInv'
  BY <1>3, MoveOnlyIInv DEF PollSlot, Phases
<1>4. ASSUME NEW j \in Jobs, Register(j) PROVE IInv'
  BY <1>4, MoveOnlyIInv DEF Register, Phases, Running
<1>5. ASSUME NEW j \in Jobs, EndJob(j) PROVE IInv'
  BY <1>5, MoveOnlyIInv DEF EndJob, Phases, Running
<1>6. ASSUME NEW j \in Jobs, ReleaseSlot(j) PROVE IInv'
  BY <1>6, ReleaseSlotIInv
<1>7. CASE UNCHANGED vars
  BY <1>7 DEF vars, IInv, TypeOK, QueuedOnce, Queued, IdleHoldsNothing,
     Known, FullWhileQueued, Waiting, UnslottedRunnerIsHead, Running,
     LiveSlotsWithinCapacity, LiveSlots, Over
<1>8. QED
  BY <1>1, <1>2, <1>3, <1>4, <1>5, <1>6, <1>7 DEF Next, TaskStep

LEMMA IInvAlways == Spec => []IInv
<1>1. Spec => []TypeOK
  BY TypeCorrect
<1>2. QED
  BY <1>1, InitIInv, NextIInv, PTL DEF Spec

-----------------------------------------------------------------------------
(* What follows from IInv.                                                 *)

\* A waiting task is promoted, or queued while the pool is full: no waiter is
\* lost and no slot stays idle while somebody waits.
THEOREM WaitersKept == Spec => []WaitsOnlyWhenFull
<1>1. IInv => WaitsOnlyWhenFull
  <2>1. waiting = <<>> => Waiting = {}
    BY DEF Waiting
  <2>2. QED
    BY <2>1 DEF IInv, Known, FullWhileQueued, WaitsOnlyWhenFull
<1>2. QED
  BY <1>1, IInvAlways, PTL

\* A job that sleeps without a slot waits for a task that still exists, unless
\* max_concurrent_jobs slots have been left behind by finished jobs.
StarvesOnlyByLeaks ==
  \A j \in Jobs :
    phase[j] = "polling" /\ j \notin active =>
      \/ \E i \in LiveSlots : phase[i] # "idle"
      \/ Cardinality(active \cap Over) >= MaxConcurrent

\* The safety half of ServedWhileLeakFree: whoever waits has somebody to wait
\* for as long as one slot is not leaked.
THEOREM NobodyStarvesUnleaked == Spec => []StarvesOnlyByLeaks
<1>1. IInv => StarvesOnlyByLeaks
  <2> SUFFICES ASSUME IInv, NEW j \in Jobs, phase[j] = "polling",
                      j \notin active, ~\E i \in LiveSlots : phase[i] # "idle"
               PROVE  Cardinality(active \cap Over) >= MaxConcurrent
    BY DEF StarvesOnlyByLeaks
  <2>1. active \cap Over = active
    BY DEF IInv, IdleHoldsNothing, LiveSlots
  <2>2. waiting # <<>>
    BY DEF IInv, TypeOK, Known, Waiting
  <2>3. QED
    BY <2>1, <2>2 DEF IInv, FullWhileQueued
<1>2. QED
  BY <1>1, IInvAlways, PTL

Leaked(j) == j \in active /\ phase[j] = "over"

\* A slot is left behind in one way only: a job that executes without a slot
\* is the head of the queue when it ends and is promoted by its own release.
LeaksBySelfPromotion ==
  [][\A j \in Jobs : ~Leaked(j) /\ Leaked(j)' =>
       /\ phase[j] = "closing" /\ j \notin active
       /\ waiting # <<>> /\ Head(waiting) = j]_vars

\* Every leak goes back to position 0 taken for a granted slot.
THEOREM LeaksComeFromTheHead == Spec => LeaksBySelfPromotion
<1> DEFINE Own(j) == ~Leaked(j) /\ Leaked(j)' =>
                       /\ phase[j] = "closing" /\ j \notin active
                       /\ waiting # <<>> /\ Head(waiting) = j
<1>1. IInv /\ [Next]_vars => [\A j \in Jobs : Own(j)]_vars
  <2> SUFFICES ASSUME IInv, Next, NEW j \in Jobs, ~Leaked(j), Leaked(j)'
               PROVE  /\ phase[j] = "closing" /\ j \notin active
                      /\ waiting # <<>> /\ Head(waiting) = j
    OBVIOUS
  <2> USE DEF IInv, TypeOK, MoveTo, Leaked
  <2>1. ASSUME NEW i \in Jobs, AcquireSlot(i) PROVE FALSE
    BY <2>1 DEF AcquireSlot
  <2>2. ASSUME NEW i \in Jobs, ReleaseSlot(i)
        PROVE  i = j /\ j \notin active /\ waiting # <<>> /\ Head(waiting) = j
    <3>1. waiting # <<>> => /\ Head(waiting) = waiting[1]
                            /\ 1 \in 1..Len(waiting)
      OBVIOUS
    <3>2. waiting # <<>> => /\ Head(waiting) \notin active
                            /\ phase[Head(waiting)] # "over"
      BY <3>1 DEF Queued, Running
    <3>3. QED
      BY <2>2, <3>2 DEF ReleaseSlot
  <2>3. ASSUME UNCHANGED active, NEW i \in Jobs, NEW p \in Phases \ {"over"},
               phase' = [phase EXCEPT ![i] = p]
        PROVE  FALSE
    BY <2>3
  <2>4. QED
    BY <2>1, <2>2, <2>3
       DEF Next, TaskStep, EnterWait, PollSlot, Register, EndJob, ReleaseSlot,
           Phases
<1>2. QED
  BY <1>1, IInvAlways, PTL DEF Spec, LeaksBySelfPromotion

\* A job that executes without a slot is the head of waiting_queue.
THEOREM UnslottedIsHead == Spec => []UnslottedRunnerIsHead
<1>1. IInv => UnslottedRunnerIsHead
  BY DEF IInv
<1>2. QED
  BY <1>1, IInvAlways, PTL

\* Slots of existing tasks never exceed max_concurrent_jobs.
THEOREM LiveSlotsBounded == Spec => []LiveSlotsWithinCapacity
<1>1. IInv => LiveSlotsWithinCapacity
  BY DEF IInv
<1>2. QED
  BY <1>1, IInvAlways, PTL

\* At most max_concurrent_jobs + 1 jobs execute together: those with a slot,
\* and the head of the queue.
RunningWithinBound == Cardinality(Running) <= MaxConcurrent + 1

LEMMA RunningBounded == IInv => RunningWithinBound
<1> SUFFICES ASSUME IInv PROVE RunningWithinBound
  OBVIOUS
<1> USE DEF IInv
<1>1. \E h : Running \subseteq LiveSlots \cup {h}
  <2>1. Running \cap active \subseteq LiveSlots
    BY DEF Running, LiveSlots, Over
  <2>2. Running \ active \subseteq {Head(waiting)}
    BY DEF UnslottedRunnerIsHead, Running
  <2>3. QED
    BY <2>1, <2>2
<1>2. PICK h : Running \subseteq LiveSlots \cup {h}
  BY <1>1
<1>3. Cardinality(Running) <= Cardinality(LiveSlots) + 1
  BY <1>2, AddOne, FiniteParts
<1>4. QED
  BY <1>3, FiniteParts, PoolAssumption
     DEF LiveSlotsWithinCapacity, RunningWithinBound

\* A step in which j's task passes the admission is a Start of the abstract
\* specification.
LEMMA AdmissionStarts ==
  ASSUME TypeOK, RunningWithinBound', NEW j \in Jobs, MoveTo(j, "admitted"),
         phase[j] \in {"idle", "announcing", "polling"}
  PROVE  Bounded!Start(j)
<1>1. /\ Running' = Running \cup {j}
      /\ j \notin Running \cup Over
      /\ Over' = Over
  BY DEF TypeOK, MoveTo, Running, Over
<1>2. Cardinality(Running') = Cardinality(Running) + 1
  BY <1>1, FiniteParts, FS_AddElement
<1>3. Cardinality(Running) < MaxConcurrent + 1
  BY <1>2, FiniteParts, PoolAssumption DEF RunningWithinBound
<1>4. Bounded!Cardinality(Running) = Cardinality(Running)
  BY DEF Cardinality, Bounded!Cardinality, IsFiniteSet, Bounded!IsFiniteSet
<1>5. QED
  BY <1>1, <1>3, <1>4 DEF Bounded!Start

\* A step of j's task between two phases on the same side of the admission
\* changes nothing the abstract specification shows.
LEMMA OtherMovesStutter ==
  ASSUME TypeOK, NEW j \in Jobs, NEW p \in Phases, MoveTo(j, p),
         \/ /\ phase[j] \in {"idle", "announcing"}
            /\ p \in {"announcing", "polling"}
         \/ j \in Running /\ p \in {"running", "closing"}
  PROVE  UNCHANGED Bounded!vars
BY DEF TypeOK, MoveTo, Running, Over, Bounded!vars

LEMMA StepSimulation ==
  TypeOK /\ RunningWithinBound' /\ [Next]_vars => [Bounded!Next]_Bounded!vars
<1> SUFFICES ASSUME TypeOK, RunningWithinBound', [Next]_vars
             PROVE  [Bounded!Next]_Bounded!vars
  OBVIOUS
<1>1. ASSUME NEW j \in Jobs, AcquireSlot(j) PROVE [Bounded!Next]_Bounded!vars
  <2>1. phase[j] = "idle" /\ (MoveTo(j, "admitted") \/ MoveTo(j, "announcing"))
    BY <1>1 DEF AcquireSlot
  <2>2. QED
    BY <2>1, AdmissionStarts, OtherMovesStutter DEF Bounded!Next, Phases
<1>2. ASSUME NEW j \in Jobs, EnterWait(j) PROVE [Bounded!Next]_Bounded!vars
  <2>1. /\ phase[j] = "announcing"
        /\ MoveTo(j, "admitted") \/ MoveTo(j, "polling")
    BY <1>2 DEF EnterWait
  <2>2. QED
    BY <2>1, AdmissionStarts, OtherMovesStutter DEF Bounded!Next, Phases
<1>3. ASSUME NEW j \in Jobs, PollSlot(j) PROVE [Bounded!Next]_Bounded!vars
  BY <1>3, AdmissionStarts DEF PollSlot, Bounded!Next
<1>4. ASSUME NEW j \in Jobs, Register(j) PROVE [Bounded!Next]_Bounded!vars
  BY <1>4, OtherMovesStutter DEF Register, Running, Phases
<1>5. ASSUME NEW j \in Jobs, EndJob(j) PROVE [Bounded!Next]_Bounded!vars
  BY <1>5, OtherMovesStutter DEF EndJob, Running, Phases
<1>6. ASSUME NEW j \in Jobs, ReleaseSlot(j) PROVE [Bounded!Next]_Bounded!vars
  <2>1. phase[j] = "closing" /\ phase' = [phase EXCEPT ![j] = "over"]
    BY <1>6 DEF ReleaseSlot, MoveTo
  <2>2. /\ j \in Running
        /\ Running' = Running \ {j}
        /\ Over' = Over \cup {j}
    BY <2>1 DEF TypeOK, Running, Over
  <2>3. QED
    BY <2>2 DEF Bounded!Stop, Bounded!Next
<1>7. CASE UNCHANGED vars
  BY <1>7 DEF vars, Bounded!vars, Running, Over
<1>8. QED
  BY <1>1, <1>2, <1>3, <1>4, <1>5, <1>6, <1>7 DEF Next, TaskStep

\* The pool implements BoundedExecution with capacity max_concurrent_jobs + 1:
\* each job at most once, never more than one above the configured number.
THEOREM PoolIsBounded == Spec => ImplementsBoundedExecution
<1>1. Init => Bounded!Init
  BY DEF Init, Bounded!Init, Running, Over
<1>2. IInv => TypeOK
  BY DEF IInv
<1>3. QED
  BY <1>1, <1>2, IInvAlways, RunningBounded, StepSimulation, PTL
     DEF Spec, Bounded!Spec, ImplementsBoundedExecution

\* Waiters are promoted in the order in which they were queued.
THEOREM PromotionIsFifo == Spec => FifoPromotion
<1> DEFINE Fifo ==
      \A k \in 1..Len(waiting) :
        waiting[k] \in active' => \A i \in 1..(k - 1) : waiting[i] \notin Waiting'
<1>1. IInv /\ [Next]_vars => [Fifo]_vars
  <2> SUFFICES ASSUME IInv, [Next]_vars,
                      NEW k \in 1..Len(waiting), waiting[k] \in active',
                      NEW i \in 1..(k - 1)
               PROVE  waiting[i] \notin Waiting'
    OBVIOUS
  <2> USE DEF IInv, TypeOK
  <2>1. waiting[k] \notin active /\ waiting[k] # waiting[i]
    BY DEF Queued, QueuedOnce
  <2>2. ASSUME NEW j \in Jobs, AcquireSlot(j) PROVE FALSE
    BY <2>1, <2>2 DEF AcquireSlot, Queued, Running
  <2>3. ASSUME NEW j \in Jobs, ReleaseSlot(j) PROVE FALSE
    <3>1. waiting # <<>> /\ waiting[k] = Head(waiting)
      BY <2>1, <2>3 DEF ReleaseSlot
    <3>2. waiting[k] = waiting[1] /\ k # 1
      BY <3>1
    <3>3. QED
      BY <3>2 DEF QueuedOnce
  <2>4. CASE UNCHANGED active
    BY <2>1, <2>4
  <2>5. QED
    BY <2>2, <2>3, <2>4
       DEF Next, TaskStep, EnterWait, PollSlot, Register, EndJob, vars
<1>2. QED
  BY <1>1, IInvAlways, PTL DEF Spec, FifoPromotion

=============================================================================
