------------------------ MODULE GeminiBreaker_proofs ------------------------
(***************************************************************************)
(* Proofs about GeminiBreaker for any number of keys, jobs, permits and    *)
(* any delays.  The two facts about the breaker are inductive together     *)
(* with the types; only mark_cooldown, the reload and time disturb them.   *)
(* That no delay grows beyond the longest one then follows.                *)
(***************************************************************************)
EXTENDS GeminiBreaker, FiniteSetTheorems, WellFoundedInduction, TLAPS

\* The types, without the bound on the delays that makes runs finite.
TypeInv ==
  /\ cool \in [Keys -> Nat]
  /\ breaker \in Nat
  /\ current \in Keys
  /\ phase \in [Jobs -> Phases]
  /\ slot \in [Jobs -> Keys]
  /\ tried \in [Jobs -> 0..(NumKeys - 1)]
  /\ calls \in [Jobs -> 0..MaxCalls]
  /\ reloads \in 0..MaxReloads

IInv == TypeInv /\ BreakerIsEarliestExpiry /\ LockoutOnlyWithoutKeys

-----------------------------------------------------------------------------
\* A nonempty set of natural numbers has a least element.
LEMMA LeastElement ==
  ASSUME NEW S \in SUBSET Nat, S # {}
  PROVE  \E m \in S : \A n \in S : m <= n
<1>1. PICK m \in S : \A n \in S : ~(<<n, m>> \in OpToRel(<, Nat))
  BY NatLessThanWellFounded, WFMin, Zenon
<1>2. \A n \in S : ~(n < m)
  BY <1>1 DEF OpToRel
<1>3. QED
  BY <1>2

\* Arithmetic modulo the number of keys stays among the keys.
LEMMA ModKeys ==
  ASSUME NEW i \in Int
  PROVE  i % NumKeys \in Keys
BY BreakerAssumption DEF Keys

LEMMA ZeroIsKey == 0 \in Keys
BY BreakerAssumption DEF Keys

\* get_client finds a ready key whenever there is one.
LEMMA NextReadyIsReady ==
  ASSUME NEW i \in Keys, NEW c \in [Keys -> Nat], ~AllCooling(c)
  PROVE  NextReady(i, c) \in Keys /\ c[NextReady(i, c)] = 0
<1> DEFINE Dist(k) == (k - i) % NumKeys
           Ready == {k \in Keys : c[k] = 0}
           Dists == {Dist(k) : k \in Ready}
<1>1. Ready # {}
  BY DEF AllCooling
<1>2. \A k \in Keys : Dist(k) \in Nat
  <2> SUFFICES ASSUME NEW k \in Keys PROVE Dist(k) \in Nat
    OBVIOUS
  <2>1. k - i \in Int
    BY BreakerAssumption DEF Keys
  <2>2. QED
    BY <2>1, ModKeys, BreakerAssumption DEF Keys
<1>3. Dists \in SUBSET Nat /\ Dists # {}
  BY <1>1, <1>2
<1>4. PICK m \in Dists : \A n \in Dists : m <= n
  BY <1>3, LeastElement
<1>5. \E k \in Keys : c[k] = 0 /\ \A l \in Keys : c[l] = 0 => Dist(k) <= Dist(l)
  BY <1>4
<1>6. QED
  BY <1>5 DEF NextReady

\* One turn of the loop keeps the types of what it writes.
LEMMA TurnType ==
  ASSUME TypeInv, NEW t \in Jobs, NEW n \in 0..NumKeys,
         NEW c \in [Keys -> Nat], NEW b \in Nat, NEW i \in Keys,
         Turn(t, n, c, b, i)
  PROVE  /\ current' \in Keys
         /\ phase' \in [Jobs -> Phases]
         /\ slot' \in [Jobs -> Keys]
         /\ tried' \in [Jobs -> 0..(NumKeys - 1)]
<1>1. CASE n < NumKeys /\ b = 0 /\ ~AllCooling(c)
  <2>1. /\ current' = NextReady(i, c)
        /\ slot' = [slot EXCEPT ![t] = NextReady(i, c)]
        /\ phase' = [phase EXCEPT ![t] = "calling"]
        /\ tried' = [tried EXCEPT ![t] = n]
    BY <1>1, BreakerAssumption DEF Turn
  <2>2. NextReady(i, c) \in Keys
    BY <1>1, NextReadyIsReady
  <2>3. n \in 0..(NumKeys - 1)
    BY <1>1, BreakerAssumption
  <2>4. QED
    BY <2>1, <2>2, <2>3 DEF TypeInv, Phases
<1>2. CASE Leave(t) /\ current' = i
  BY <1>2, ZeroIsKey, BreakerAssumption DEF Leave, TypeInv, Phases, Keys
<1>3. QED
  BY <1>1, <1>2 DEF Turn

\* mark_cooldown keeps the types and both facts about the breaker, except that
\* a delay of zero may leave a ready key behind an open breaker.
LEMMA MarkCooldownIInv ==
  ASSUME IInv, NEW k \in Keys, NEW d \in Nat, MarkCooldown(k, d)
  PROVE  /\ cool' \in [Keys -> Nat]
         /\ breaker' \in Nat
         /\ BreakerIsEarliestExpiry'
         /\ reloads' = reloads /\ (0 \notin QuotaDelays => d # 0)
              => LockoutOnlyWithoutKeys'
<1> DEFINE Left == {cool'[l] : l \in Keys}
           Least(m) == m \in Left /\ \A l \in Keys : m <= cool'[l]
<1>1. cool' = [cool EXCEPT ![k] = d] /\ cool' \in [Keys -> Nat]
  BY DEF MarkCooldown, IInv, TypeInv
<1>2. CASE AllCooling(cool')
  <2>1. \E m \in Left : \A l \in Keys : m <= cool'[l]
    <3>1. Left \in SUBSET Nat /\ Left # {}
      BY <1>1, ZeroIsKey
    <3>2. PICK m \in Left : \A n \in Left : m <= n
      BY <3>1, LeastElement
    <3>3. QED
      BY <3>2
  <2>2. breaker' = CHOOSE m \in Left : \A l \in Keys : m <= cool'[l]
    BY <1>2 DEF MarkCooldown
  <2>3. breaker' \in Left /\ \A l \in Keys : breaker' <= cool'[l]
    BY <2>1, <2>2
  <2>4. breaker' \in Nat
    BY <1>1, <2>3
  <2>5. BreakerIsEarliestExpiry'
    BY <1>1, <2>3, <2>4 DEF BreakerIsEarliestExpiry
  <2>6. LockoutOnlyWithoutKeys'
    BY <1>2 DEF LockoutOnlyWithoutKeys
  <2>7. QED
    BY <1>1, <2>4, <2>5, <2>6
<1>3. CASE ~AllCooling(cool')
  <2>1. breaker' = breaker /\ breaker \in Nat
    BY <1>3 DEF MarkCooldown, IInv, TypeInv
  <2>2. BreakerIsEarliestExpiry'
    BY <1>3 DEF BreakerIsEarliestExpiry
  <2>3. ASSUME reloads' = reloads, 0 \notin QuotaDelays => d # 0
        PROVE  LockoutOnlyWithoutKeys'
    BY <1>1, <1>3, <2>1, <2>3
       DEF IInv, TypeInv, LockoutOnlyWithoutKeys, Degraded, AllCooling
  <2>4. QED
    BY <1>1, <2>1, <2>2, <2>3
<1>4. QED
  BY <1>2, <1>3

LEMMA FailKeyIInv ==
  ASSUME IInv, NEW t \in Jobs, NEW d \in Delays, FailKey(t, d)
  PROVE  IInv'
<1>1. slot[t] \in Keys /\ d \in Nat /\ (0 \notin QuotaDelays => d # 0)
  BY BreakerAssumption DEF IInv, TypeInv, Delays
<1>2. /\ cool' \in [Keys -> Nat] /\ breaker' \in Nat
      /\ BreakerIsEarliestExpiry' /\ LockoutOnlyWithoutKeys'
  BY <1>1, MarkCooldownIInv DEF FailKey
<1>3. (current + 1) % NumKeys \in Keys /\ tried[t] + 1 \in 0..NumKeys
  <2>1. current + 1 \in Int
    BY BreakerAssumption DEF IInv, TypeInv, Keys
  <2>2. QED
    BY <2>1, ModKeys, BreakerAssumption DEF IInv, TypeInv
<1>4. /\ current' \in Keys /\ phase' \in [Jobs -> Phases]
      /\ slot' \in [Jobs -> Keys] /\ tried' \in [Jobs -> 0..(NumKeys - 1)]
  BY <1>2, <1>3, TurnType DEF FailKey, IInv
<1>5. QED
  BY <1>2, <1>4 DEF FailKey, IInv, TypeInv

-----------------------------------------------------------------------------
LEMMA InitIInv == Init => IInv
BY ZeroIsKey, BreakerAssumption
   DEF Init, IInv, TypeInv, Phases, BreakerIsEarliestExpiry,
       LockoutOnlyWithoutKeys, AllCooling, Degraded

\* A step that leaves cooldowns, breaker and reload count alone and keeps the
\* types keeps IInv.
LEMMA QuietIInv ==
  ASSUME IInv, TypeInv', UNCHANGED <<cool, breaker, reloads>>
  PROVE  IInv'
BY DEF IInv, BreakerIsEarliestExpiry, LockoutOnlyWithoutKeys, Degraded, AllCooling

LEMMA TickIInv ==
  ASSUME IInv, Tick
  PROVE  IInv'
<1> USE DEF IInv, TypeInv, Tick, Before, AllCooling
<1>1. TypeInv'
  OBVIOUS
<1>2. \A k \in Keys : cool[k] \in Nat /\ cool'[k] = Before(cool[k])
  OBVIOUS
<1>3. BreakerIsEarliestExpiry'
  <2> SUFFICES ASSUME AllCooling(cool')
               PROVE  /\ \E k \in Keys : cool'[k] = breaker'
                      /\ \A k \in Keys : cool'[k] >= breaker'
    BY DEF BreakerIsEarliestExpiry
  <2>1. \A k \in Keys : cool[k] > 1
    BY <1>2
  <2>2. /\ \E k \in Keys : cool[k] = breaker
        /\ \A k \in Keys : cool[k] >= breaker
    BY <2>1 DEF BreakerIsEarliestExpiry
  <2>3. breaker > 1 /\ breaker' = breaker - 1
    BY <2>1, <2>2
  <2>4. QED
    BY <1>2, <2>1, <2>2, <2>3
<1>4. LockoutOnlyWithoutKeys'
  <2> SUFFICES ASSUME reloads = 0, 0 \notin QuotaDelays, breaker' > 0,
                      NEW k \in Keys
               PROVE  cool'[k] > 0
    BY DEF LockoutOnlyWithoutKeys, Degraded
  <2>1. breaker > 1
    OBVIOUS
  <2>2. AllCooling(cool)
    BY <2>1 DEF LockoutOnlyWithoutKeys, Degraded
  <2>3. cool[k] >= breaker
    BY <2>2 DEF BreakerIsEarliestExpiry
  <2>4. QED
    BY <1>2, <2>1, <2>3
<1>5. QED
  BY <1>1, <1>3, <1>4

LEMMA ReloadIInv ==
  ASSUME IInv, Reload
  PROVE  IInv'
<1>1. TypeInv'
  BY ZeroIsKey, BreakerAssumption DEF IInv, TypeInv, Reload
<1>2. BreakerIsEarliestExpiry'
  BY ZeroIsKey DEF Reload, BreakerIsEarliestExpiry, AllCooling
<1>3. LockoutOnlyWithoutKeys'
  BY BreakerAssumption DEF IInv, TypeInv, Reload, LockoutOnlyWithoutKeys
<1>4. QED
  BY <1>1, <1>2, <1>3 DEF IInv

LEMMA NextIInv == IInv /\ [Next]_vars => IInv'
<1> SUFFICES ASSUME IInv, [Next]_vars PROVE IInv'
  OBVIOUS
<1>1. CASE Reload
  BY <1>1, ReloadIInv
<1>2. CASE Tick
  BY <1>2, TickIInv
<1>3. ASSUME NEW t \in Jobs, Begin(t) PROVE IInv'
  <2>1. TypeInv'
    BY <1>3, BreakerAssumption DEF Begin, IInv, TypeInv, Phases
  <2>2. QED
    BY <1>3, <2>1, QuietIInv DEF Begin
<1>4. ASSUME NEW t \in Jobs, Enter(t) PROVE IInv'
  <2>1. TypeInv'
    <3>1. 0 \in 0..NumKeys
      BY BreakerAssumption
    <3>2. /\ cool \in [Keys -> Nat] /\ breaker \in Nat /\ current \in Keys
          /\ TypeInv /\ Turn(t, 0, cool, breaker, current)
      BY <1>4 DEF Enter, IInv, TypeInv
    <3>3. QED
      BY <1>4, <3>1, <3>2, TurnType DEF Enter, TypeInv
  <2>2. QED
    BY <1>4, <2>1, QuietIInv DEF Enter
<1>5. ASSUME NEW t \in Jobs, Finish(t) \/ Abandon(t) PROVE IInv'
  <2>1. TypeInv'
    BY <1>5, ZeroIsKey, BreakerAssumption
       DEF Finish, Abandon, Leave, IInv, TypeInv, Phases
  <2>2. QED
    BY <1>5, <2>1, QuietIInv DEF Finish, Abandon
<1>6. ASSUME NEW t \in Jobs, Transient(t) \/ Retry(t) PROVE IInv'
  <2>1. TypeInv'
    BY <1>6 DEF Transient, Retry, IInv, TypeInv, Phases
  <2>2. QED
    BY <1>6, <2>1, QuietIInv DEF Transient, Retry
<1>7. ASSUME NEW t \in Jobs, KeyError(t) \/ RetryError(t) PROVE IInv'
  BY <1>7, FailKeyIInv DEF KeyError, RetryError, Delays
<1>8. CASE UNCHANGED vars
  <2>1. TypeInv'
    BY <1>8 DEF vars, IInv, TypeInv
  <2>2. QED
    BY <1>8, <2>1, QuietIInv DEF vars
<1>9. QED
  BY <1>1, <1>2, <1>3, <1>4, <1>5, <1>6, <1>7, <1>8 DEF Next, Step

LEMMA IInvAlways == Spec => []IInv
BY InitIInv, NextIInv, PTL DEF Spec

-----------------------------------------------------------------------------
\* A nonempty finite set of natural numbers has a greatest element: a smallest
\* one without would, but for one element, have one.
LEMMA GreatestElement ==
  ASSUME NEW S \in SUBSET Nat, IsFiniteSet(S), S # {}
  PROVE  \E m \in S : \A n \in S : n <= m
<1> DEFINE Topless(T) == T # {} /\ ~\E m \in T : \A n \in T : n <= m
           Sizes == {Cardinality(T) : T \in {U \in SUBSET S : Topless(U)}}
<1> SUFFICES ASSUME Topless(S) PROVE FALSE
  OBVIOUS
<1>1. \A T \in SUBSET S : IsFiniteSet(T) /\ Cardinality(T) \in Nat
  BY FS_Subset, FS_CardinalityType
<1>2. Sizes \in SUBSET Nat /\ Sizes # {}
  BY <1>1
<1>3. PICK c \in Sizes : \A d \in Sizes : c <= d
  BY <1>2, LeastElement
<1>4. PICK T \in SUBSET S : Topless(T) /\ Cardinality(T) = c
  BY <1>3
<1>5. PICK x \in T : TRUE
  BY <1>4
<1>6. T \ {x} \in SUBSET S /\ Cardinality(T \ {x}) = c - 1
  BY <1>1, <1>4, <1>5, FS_RemoveElement
<1>7. c \in Nat
  BY <1>2, <1>3
<1>8. ~Topless(T \ {x})
  <2>1. Topless(T \ {x}) => c <= c - 1
    BY <1>3, <1>6
  <2>2. ~(c <= c - 1)
    BY <1>7
  <2> QED
    BY <2>1, <2>2
<1>9. CASE T \ {x} = {}
  <2>1. \A n \in T : n <= x
    BY <1>5, <1>9
  <2> QED
    BY <1>4, <1>5, <2>1
<1>10. CASE T \ {x} # {}
  <2>1. PICK m \in T \ {x} : \A n \in T \ {x} : n <= m
    BY <1>8, <1>10
  <2>2. x \in Nat /\ m \in Nat /\ T \subseteq Nat
    BY <1>5, <2>1
  <2>3. (\A n \in T : n <= m) \/ (\A n \in T : n <= x)
    BY <2>1, <2>2
  <2> QED
    BY <1>4, <1>5, <2>1, <2>3
<1> QED
  BY <1>9, <1>10

LEMMA MaxDelayBounds == MaxDelay \in Nat /\ \A d \in Delays : d \in 0..MaxDelay
<1>1. Delays \in SUBSET Nat /\ Delays # {}
  BY BreakerAssumption DEF Delays
<1>2. IsFiniteSet(Delays)
  <2>1. IsFiniteSet(QuotaDelays \cup {TransientDelay})
    BY BreakerAssumption, FS_AddElement
  <2>2. IsFiniteSet((QuotaDelays \cup {TransientDelay}) \cup {UnexpectedDelay})
    BY <2>1, FS_AddElement
  <2>3. Delays = (QuotaDelays \cup {TransientDelay}) \cup {UnexpectedDelay}
    BY DEF Delays
  <2> QED
    BY <2>2, <2>3
<1>3. \E m \in Delays : \A d \in Delays : d <= m
  BY <1>1, <1>2, GreatestElement
<1>4. MaxDelay \in Delays /\ \A d \in Delays : d <= MaxDelay
  BY <1>3 DEF MaxDelay
<1> QED
  BY <1>1, <1>4

\* No cooldown, and no breaker, is longer than the longest delay.
WithinDelays == cool \in [Keys -> 0..MaxDelay] /\ breaker \in 0..MaxDelay

LEMMA DelaysInvariance == IInv /\ IInv' /\ WithinDelays /\ [Next]_vars => WithinDelays'
<1> SUFFICES ASSUME IInv, IInv', WithinDelays, [Next]_vars PROVE WithinDelays'
  OBVIOUS
<1>1. CASE UNCHANGED <<cool, breaker>>
  BY <1>1 DEF WithinDelays
<1>2. CASE Reload
  BY <1>2, MaxDelayBounds DEF Reload, WithinDelays
<1>3. CASE Tick
  BY <1>3, MaxDelayBounds DEF Tick, Before, WithinDelays
<1>4. ASSUME NEW t \in Jobs, NEW d \in Delays, FailKey(t, d)
      PROVE  WithinDelays'
  <2>1. cool' = [cool EXCEPT ![slot[t]] = d] /\ (~AllCooling(cool') => breaker' = breaker)
    BY <1>4 DEF FailKey, MarkCooldown
  <2>2. cool' \in [Keys -> 0..MaxDelay]
    BY <2>1, MaxDelayBounds DEF WithinDelays
  <2>3. AllCooling(cool') => \E k \in Keys : cool'[k] = breaker'
    BY DEF IInv, BreakerIsEarliestExpiry
  <2> QED
    BY <2>1, <2>2, <2>3 DEF WithinDelays
<1>5. CASE \E t \in Jobs : KeyError(t) \/ RetryError(t)
  BY <1>4, <1>5 DEF KeyError, RetryError, Delays
<1> QED
  BY <1>1, <1>2, <1>3, <1>5
  DEF Next, Step, Begin, Enter, Finish, Transient, Retry, Abandon, vars

\* Every variable keeps its type: a cooldown never exceeds the longest delay.
THEOREM TypeCorrect == Spec => []TypeOK
<1>1. Init => WithinDelays
  BY MaxDelayBounds DEF Init, WithinDelays
<1>2. IInv /\ WithinDelays => TypeOK
  BY DEF IInv, TypeInv, WithinDelays, TypeOK
<1> QED
  BY IInvAlways, DelaysInvariance, <1>1, <1>2, PTL DEF Spec

\* When all keys cool down the breaker is open exactly until the first is ready.
THEOREM BreakerCoversKeys == Spec => []BreakerIsEarliestExpiry
<1>1. IInv => BreakerIsEarliestExpiry
  BY DEF IInv
<1>2. QED
  BY <1>1, IInvAlways, PTL

\* Without a reload and with positive retry delays, the breaker never rejects
\* a call while a key is ready.
THEOREM NoNeedlessLockout == Spec => []LockoutOnlyWithoutKeys
<1>1. IInv => LockoutOnlyWithoutKeys
  BY DEF IInv
<1>2. QED
  BY <1>1, IInvAlways, PTL

\* A newly chosen key is ready and the breaker closed when the attempt starts.
THEOREM AttemptsOnReadyKeys == Spec => FreshAttemptOnReadyKey
<1> DEFINE Fresh ==
      \A t \in Jobs :
        phase'[t] = "calling" /\ (phase[t] # "calling" \/ tried'[t] # tried[t])
          => cool'[slot'[t]] = 0 /\ ~Degraded'
<1>1. ASSUME IInv, NEW t \in Jobs, NEW u \in Jobs, NEW n, NEW c \in [Keys -> Nat],
             NEW b \in Nat, NEW i \in Keys, Turn(t, n, c, b, i), cool' = c,
             breaker' = b, phase'[u] = "calling",
             phase[u] # "calling" \/ tried'[u] # tried[u]
      PROVE  cool'[slot'[u]] = 0 /\ ~Degraded'
  <2>1. ~Leave(t)
    BY <1>1 DEF Leave, IInv, TypeInv
  <2>2. /\ u = t /\ b = 0 /\ ~AllCooling(c)
        /\ slot'[u] = NextReady(i, c)
    BY <1>1, <2>1 DEF Turn, IInv, TypeInv
  <2>3. QED
    BY <1>1, <2>2, NextReadyIsReady DEF Degraded
<1>2. IInv /\ [Next]_vars => [Fresh]_vars
  <2> SUFFICES ASSUME IInv, [Next]_vars, NEW u \in Jobs, phase'[u] = "calling",
                      phase[u] # "calling" \/ tried'[u] # tried[u]
               PROVE  cool'[slot'[u]] = 0 /\ ~Degraded'
    OBVIOUS
  <2>1. ASSUME NEW t \in Jobs, Enter(t) PROVE cool'[slot'[u]] = 0 /\ ~Degraded'
    BY <1>1, <2>1 DEF Enter, IInv, TypeInv
  <2>2. ASSUME NEW t \in Jobs, NEW d \in Delays, FailKey(t, d)
        PROVE  cool'[slot'[u]] = 0 /\ ~Degraded'
    <3>1. /\ cool' \in [Keys -> Nat] /\ breaker' \in Nat
          /\ (current + 1) % NumKeys \in Keys
      <4>1. slot[t] \in Keys /\ d \in Nat
        BY BreakerAssumption DEF IInv, TypeInv, Delays
      <4>2. current + 1 \in Int
        BY BreakerAssumption DEF IInv, TypeInv, Keys
      <4>3. QED
        BY <2>2, <4>1, <4>2, MarkCooldownIInv, ModKeys DEF FailKey
    <3>2. QED
      BY <1>1, <2>2, <3>1 DEF FailKey
  <2>3. ASSUME NEW t \in Jobs, Begin(t) \/ Finish(t) \/ Abandon(t) \/ Transient(t)
                               \/ Retry(t)
        PROVE  FALSE
    BY <2>3 DEF Begin, Finish, Abandon, Transient, Retry, Leave, IInv, TypeInv
  <2>4. CASE UNCHANGED <<phase, tried>>
    BY <2>4
  <2>5. QED
    BY <2>1, <2>2, <2>3, <2>4
       DEF Next, Step, KeyError, RetryError, Delays, Reload, Tick, vars
<1>3. QED
  BY <1>2, IInvAlways, PTL DEF Spec, FreshAttemptOnReadyKey

-----------------------------------------------------------------------------
(* Why a call ends: what holds without fairness of CallEnds.               *)

\* How many awaits a call may still have before it: three for every key it
\* has not tried (the call, the pause, the second call), and the semaphore.
Effort(t) ==
  IF phase[t] = "idle" THEN 0
  ELSE IF phase[t] = "queued" THEN 3 * NumKeys + 1
  ELSE 3 * (NumKeys - tried[t])
         - [calling |-> 0, sleeping |-> 1, retrying |-> 2][phase[t]]

Winds(t) ==
  /\ Effort(t) \in 0..(3 * NumKeys + 1)
  /\ Step(t) \/ Abandon(t) => Effort(t)' < Effort(t)
  /\ phase[t] # "idle" => Effort(t)' <= Effort(t)

\* Each step of a call leaves it less to do, and no other call, reload or
\* passing second gives it more: a call has at most 3 * NumKeys + 1 steps.
CallsWindDown == [][\A t \in Jobs : Winds(t)]_vars

LEMMA EffortRange ==
  ASSUME TypeInv, NEW t \in Jobs
  PROVE  /\ Effort(t) \in 0..(3 * NumKeys + 1)
         /\ phase[t] # "idle" => Effort(t) > 0
BY BreakerAssumption DEF TypeInv, Effort, Phases

\* A turn of the loop after n keys leaves the call less than n keys' worth.
LEMMA TurnEffort ==
  ASSUME TypeInv, NEW t \in Jobs, NEW n \in 0..NumKeys, NEW c, NEW b, NEW i,
         Turn(t, n, c, b, i)
  PROVE  Effort(t)' <= 3 * (NumKeys - n)
BY BreakerAssumption DEF TypeInv, Effort, Turn, Leave

LEMMA NextWinds ==
  ASSUME TypeInv, TypeInv', Next, NEW t \in Jobs
  PROVE  Winds(t)
<1> USE BreakerAssumption
<1>0. Effort(t)' \in Int
  BY DEF TypeInv, Effort, Phases
<1>1. Effort(t) \in 0..(3 * NumKeys + 1) /\ (phase[t] # "idle" => Effort(t) > 0)
  BY EffortRange
<1>2. ASSUME Finish(t) \/ Abandon(t)  PROVE Effort(t)' < Effort(t)
  <2>1. Effort(t)' = 0
    BY <1>2 DEF Finish, Abandon, Leave, TypeInv, Effort
  <2>2. QED
    BY <1>1, <1>2, <2>1 DEF Finish, Abandon
<1>3. ASSUME Enter(t)  PROVE Effort(t)' < Effort(t)
  <2>1. Effort(t)' <= 3 * (NumKeys - 0)
    BY <1>3, TurnEffort DEF Enter
  <2>2. Effort(t) = 3 * NumKeys + 1 /\ Effort(t)' \in Int
    BY <1>3 DEF Enter, Turn, Leave, TypeInv, Effort
  <2>3. QED
    BY <2>1, <2>2
<1>4. ASSUME Transient(t) \/ Retry(t)  PROVE Effort(t)' < Effort(t)
  BY <1>4 DEF Transient, Retry, TypeInv, Effort
<1>5. ASSUME KeyError(t) \/ RetryError(t)  PROVE Effort(t)' < Effort(t)
  <2>1. PICK d : FailKey(t, d)
    BY <1>5 DEF KeyError, RetryError
  <2>2. tried[t] \in Int /\ tried[t] + 1 \in 0..NumKeys
    BY DEF TypeInv
  <2>3. Effort(t)' <= 3 * (NumKeys - (tried[t] + 1))
    BY <2>1, <2>2, TurnEffort DEF FailKey
  <2>4. Effort(t) >= 3 * (NumKeys - tried[t]) - 2 /\ Effort(t)' \in Int
    BY <1>5, <2>1, <2>2 DEF KeyError, RetryError, FailKey, Turn, Leave, TypeInv,
       Effort
  <2>5. QED
    BY <1>1, <2>2, <2>3, <2>4
<1>6. CASE Step(t) \/ Abandon(t)
  <2>1. Effort(t)' < Effort(t)
    BY <1>2, <1>3, <1>4, <1>5, <1>6 DEF Step
  <2>2. QED
    BY <1>0, <1>1, <2>1 DEF Winds
<1>7. CASE ~(Step(t) \/ Abandon(t))
  <2>1. phase[t] = "idle" \/ UNCHANGED <<phase[t], tried[t]>>
    BY <1>7 DEF Next, Step, Reload, Tick, Begin, Enter, Finish, KeyError, Transient,
       Retry, RetryError, Abandon, FailKey, Turn, Leave, TypeInv
  <2>2. phase[t] # "idle" => Effort(t)' = Effort(t)
    BY <2>1 DEF Effort
  <2>3. QED
    BY <1>1, <1>7, <2>2 DEF Winds
<1>8. QED
  BY <1>6, <1>7

\* The safety half of CallEnds: no key that fails, comes back or is reloaded
\* under a call lets it start again; its work only gets less.
THEOREM CallsOnlyWindDown == Spec => CallsWindDown
<1>1. IInv /\ [Next]_vars => [\A t \in Jobs : Winds(t)]_vars
  BY NextWinds, NextIInv DEF IInv
<1>2. QED
  BY <1>1, IInvAlways, PTL DEF Spec, CallsWindDown

=============================================================================
