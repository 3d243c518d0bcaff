--------------------------- MODULE Submission_proofs ---------------------------
(***************************************************************************)
(* Proofs about Submission for any finite set of requests, any limit and   *)
(* any number of threads.                                                  *)
(*                                                                         *)
(* A request that passes the check is one of at most Threads busy ones and *)
(* sees a count below the limit, so the count and those still to be        *)
(* counted exceed it by at most the other threads.  A request that goes on *)
(* after its lookup had seen no finished job of this day, and the jobs it  *)
(* saw can only grow older.                                                *)
(***************************************************************************)
EXTENDS Submission, TLAPS, FiniteSetTheorems

\* What a request that goes on past its lookup has seen.
SawNothingFresh ==
  \A r \in Lookups : phase[r] \in {"check", "incr", "expire", "commit", "accepted"} =>
    seen[r] \cap fresh = {}

RowsCommitted ==
  /\ \A r \in Requests : job[r] # "none" => phase[r] = "accepted"
  /\ \A r \in Requests : \A s \in seen[r] : job[s] # "none"
  /\ \A r \in Requests : phase[r] \in {"new", "lookup"} => seen[r] = {}

IInv ==
  /\ TypeOK
  /\ Cardinality(Busy) <= Threads
  /\ ExcessWithinThreads
  /\ RowsCommitted
  /\ SawNothingFresh

LEMMA Sizes ==
  /\ IsFiniteSet(Requests)
  /\ \A S \in SUBSET Requests : IsFiniteSet(S) /\ Cardinality(S) \in Nat
  /\ \A S, T \in SUBSET Requests : S \subseteq T => Cardinality(S) <= Cardinality(T)
  /\ \A S \in SUBSET Requests, r \in Requests :
       /\ Cardinality(S \cup {r}) <= Cardinality(S) + 1
       /\ r \in S => Cardinality(S \ {r}) = Cardinality(S) - 1
<1>1. IsFiniteSet(Requests)
  BY RequestAssumption
<1>2. \A S \in SUBSET Requests : IsFiniteSet(S) /\ Cardinality(S) \in Nat
  BY <1>1, FS_Subset, FS_CardinalityType
<1>3. \A S, T \in SUBSET Requests : S \subseteq T => Cardinality(S) <= Cardinality(T)
  BY <1>2, FS_Subset
<1>4. ASSUME NEW S \in SUBSET Requests, NEW r \in Requests
      PROVE  /\ Cardinality(S \cup {r}) <= Cardinality(S) + 1
             /\ r \in S => Cardinality(S \ {r}) = Cardinality(S) - 1
  BY <1>2, FS_AddElement, FS_RemoveElement
<1> QED BY <1>1, <1>2, <1>3, <1>4

LEMMA InitIInv == Init => IInv
<1> SUFFICES ASSUME Init PROVE IInv
  OBVIOUS
<1>1. TypeOK
  BY DEF Init, TypeOK, Active
<1>2. Busy = {} /\ Saving = {}
  BY DEF Init, Busy, Saving, Active
<1>3. Cardinality({}) = 0
  BY FS_EmptySet
<1>4. Cardinality(Busy) <= Threads /\ ExcessWithinThreads
  BY <1>2, <1>3, LimitAssumption DEF Init, ExcessWithinThreads
<1>5. RowsCommitted /\ SawNothingFresh
  BY DEF Init, RowsCommitted, SawNothingFresh
<1> QED BY <1>1, <1>4, <1>5 DEF IInv

LEMMA NextTypes == ASSUME TypeOK, [Next]_vars PROVE TypeOK'
<1> USE DEF TypeOK, Active, Goto, redis, rows
<1>1. ASSUME NEW r \in Requests, Arrive(r) PROVE TypeOK'
  BY <1>1 DEF Arrive
<1>2. ASSUME NEW r \in Requests, Lookup(r) PROVE TypeOK'
  BY <1>2 DEF Lookup, Finished
<1>3. ASSUME NEW r \in Requests, Check(r) \/ Incr(r) \/ Expire(r) \/ Commit(r)
      PROVE  TypeOK'
  <2>1. \E p \in {"limited", "incr", "expire", "commit", "accepted"} :
          phase' = [phase EXCEPT ![r] = p]
    BY <1>3 DEF Check, Incr, Expire, Commit
  <2>2. count' \in Nat /\ expires' \in BOOLEAN
    <3>1. count' \in Nat
      BY <1>3 DEF Check, Incr, Expire, Commit
    <3>2. expires' \in BOOLEAN
      BY <1>3 DEF Check, Incr, Expire, Commit
    <3> QED BY <3>1, <3>2
  <2>3. /\ job' \in [Requests -> {"none", "PENDING", "COMPLETE", "FAILED"}]
        /\ fresh' \subseteq Requests /\ seen' = seen
    BY <1>3 DEF Check, Incr, Expire, Commit
  <2> QED BY <2>1, <2>2, <2>3
<1>4. ASSUME NEW r \in Requests, Break(r) PROVE TypeOK'
  <2>1. \E p \in {"broken", "brokeCounting"} : phase' = [phase EXCEPT ![r] = p]
    BY <1>4 DEF Break
  <2>2. count' \in Nat /\ expires' \in BOOLEAN
    <3>1. count' \in Nat
      BY <1>4 DEF Break
    <3>2. expires' \in BOOLEAN
      BY <1>4 DEF Break
    <3> QED BY <3>1, <3>2
  <2> QED BY <1>4, <2>1, <2>2 DEF Break
<1>5. ASSUME NEW r \in Requests, Runs(r) \/ DayPasses(r) PROVE TypeOK'
  BY <1>5 DEF Runs, DayPasses
<1>6. CASE HourPasses
  BY <1>6 DEF HourPasses
<1>7. CASE UNCHANGED vars
  BY <1>7 DEF vars
<1> QED BY <1>1, <1>2, <1>3, <1>4, <1>5, <1>6, <1>7 DEF Next, Handle

LEMMA NextExcess ==
  ASSUME IInv, [Next]_vars
  PROVE  Cardinality(Busy)' <= Threads /\ ExcessWithinThreads'
<1>a. /\ Busy \in SUBSET Requests /\ Saving \in SUBSET Busy
      /\ Cardinality(Busy) \in Nat /\ Cardinality(Saving) \in Nat
      /\ Cardinality(Saving) <= Cardinality(Busy)
  BY Sizes DEF Busy, Saving, Active
<1>b. count \in Nat /\ MaxJobs \in Nat \ {0} /\ Threads \in Nat \ {0}
      /\ count + Cardinality(Saving) <= MaxJobs + Threads - 1
      /\ Cardinality(Busy) <= Threads
  BY LimitAssumption DEF IInv, TypeOK, ExcessWithinThreads, Active
<1>c. DOMAIN phase = Requests /\ phase = [r \in Requests |-> phase[r]]
  BY DEF IInv, TypeOK
<1>d. \A S \in SUBSET Requests : Cardinality(S) \in Nat
  BY Sizes
\* No more busy and no more saving ones than before.
<1>e. ASSUME Busy' \subseteq Busy, Saving' \subseteq Saving, count' \in Nat, count' <= count
      PROVE  Cardinality(Busy)' <= Threads /\ ExcessWithinThreads'
  <2>1. Cardinality(Busy') <= Cardinality(Busy) /\ Cardinality(Busy') \in Nat
    BY <1>a, <1>e, Sizes
  <2>2. Cardinality(Saving') <= Cardinality(Saving) /\ Cardinality(Saving') \in Nat
    BY <1>a, <1>e, Sizes
  <2> QED BY <1>a, <1>b, <1>e, <2>1, <2>2 DEF ExcessWithinThreads
\* A saved job is counted, or is not.
<1>f. ASSUME NEW r \in Requests, r \in Saving, Busy' \subseteq Busy,
             Saving' = Saving \ {r}, count' \in {count, count + 1}
      PROVE  Cardinality(Busy)' <= Threads /\ ExcessWithinThreads'
  <2>1. Cardinality(Busy') <= Cardinality(Busy) /\ Cardinality(Busy') \in Nat
    BY <1>a, <1>f, Sizes
  <2>2. Cardinality(Saving') = Cardinality(Saving) - 1
    BY <1>a, <1>f, Sizes
  <2> QED BY <1>a, <1>b, <1>f, <2>1, <2>2 DEF ExcessWithinThreads
<1>1. ASSUME NEW r \in Requests, Arrive(r)
      PROVE  Cardinality(Busy)' <= Threads /\ ExcessWithinThreads'
  <2>1. Busy' \subseteq Busy \cup {r} /\ Saving' = Saving /\ count' = count
    BY <1>1, <1>c DEF Arrive, Goto, Busy, Saving, Active, redis
  <2>2. Cardinality(Busy') <= Cardinality(Busy \cup {r})
    BY <1>a, <2>1, Sizes
  <2>3. Cardinality(Busy \cup {r}) <= Cardinality(Busy) + 1
    BY <1>a, Sizes
  <2>4. Cardinality(Busy) < Threads /\ Cardinality(Busy') \in Nat
        /\ Cardinality(Busy \cup {r}) \in Nat
    BY <1>1, <1>a, <1>d, <2>1 DEF Arrive
  <2> QED BY <1>a, <1>b, <2>1, <2>2, <2>3, <2>4 DEF ExcessWithinThreads
<1>2. ASSUME NEW r \in Requests, Lookup(r)
      PROVE  Cardinality(Busy)' <= Threads /\ ExcessWithinThreads'
  <2>1. Busy' \subseteq Busy /\ Saving' \subseteq Saving /\ count' = count
    BY <1>2, <1>c DEF Lookup, Goto, Busy, Saving, Active, redis
  <2> QED BY <1>b, <1>e, <2>1
<1>3. ASSUME NEW r \in Requests, Check(r)
      PROVE  Cardinality(Busy)' <= Threads /\ ExcessWithinThreads'
  <2>1. CASE count >= MaxJobs
    <3>1. Busy' \subseteq Busy /\ Saving' \subseteq Saving /\ count' = count
      BY <1>3, <2>1, <1>c DEF Check, Goto, Busy, Saving, Active, redis
    <3> QED BY <1>b, <1>e, <3>1
  <2>2. CASE ~(count >= MaxJobs)
    <3>1. Busy' = Busy /\ Saving' \subseteq Busy /\ count' = count
      BY <1>3, <2>2, <1>c DEF Check, Goto, Busy, Saving, Active, redis
    <3>2. Cardinality(Saving') <= Cardinality(Busy) /\ Cardinality(Saving') \in Nat
      BY <1>a, <3>1, Sizes
    <3> QED BY <1>a, <1>b, <2>2, <3>1, <3>2 DEF ExcessWithinThreads
  <2> QED BY <2>1, <2>2
<1>4. ASSUME NEW r \in Requests, Incr(r)
      PROVE  Cardinality(Busy)' <= Threads /\ ExcessWithinThreads'
  <2>1. r \in Saving /\ Saving' = Saving \ {r} /\ Busy' \subseteq Busy
    BY <1>4, <1>c DEF Incr, Goto, Busy, Saving, Active
  <2> QED BY <1>4, <1>f, <2>1 DEF Incr
<1>5. ASSUME NEW r \in Requests, Expire(r) \/ Commit(r)
      PROVE  Cardinality(Busy)' <= Threads /\ ExcessWithinThreads'
  <2>1. Busy' \subseteq Busy /\ Saving' \subseteq Saving /\ count' = count
    BY <1>5, <1>c DEF Expire, Commit, Goto, Busy, Saving, Active, redis
  <2> QED BY <1>b, <1>e, <2>1
<1>6. ASSUME NEW r \in Requests, Break(r)
      PROVE  Cardinality(Busy)' <= Threads /\ ExcessWithinThreads'
  <2>0. /\ \A q \in Requests \ {r} : phase'[q] = phase[q]
        /\ phase'[r] \in {"broken", "brokeCounting"}
    BY <1>6, <1>c DEF Break, Goto
  <2>1. Busy' \subseteq Busy /\ Saving' = Saving \ {r}
    BY <2>0 DEF Busy, Saving, Active
  <2>2. count' = count \/ (r \in Saving /\ count' = count + 1)
    BY <1>6 DEF Break, redis, Saving
  <2>3. CASE r \in Saving
    BY <1>f, <2>1, <2>2, <2>3
  <2>4. CASE r \notin Saving
    BY <1>b, <1>e, <2>1, <2>2, <2>4
  <2> QED BY <2>3, <2>4
<1>7. CASE HourPasses
  <2>1. Busy' = Busy /\ Saving' = Saving /\ count' = 0
    BY <1>7 DEF HourPasses, Busy, Saving
  <2> QED BY <1>b, <1>e, <2>1
<1>8. CASE UNCHANGED <<phase, count>>
  <2>1. Busy' = Busy /\ Saving' = Saving /\ count' = count
    BY <1>8 DEF Busy, Saving
  <2> QED BY <1>b, <1>e, <2>1
<1> QED
  BY <1>1, <1>2, <1>3, <1>4, <1>5, <1>6, <1>7, <1>8
     DEF Next, Handle, Runs, DayPasses, vars, redis

LEMMA NextRows ==
  ASSUME IInv, [Next]_vars
  PROVE  RowsCommitted' /\ SawNothingFresh'
<1> USE DEF IInv, TypeOK, RowsCommitted, SawNothingFresh, Goto, redis, rows
<1>0. Urls \subseteq Requests /\ Lookups \subseteq Urls
  BY RequestAssumption
<1>1. ASSUME NEW r \in Requests, Arrive(r) PROVE RowsCommitted' /\ SawNothingFresh'
  BY <1>0, <1>1 DEF Arrive
<1>2. ASSUME NEW r \in Requests, Lookup(r) PROVE RowsCommitted' /\ SawNothingFresh'
  BY <1>0, <1>2 DEF Lookup, Finished, Found
<1>3. ASSUME NEW r \in Requests, Check(r) \/ Incr(r) \/ Expire(r) \/ Break(r)
      PROVE  RowsCommitted' /\ SawNothingFresh'
  BY <1>0, <1>3 DEF Check, Incr, Expire, Break, Active
<1>4. ASSUME NEW r \in Requests, Commit(r) PROVE RowsCommitted' /\ SawNothingFresh'
  BY <1>0, <1>4 DEF Commit
<1>5. ASSUME NEW r \in Requests, Runs(r) \/ DayPasses(r)
      PROVE  RowsCommitted' /\ SawNothingFresh'
  BY <1>0, <1>5 DEF Runs, DayPasses
<1>6. CASE HourPasses \/ UNCHANGED vars
  BY <1>6 DEF HourPasses, vars
<1> QED BY <1>1, <1>2, <1>3, <1>4, <1>5, <1>6 DEF Next, Handle

LEMMA Invariance == Spec => []IInv
<1>1. IInv /\ [Next]_vars => IInv'
  BY NextTypes, NextExcess, NextRows DEF IInv
<1> QED BY <1>1, InitIInv, PTL DEF Spec

\* The counter, the rows and the phases of all requests have their types.
THEOREM TypeCorrect == Spec => []TypeOK
BY Invariance, PTL DEF IInv

\* For any limit and any number of requests and threads: the requests counted or
\* sure to be counted exceed the hourly limit by less than the number of threads.
THEOREM ExcessBounded == Spec => []ExcessWithinThreads
BY Invariance, PTL DEF IInv

\* For any requests that carry the URL, of either type: a request of type url that
\* saw a finished job of the last day makes no second one.
THEOREM NoLookupAddsDuplicate == Spec => []LookupsAddNoDuplicate
<1>1. IInv => LookupsAddNoDuplicate
  BY RequestAssumption
     DEF IInv, TypeOK, RowsCommitted, SawNothingFresh, LookupsAddNoDuplicate, Finished
<1> QED BY <1>1, Invariance, PTL
-------------------------------------------------------------------------------
(* Why a lockout ends: what holds without fairness of LockoutEnds.             *)

\* The counter has an expiry, or the one request that created it is about to set
\* it, or was cut off on the way.  EXPIRE always finds the counter it is meant for.
CounterExpires ==
  /\ expires => count > 0
  /\ \A r \in Requests : phase[r] = "expire" =>
       /\ count > 0 /\ ~expires
       /\ \A s \in Requests : phase[s] = "expire" => s = r
  /\ count > 0 /\ ~expires => \E r \in Requests : phase[r] \in {"expire", "brokeCounting"}

LEMMA NextExpiry == ASSUME TypeOK, CounterExpires, [Next]_vars PROVE CounterExpires'
<1> USE DEF TypeOK, CounterExpires, Goto, redis, rows
<1>1. ASSUME NEW r \in Requests, Incr(r) PROVE CounterExpires'
  BY <1>1 DEF Incr
<1>2. ASSUME NEW r \in Requests, Expire(r) PROVE CounterExpires'
  BY <1>2 DEF Expire
<1>3. ASSUME NEW r \in Requests, Break(r) PROVE CounterExpires'
  <2>1. CASE UNCHANGED redis
    BY <1>3, <2>1 DEF Break, Active
  <2>2. CASE phase[r] = "incr" /\ count' = count + 1 /\ UNCHANGED expires
    BY <1>3, <2>2 DEF Break
  <2>3. CASE phase[r] = "expire" /\ expires' = TRUE /\ UNCHANGED count
    BY <1>3, <2>3 DEF Break
  <2> QED BY <1>3, <2>1, <2>2, <2>3 DEF Break
<1>4. ASSUME NEW r \in Requests, Arrive(r) \/ Lookup(r) \/ Check(r) \/ Commit(r)
      PROVE  CounterExpires'
  <2>1. /\ UNCHANGED <<count, expires>>
        /\ phase[r] \notin {"expire", "brokeCounting"}
        /\ \E p \in Active \cup {"cached", "ambiguous", "limited", "accepted"} :
             p # "expire" /\ phase' = [phase EXCEPT ![r] = p]
    BY <1>4 DEF Arrive, Lookup, Check, Commit, Active
  <2> QED BY <2>1
<1>5. CASE HourPasses
  BY <1>5 DEF HourPasses
<1>6. CASE UNCHANGED <<phase, count, expires>>
  BY <1>6
<1> QED
  BY <1>1, <1>2, <1>3, <1>4, <1>5, <1>6 DEF Next, Handle, Runs, DayPasses, vars

\* The safety half of LockoutEnds: a counter never outlives its hour unless a
\* request broke off between INCR and EXPIRE, however requests interleave.
THEOREM CounterIsTemporary == Spec => []CounterExpires
<1>1. Init => CounterExpires
  BY DEF Init, CounterExpires
<1> QED BY <1>1, NextExpiry, TypeCorrect, PTL DEF Spec
===============================================================================
