--------------------------- MODULE SourcePool_proofs ---------------------------
(***************************************************************************)
(* Proofs about SourcePool for any set of jobs and queries and for any     *)
(* results of the engines.                                                 *)
(*                                                                         *)
(* A search sends at most one request, since it never comes back to the    *)
(* quota flag, and slots beyond the budget are not used.  The searches     *)
(* within the budget have ended when the one in slot 0 begins, so what it  *)
(* was decided by stays what they found.                                   *)
(***************************************************************************)
EXTENDS SourcePool, TLAPS

Record == [phase : Phases, query : Queries \cup {NoQuery}, hits : Nat, sent : Nat]

\* What a search has sent, by its phase.
SearchOK(j, i) ==
  /\ call[j][i].sent <= 1
  /\ call[j][i].phase \in {"cache", "flag"} => call[j][i].sent = 0
  /\ call[j][i].phase = "unused" => call[j][i].hits = 0
  /\ call[j][i].phase = "unused" /\ stage[j] # "timedout" => call[j][i].sent = 0
  /\ ~Ended(j, i) => call[j][i].query \in Queries
  /\ i > Budget[j] => call[j][i].phase = "unused" /\ call[j][i].sent = 0

PoolOK(j) ==
  /\ \A i \in Slots : SearchOK(j, i)
  /\ stage[j] = "idle" => \A i \in Slots : call[j][i].phase = "unused"
  /\ stage[j] = "searching" => call[j][Extra].phase = "unused"
  /\ stage[j] = "extra" => Ended(j, 1) /\ Ended(j, 2) /\ Ended(j, 3) /\ Found(j) < Thin
  /\ call[j][Extra].sent > 0 => Found(j) < Thin
  /\ stage[j] = "done" /\ given[j] = 0 => Pooled(j) = 0

IInv == TypeOK /\ \A j \in Jobs : PoolOK(j)

\* A record of searches has the type of one.
LEMMA RecordTypes ==
  ASSUME TypeOK, NEW j \in Jobs, NEW i \in Slots
  PROVE  /\ call[j][i] \in Record /\ call[j][i].hits \in Nat /\ call[j][i].sent \in Nat
         /\ call[j][i].query \in Queries \cup {NoQuery} /\ call[j][i].phase \in Phases
BY DEF TypeOK, Record

\* What a step of a search makes of its record.
LEMMA CallStepShape ==
  ASSUME IInv, NEW j \in Jobs, NEW i \in Slots, CallStep(j, i)
  PROVE  /\ stage[j] \in {"searching", "extra"} /\ ~Ended(j, i)
         /\ UNCHANGED <<stage, given>>
         /\ cached' \in [Queries -> Nat] /\ exhausted' \in BOOLEAN
         /\ UNCHANGED <<up, outages>>
         /\ \E r \in Record : /\ call' = [call EXCEPT ![j][i] = r]
                              /\ r.phase \notin {"unused", "cache"} /\ r.sent <= 1
                              /\ r.phase = "flag" => r.sent = 0
                              /\ r.phase \in {"done", "raised"} \/ r.query = call[j][i].query
<1>a. call[j][i] \in Record /\ SearchOK(j, i)
  BY RecordTypes DEF IInv, PoolOK
<1>b. /\ cached \in [Queries -> Nat] /\ exhausted \in BOOLEAN /\ up \in BOOLEAN
      /\ call \in [Jobs -> [Slots -> Record]]
  BY DEF IInv, TypeOK, Record
<1>c. Results \subseteq Nat
  BY ResultsAssumption
<1> USE DEF In, Ended, Record, Phases, SearchOK, redis
\* A new phase is all that changes.
<1>d. ASSUME NEW p \in Phases \ {"unused", "cache"}, Goes(j, i, p),
             p = "flag" => call[j][i].sent = 0
      PROVE  \E r \in Record : /\ call' = [call EXCEPT ![j][i] = r]
                               /\ r.phase \notin {"unused", "cache"} /\ r.sent <= 1
                               /\ r.phase = "flag" => r.sent = 0
                               /\ r.phase \in {"done", "raised"} \/ r.query = call[j][i].query
  <2> DEFINE r == [call[j][i] EXCEPT !.phase = p]
  <2>1. call' = [call EXCEPT ![j][i] = r]
    BY <1>b, <1>d DEF Goes
  <2>2. r \in Record /\ r.phase = p /\ r.sent = call[j][i].sent
    BY <1>a
  <2> QED BY <2>1, <2>2, <1>a, <1>d
<1>e. ASSUME NEW p \in {"done", "raised"}, NEW n \in Nat, Ends(j, i, p, n)
      PROVE  \E r \in Record : /\ call' = [call EXCEPT ![j][i] = r]
                               /\ r.phase \notin {"unused", "cache"} /\ r.sent <= 1
                               /\ r.phase = "flag" => r.sent = 0
                               /\ r.phase \in {"done", "raised"} \/ r.query = call[j][i].query
  <2> DEFINE r == [phase |-> p, query |-> NoQuery, hits |-> n, sent |-> call[j][i].sent]
  <2>1. call' = [call EXCEPT ![j][i] = r]
    BY <1>b, <1>e DEF Ends
  <2>2. r \in Record /\ r.phase = p /\ r.sent = call[j][i].sent
    BY <1>a
  <2> QED BY <2>1, <2>2, <1>a
<1>f. ASSUME NEW n \in Nat, Answered(j, i, n)
      PROVE  \E r \in Record : /\ call' = [call EXCEPT ![j][i] = r]
                               /\ r.phase \notin {"unused", "cache"} /\ r.sent <= 1
                               /\ r.phase = "flag" => r.sent = 0
                               /\ r.phase \in {"done", "raised"} \/ r.query = call[j][i].query
  <2> DEFINE r == [call[j][i] EXCEPT !.phase = "store", !.hits = n]
  <2>1. call' = [call EXCEPT ![j][i] = r]
    BY <1>b, <1>f DEF Answered
  <2>2. r \in Record /\ r.phase = "store" /\ r.sent = call[j][i].sent
    BY <1>a
  <2> QED BY <2>1, <2>2, <1>a
<1>1. CASE ReadCache(j, i)
  <2>1. PICK n \in Nat : IF n # 0 THEN Ends(j, i, "done", n)
                         ELSE Goes(j, i, IF Configured THEN "flag" ELSE "ddg")
    <3>1. (IF up THEN cached[call[j][i].query] ELSE 0) \in Nat
      BY <1>1, <1>a, <1>b DEF ReadCache
    <3> QED BY <1>1, <3>1 DEF ReadCache
  <2>2. call[j][i].phase = "cache"
    BY <1>1 DEF ReadCache
  <2> QED BY <1>1, <1>a, <1>b, <1>d, <1>e, <2>1, <2>2 DEF ReadCache
<1>2. CASE ReadFlag(j, i)
  <2>1. CASE up /\ exhausted
    BY <1>2, <2>1, <1>b, <1>d DEF ReadFlag
  <2>2. CASE ~(up /\ exhausted)
    <3> DEFINE r == [phase |-> "serp", query |-> call[j][i].query, hits |-> 0,
                     sent |-> call[j][i].sent + 1]
    <3>1. call' = [call EXCEPT ![j][i] = r]
      BY <1>2, <2>2, <1>b DEF ReadFlag, Asks
    <3>2. call[j][i].sent = 0 /\ call[j][i].query \in Queries \cup {NoQuery}
      BY <1>2, <1>a DEF ReadFlag
    <3>3. r \in Record /\ r.phase = "serp" /\ r.sent = 1 /\ r.query = call[j][i].query
      BY <3>2
    <3> HIDE DEF r
    <3>4. \E s \in Record : /\ call' = [call EXCEPT ![j][i] = s]
                            /\ s.phase \notin {"unused", "cache"} /\ s.sent <= 1
                            /\ s.phase = "flag" => s.sent = 0
                            /\ s.phase \in {"done", "raised"} \/ s.query = call[j][i].query
      <4> USE <3>3
      <4> WITNESS r \in Record
      <4> QED BY <3>1
    <3>5. /\ stage[j] \in {"searching", "extra"} /\ ~Ended(j, i)
          /\ UNCHANGED <<stage, given, redis>>
      BY <1>2 DEF ReadFlag
    <3> QED BY <1>b, <3>4, <3>5
  <2> QED BY <2>1, <2>2
<1>3. CASE SerpAnswers(j, i) \/ DdgAnswers(j, i) \/ BingAnswers(j, i)
  BY <1>3, <1>b, <1>c, <1>d, <1>e, <1>f DEF SerpAnswers, DdgAnswers, BingAnswers
<1>4. CASE SerpRefuses(j, i) \/ MarkExhausted(j, i)
  BY <1>4, <1>b, <1>d DEF SerpRefuses, MarkExhausted
<1>5. CASE Store(j, i)
  <2>1. call[j][i].hits \in Nat
    BY <1>a
  <2> QED BY <1>5, <1>b, <1>e, <2>1 DEF Store
<1> QED BY <1>1, <1>2, <1>3, <1>4, <1>5 DEF CallStep

LEMMA CallStepIInv ==
  ASSUME IInv, NEW j \in Jobs, NEW i \in Slots, CallStep(j, i)
  PROVE  IInv'
<1>1. PICK r \in Record :
        /\ call' = [call EXCEPT ![j][i] = r]
        /\ r.phase \notin {"unused", "cache"} /\ r.sent <= 1
        /\ r.phase = "flag" => r.sent = 0
        /\ r.phase \in {"done", "raised"} \/ r.query = call[j][i].query
  BY CallStepShape
<1>2. /\ stage[j] \in {"searching", "extra"} /\ ~Ended(j, i)
      /\ stage' = stage /\ given' = given /\ up' = up /\ outages' = outages
      /\ cached' \in [Queries -> Nat] /\ exhausted' \in BOOLEAN
  BY CallStepShape
<1>3. call \in [Jobs -> [Slots -> Record]]
  BY DEF IInv, TypeOK, Record
<1>4. TypeOK'
  BY <1>1, <1>2, <1>3 DEF IInv, TypeOK, Record
<1>5. /\ call'[j][i] = r
      /\ \A k \in Slots \ {i} : call'[j][k] = call[j][k]
      /\ \A l \in Jobs \ {j} : call'[l] = call[l]
  BY <1>1, <1>3
<1>6. ASSUME NEW l \in Jobs, l # j
      PROVE  PoolOK(l)'
  BY <1>2, <1>5, <1>6 DEF IInv, PoolOK, SearchOK, Found, Pooled, Ended
<1>7. PoolOK(j)
  BY DEF IInv
<1>8. i # Extra => stage[j] = "searching" /\ call[j][Extra].sent = 0
  BY <1>2, <1>7, RecordTypes DEF PoolOK, SearchOK, Ended, Slots, Extra
<1>9. ASSUME NEW k \in Slots
      PROVE  SearchOK(j, k)'
  <2>1. CASE k = i
    <3>1. i <= Budget[j]
      BY <1>2, <1>7, BudgetAssumption DEF PoolOK, SearchOK, Ended, Slots
    <3>2. call[j][i].query \in Queries
      BY <1>2, <1>7 DEF PoolOK, SearchOK
    <3> QED BY <2>1, <3>1, <3>2, <1>1, <1>2, <1>5, BudgetAssumption
            DEF SearchOK, Ended, Slots
  <2>2. CASE k # i
    BY <2>2, <1>2, <1>5, <1>7 DEF PoolOK, SearchOK, Ended
  <2> QED BY <2>1, <2>2
<1>10. PoolOK(j)'
  <2>1. CASE i = Extra
    <3>1. stage[j] = "extra"
      BY <2>1, <1>2, <1>7 DEF PoolOK, Ended
    <3> QED BY <2>1, <3>1, <1>2, <1>5, <1>7, <1>9
            DEF PoolOK, Found, Pooled, Ended, Extra, Slots
  <2>2. CASE i # Extra
    BY <2>2, <1>2, <1>5, <1>7, <1>8, <1>9
       DEF PoolOK, Found, Pooled, Ended, Extra, Slots
  <2> QED BY <2>1, <2>2
<1> QED BY <1>4, <1>6, <1>10 DEF IInv

\* The steps of a pool but for those of its searches.
LEMMA PoolStepIInv ==
  ASSUME IInv, NEW j \in Jobs, Build(j) \/ Gather(j) \/ Finish(j) \/ TimesOut(j)
  PROVE  IInv'
<1>a. /\ call \in [Jobs -> [Slots -> Record]] /\ given \in [Jobs -> 0 .. MaxSources]
      /\ stage \in [Jobs -> {"idle", "searching", "extra", "done", "timedout"}]
      /\ DOMAIN Budget = Jobs /\ Budget[j] \in 1 .. 3
  BY BudgetAssumption DEF IInv, TypeOK, Record
<1>b. Unused \in Record /\ \A q \in Queries : Search(q) \in Record
  BY DEF Unused, Search, Record, Phases
<1>p. PoolOK(j) /\ \A i \in Slots : SearchOK(j, i) /\ call[j][i] \in Record
  BY RecordTypes DEF IInv, PoolOK
<1>n. /\ Found(j) \in Nat /\ Pooled(j) \in Nat
      /\ \A i \in Slots : call[j][i].hits \in Nat /\ call[j][i].sent \in Nat
  <2>1. \A i \in Slots : call[j][i].hits \in Nat /\ call[j][i].sent \in Nat
    BY RecordTypes DEF IInv
  <2> QED BY <2>1 DEF Found, Pooled, Slots, Extra
\* What is left to show of a step.
<1> SUFFICES ASSUME TRUE
             PROVE  /\ call' \in [Jobs -> [Slots -> Record]]
                    /\ given' \in [Jobs -> 0 .. MaxSources]
                    /\ stage' \in [Jobs -> {"idle", "searching", "extra", "done", "timedout"}]
                    /\ UNCHANGED redis
                    /\ \A l \in Jobs \ {j} : /\ call'[l] = call[l] /\ given'[l] = given[l]
                                             /\ stage'[l] = stage[l]
                    /\ PoolOK(j)'
  <2>1. TypeOK'
    BY DEF IInv, TypeOK, Record, redis
  <2>2. ASSUME NEW l \in Jobs, l # j
        PROVE  PoolOK(l)'
    BY <2>2 DEF IInv, PoolOK, SearchOK, Found, Pooled, Ended
  <2> QED BY <2>1, <2>2 DEF IInv
<1>1. CASE Build(j)
  <2>0. PICK n \in 1 .. Budget[j] :
          \E q \in [1 .. n -> Queries] :
            call' = [call EXCEPT ![j] = [i \in Slots |->
                       IF i \in 1 .. n THEN Search(q[i]) ELSE Unused]]
    BY <1>1 DEF Build
  <2>1. PICK q \in [1 .. n -> Queries] :
          call' = [call EXCEPT ![j] = [i \in Slots |->
                     IF i \in 1 .. n THEN Search(q[i]) ELSE Unused]]
    BY <2>0
  <2> DEFINE f == [i \in Slots |-> IF i \in 1 .. n THEN Search(q[i]) ELSE Unused]
  <2>2. f \in [Slots -> Record]
    BY <1>b
  <2>3. call'[j] = f /\ stage'[j] = "searching" /\ given' = given
    BY <1>1, <1>a, <2>1 DEF Build
  <2>4. \A i \in Slots : SearchOK(j, i)'
    BY <2>3, <1>a DEF SearchOK, Search, Unused, Ended, Slots
  <2>5. call'[j][Extra] = Unused
    BY <2>3 DEF Slots, Extra
  <2>6. PoolOK(j)'
    BY <2>3, <2>4, <2>5 DEF PoolOK, Unused
  <2> QED BY <1>1, <1>a, <2>1, <2>2, <2>6 DEF Build
<1>2. ASSUME NEW n \in Nat, Assign(j, n), UNCHANGED <<call, redis>>, n = Pooled(j),
             stage[j] = "searching" \/ stage[j] = "extra"
      PROVE  /\ call' \in [Jobs -> [Slots -> Record]]
             /\ given' \in [Jobs -> 0 .. MaxSources]
             /\ stage' \in [Jobs -> {"idle", "searching", "extra", "done", "timedout"}]
             /\ UNCHANGED redis
             /\ \A l \in Jobs \ {j} : /\ call'[l] = call[l] /\ given'[l] = given[l]
                                      /\ stage'[l] = stage[l]
             /\ PoolOK(j)'
  <2>1. PICK k \in 0 .. MaxSources : (k = 0 <=> n = 0) /\ given' = [given EXCEPT ![j] = k]
    BY <1>2 DEF Assign
  <2>2. stage' = [stage EXCEPT ![j] = "done"]
    BY <1>2 DEF Assign
  <2>3. \A i \in Slots : SearchOK(j, i)'
    BY <1>2, <1>p, <1>a, <2>2 DEF SearchOK, Ended
  <2>4. PoolOK(j)'
    BY <1>2, <1>p, <1>a, <2>1, <2>2, <2>3 DEF PoolOK, Found, Pooled
  <2> QED BY <1>2, <1>a, <2>1, <2>2, <2>4
<1>3. CASE Gather(j)
  <2>1. stage[j] = "searching" /\ \A i \in Slots : Ended(j, i)
    BY <1>3 DEF Gather
  <2>2. call[j][Extra].hits = 0 /\ call[j][Extra].sent = 0
    BY <2>1, <1>p DEF PoolOK, SearchOK, Slots, Extra
  <2>3. CASE Found(j) < Thin
    <3>1. PICK q \in Queries : call' = [call EXCEPT ![j][Extra] = Search(q)]
      BY <1>3, <2>3 DEF Gather
    <3>2. stage' = [stage EXCEPT ![j] = "extra"] /\ given' = given /\ UNCHANGED redis
      BY <1>3, <2>3 DEF Gather
    <3>3. /\ call'[j][Extra] = Search(q)
          /\ \A i \in Slots \ {Extra} : call'[j][i] = call[j][i]
          /\ call' \in [Jobs -> [Slots -> Record]]
          /\ \A l \in Jobs \ {j} : call'[l] = call[l]
      BY <3>1, <1>a, <1>b DEF Slots, Extra
    <3>4. \A i \in Slots : SearchOK(j, i)'
      BY <3>2, <3>3, <1>a, <1>p, <2>1 DEF SearchOK, Search, Ended, Slots, Extra
    <3>5. PoolOK(j)'
      BY <3>2, <3>3, <3>4, <1>a, <2>1, <2>3
         DEF PoolOK, Found, Pooled, Ended, Slots, Extra
    <3> QED BY <3>2, <3>3, <3>5, <1>a
  <2>4. CASE ~(Found(j) < Thin)
    <3>1. Pooled(j) = Found(j)
      BY <2>2, <1>n DEF Pooled
    <3> QED BY <1>3, <1>2, <2>1, <2>4, <3>1, <1>n DEF Gather
  <2> QED BY <2>3, <2>4
<1>4. CASE Finish(j)
  BY <1>4, <1>2, <1>n DEF Finish
<1>5. CASE TimesOut(j)
  <2> DEFINE f == [i \in Slots |-> [Unused EXCEPT !.sent = call[j][i].sent]]
  <2>1. call' = [call EXCEPT ![j] = f] /\ stage' = [stage EXCEPT ![j] = "timedout"]
    BY <1>5 DEF TimesOut
  <2>2. \A i \in Slots : [Unused EXCEPT !.sent = call[j][i].sent] \in Record
    BY <1>n DEF Unused, Record, Phases
  <2>3. f \in [Slots -> Record]
    BY <2>2
  <2>4. /\ call'[j] = f /\ stage'[j] = "timedout"
        /\ \A i \in Slots : /\ f[i].phase = "unused" /\ f[i].hits = 0
                            /\ f[i].sent = call[j][i].sent
    BY <2>1, <1>a DEF Unused
  <2>5. \A i \in Slots : SearchOK(j, i)'
    BY <2>4, <1>p DEF SearchOK, Ended
  <2>6. Found(j)' = 0
    BY <2>4 DEF Found, Slots
  <2>7. PoolOK(j)'
    BY <2>4, <2>5, <2>6, <1>p, <1>n, ResultsAssumption DEF PoolOK, Slots, Extra
  <2> QED BY <1>5, <1>a, <2>1, <2>3, <2>7 DEF TimesOut
<1> QED BY <1>1, <1>3, <1>4, <1>5
-------------------------------------------------------------------------------
LEMMA InitIInv == Init => IInv
<1> SUFFICES ASSUME Init PROVE IInv
  OBVIOUS
<1>1. Unused \in Record
  BY DEF Unused, Record, Phases
<1>2. TypeOK
  <2>1. call \in [Jobs -> [Slots -> Record]]
    BY <1>1 DEF Init
  <2>2. given \in [Jobs -> 0 .. MaxSources] /\ outages \in 0 .. MaxOutages
    BY ResultsAssumption DEF Init
  <2> QED BY <2>1, <2>2 DEF Init, TypeOK, Record
<1>3. ASSUME NEW j \in Jobs PROVE PoolOK(j)
  BY DEF Init, PoolOK, SearchOK, Unused, Ended, Slots, Extra
<1> QED BY <1>2, <1>3 DEF IInv

LEMMA NextIInv == IInv /\ [Next]_vars => IInv'
<1> SUFFICES ASSUME IInv, [Next]_vars PROVE IInv'
  OBVIOUS
<1>1. ASSUME NEW j \in Jobs, PoolStep(j) PROVE IInv'
  BY <1>1, CallStepIInv, PoolStepIInv DEF PoolStep
<1>2. ASSUME UNCHANGED <<stage, call, given>>, TypeOK' PROVE IInv'
  BY <1>2 DEF IInv, PoolOK, SearchOK, Found, Pooled, Ended
<1>3. CASE \/ \E q \in Queries : CacheExpires(q)
           \/ FlagExpires \/ RedisFails \/ RedisReturns
  <2>1. TypeOK'
    <3>1. CASE \E q \in Queries : CacheExpires(q)
      BY <3>1 DEF IInv, TypeOK, CacheExpires
    <3>2. CASE FlagExpires \/ RedisReturns
      BY <3>2 DEF IInv, TypeOK, FlagExpires, RedisReturns
    <3>3. CASE RedisFails
      <4>1. outages \in 0 .. MaxOutages /\ MaxOutages \in Nat
        BY ResultsAssumption DEF IInv, TypeOK
      <4>2. outages' \in 0 .. MaxOutages
        BY <3>3, <4>1 DEF RedisFails
      <4> QED BY <3>3, <4>2 DEF IInv, TypeOK, RedisFails
    <3> QED BY <1>3, <3>1, <3>2, <3>3
  <2>2. UNCHANGED <<stage, call, given>>
    BY <1>3 DEF CacheExpires, FlagExpires, RedisFails, RedisReturns
  <2> QED BY <1>2, <2>1, <2>2
<1>4. CASE UNCHANGED vars
  BY <1>2, <1>4 DEF IInv, TypeOK, vars, redis
<1> QED BY <1>1, <1>3, <1>4 DEF Next

LEMMA NoneInSum ==
  ASSUME NEW a \in Nat, NEW b \in Nat, NEW c \in Nat, NEW d \in Nat, a + b + c + d = 0
  PROVE  a = 0 /\ b = 0 /\ c = 0 /\ d = 0
OBVIOUS

LEMMA Invariance == Spec => []IInv
BY InitIInv, NextIInv, PTL DEF Spec

\* The records of all searches and what Redis holds have their types.
THEOREM TypeCorrect == Spec => []TypeOK
BY Invariance, PTL DEF IInv

\* For any number of pools, queries and engines' answers: a pool asks SerpAPI at
\* most once more than max_queries allows, and then because it was thin.
THEOREM ExcessIsOne == Spec => []CapExceededOnce
<1>1. IInv => CapExceededOnce
  <2> SUFFICES ASSUME IInv, NEW j \in Jobs
               PROVE  Requests(j) <= Budget[j] + (IF Found(j) < Thin THEN 1 ELSE 0)
    BY DEF CapExceededOnce
  <2>1. Budget[j] \in 1 .. 3
    BY BudgetAssumption
  <2>2. \A i \in Slots : SearchOK(j, i) /\ call[j][i].sent \in Nat
    BY RecordTypes DEF IInv, PoolOK
  <2>3. \A i \in Slots : call[j][i].sent <= 1 /\ (i > Budget[j] => call[j][i].sent = 0)
    BY <2>2 DEF SearchOK
  <2>4. call[j][0].sent > 0 => Found(j) < Thin
    BY DEF IInv, PoolOK, Extra
  <2> QED BY <2>1, <2>2, <2>3, <2>4 DEF Requests, Slots
<1> QED BY <1>1, Invariance, PTL

\* Claims without a source mean that no search of the pool found anything.
THEOREM NothingFoundIsLost == Spec => []ResultsSurviveFailures
<1>1. IInv => ResultsSurviveFailures
  <2> SUFFICES ASSUME IInv, NEW j \in Jobs, stage[j] = "done", given[j] = 0,
                      NEW i \in Slots
               PROVE  call[j][i].hits = 0
    BY DEF ResultsSurviveFailures
  <2>1. \A k \in Slots : call[j][k].hits \in Nat
    BY RecordTypes DEF IInv
  <2>2. Pooled(j) = 0
    BY DEF IInv, PoolOK
  <2>3. /\ call[j][0].hits \in Nat /\ call[j][1].hits \in Nat
        /\ call[j][2].hits \in Nat /\ call[j][3].hits \in Nat
    BY <2>1 DEF Slots
  <2> DEFINE a == call[j][1].hits
             b == call[j][2].hits
             c == call[j][3].hits
             d == call[j][0].hits
  <2>4. a = 0 /\ b = 0 /\ c = 0 /\ d = 0
    <3>1. a + b + c + d = 0
      BY <2>2 DEF Pooled, Found, Extra
    <3>2. a \in Nat /\ b \in Nat /\ c \in Nat /\ d \in Nat
      BY <2>3
    <3> HIDE DEF a, b, c, d
    <3> QED BY <3>1, <3>2, NoneInSum
  <2>5. i \in {0, 1, 2, 3}
    BY DEF Slots
  <2> QED BY <2>4, <2>5
<1> QED BY <1>1, Invariance, PTL
===============================================================================
