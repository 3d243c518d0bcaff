------------------------------ MODULE SourcePool ------------------------------
(***************************************************************************)
(* Sources for the claims of a job: build_article_source_pool and the web  *)
(* searches it makes, for several jobs that share the cache of searches    *)
(* and the quota flag of SerpAPI, both in Redis.                           *)
(*                                                                         *)
(* A pool makes up to Budget[j] searches at the same time (max_queries is  *)
(* 1, 2 or 3 on the fast, standard and deep path) and one more, in slot 0, *)
(* when they returned fewer than Thin results together.  A search is one   *)
(* of these phases, which end at an await on Redis or on a search engine:  *)
(*                                                                         *)
(*   unused   not made                                                     *)
(*   cache    about to read the cache                                      *)
(*   flag     about to read the quota flag                                 *)
(*   serp     SerpAPI has been asked                                       *)
(*   mark     SerpAPI refused (429), the quota flag is about to be set     *)
(*   ddg      DuckDuckGo has been asked                                    *)
(*   bing     Bing has been asked                                          *)
(*   store    results are about to be stored in the cache                  *)
(*   done     finished                                                     *)
(*   raised   ended by an exception                                        *)
(*                                                                         *)
(* The results of an engine are a number.  Redis may be out of reach: then *)
(* nothing is found in it and nothing is stored, and the search goes on.   *)
(***************************************************************************)
EXTENDS Naturals

CONSTANTS
  Jobs,
  Budget,       \* max_queries of a job
  Queries,
  NoQuery,
  Results,      \* how many results an engine may return if it finds any
  Thin,         \* 3, fewer results make a pool thin
  MaxSources,   \* max_sources_per_claim
  Configured,   \* whether there is a key for SerpAPI
  MaxOutages    \* a bound on the outages of Redis

ASSUME BudgetAssumption == Budget \in [Jobs -> 1 .. 3]

ASSUME ResultsAssumption ==
  /\ Results \subseteq Nat \ {0} /\ Thin \in Nat /\ MaxSources \in Nat \ {0}
  /\ Configured \in BOOLEAN /\ MaxOutages \in Nat

ASSUME QueryAssumption == NoQuery \notin Queries

VARIABLES
  stage,      \* where the pool of a job is
  call,       \* its searches by slot: phase, query, hits, requests sent to SerpAPI
  given,      \* sources assigned to each of its claims
  cached,     \* query |-> number of results in the cache, 0 without an entry
  exhausted,  \* the flag serpapi:quota_exhausted
  up,         \* Redis answers
  outages

redis == <<cached, exhausted, up, outages>>
vars == <<stage, call, given, redis>>

Extra == 0
Slots == 0 .. 3
Unused == [phase |-> "unused", query |-> NoQuery, hits |-> 0, sent |-> 0]

Search(q) == [phase |-> "cache", query |-> q, hits |-> 0, sent |-> 0]

\* Results of the searches within the budget, and of all searches.
Found(j) == call[j][1].hits + call[j][2].hits + call[j][3].hits
Pooled(j) == Found(j) + call[j][Extra].hits

Ended(j, i) == call[j][i].phase \in {"unused", "done", "raised"}
-------------------------------------------------------------------------------
Init ==
  /\ stage = [j \in Jobs |-> "idle"]
  /\ call = [j \in Jobs |-> [i \in Slots |-> Unused]]
  /\ given = [j \in Jobs |-> 0]
  /\ cached = [q \in Queries |-> 0]
  /\ exhausted = FALSE
  /\ up = TRUE /\ outages = 0

\* build_article_queries makes different queries, or the first claim gives one.
Build(j) ==
  /\ stage[j] = "idle"
  /\ \E n \in 1 .. Budget[j] : \E q \in [1 .. n -> Queries] :
       /\ \A a, b \in 1 .. n : q[a] = q[b] => a = b
       /\ call' = [call EXCEPT ![j] = [i \in Slots |->
                     IF i \in 1 .. n THEN Search(q[i]) ELSE Unused]]
  /\ stage' = [stage EXCEPT ![j] = "searching"]
  /\ UNCHANGED <<given, redis>>
-------------------------------------------------------------------------------
(* search_web, in slot i of job j *)

In(j, i, p) == stage[j] \in {"searching", "extra"} /\ call[j][i].phase = p

Goes(j, i, p) == call' = [call EXCEPT ![j][i].phase = p]

\* The request goes out to SerpAPI.
Asks(j, i) ==
  call' = [call EXCEPT ![j][i] = [phase |-> "serp", query |-> @.query, hits |-> 0,
                                  sent |-> @.sent + 1]]

\* The search ends with n results.
Ends(j, i, p, n) ==
  call' = [call EXCEPT ![j][i] = [phase |-> p, query |-> NoQuery, hits |-> n,
                                  sent |-> @.sent]]

\* An engine returned n results.
Answered(j, i, n) ==
  call' = [call EXCEPT ![j][i] = [@ EXCEPT !.phase = "store", !.hits = n]]

ReadCache(j, i) ==
  /\ In(j, i, "cache")
  /\ LET n == IF up THEN cached[call[j][i].query] ELSE 0
     IN  IF n # 0
         THEN Ends(j, i, "done", n)
         ELSE Goes(j, i, IF Configured THEN "flag" ELSE "ddg")
  /\ UNCHANGED <<stage, given, redis>>

ReadFlag(j, i) ==
  /\ In(j, i, "flag")
  /\ IF up /\ exhausted
     THEN Goes(j, i, "ddg")
     ELSE Asks(j, i)
  /\ UNCHANGED <<stage, given, redis>>

\* No results also for an error or a timeout.
SerpAnswers(j, i) ==
  /\ In(j, i, "serp")
  /\ Goes(j, i, "ddg") \/ \E n \in Results : Answered(j, i, n)
  /\ UNCHANGED <<stage, given, redis>>

SerpRefuses(j, i) ==
  /\ In(j, i, "serp")
  /\ Goes(j, i, "mark")
  /\ UNCHANGED <<stage, given, redis>>

MarkExhausted(j, i) ==
  /\ In(j, i, "mark")
  /\ exhausted' = (up \/ exhausted)
  /\ Goes(j, i, "ddg")
  /\ UNCHANGED <<stage, given, cached, up, outages>>

\* POST and, if that fails, GET; only the parsing of the page can raise.
DdgAnswers(j, i) ==
  /\ In(j, i, "ddg")
  /\ \/ Goes(j, i, "bing")
     \/ \E n \in Results : Answered(j, i, n)
     \/ Ends(j, i, "raised", 0)
  /\ UNCHANGED <<stage, given, redis>>

BingAnswers(j, i) ==
  /\ In(j, i, "bing")
  /\ Ends(j, i, "done", 0) \/ \E n \in Results : Answered(j, i, n)
  /\ UNCHANGED <<stage, given, redis>>

Store(j, i) ==
  /\ In(j, i, "store")
  /\ cached' = IF up THEN [cached EXCEPT ![call[j][i].query] = call[j][i].hits] ELSE cached
  /\ Ends(j, i, "done", call[j][i].hits)
  /\ UNCHANGED <<stage, given, exhausted, up, outages>>

CallStep(j, i) ==
  \/ ReadCache(j, i) \/ ReadFlag(j, i) \/ SerpAnswers(j, i) \/ SerpRefuses(j, i)
  \/ MarkExhausted(j, i) \/ DdgAnswers(j, i) \/ BingAnswers(j, i) \/ Store(j, i)
-------------------------------------------------------------------------------
(* build_article_source_pool, after its searches *)

\* A slip, used by no behaviour of Spec: the limit is exceeded by one.
AssignOneMore(j, n) ==
  /\ stage' = [stage EXCEPT ![j] = "done"]
  /\ \E k \in 0 .. MaxSources + 1 : /\ k <= n /\ (k = 0 <=> n = 0)
                                    /\ given' = [given EXCEPT ![j] = k]

\* Every claim gets the best sources of the pool, duplicates left out: at least
\* one unless nothing was found, so that no claim needs a search of its own.
Assign(j, n) ==
  /\ stage' = [stage EXCEPT ![j] = "done"]
  /\ \E k \in 0 .. MaxSources : /\ k <= n /\ (k = 0 <=> n = 0)
                                /\ given' = [given EXCEPT ![j] = k]

\* A slip, used by no behaviour of Spec: a search that raised ends them all.
GatherOrRaise(j) ==
  /\ stage[j] = "searching" /\ \A i \in Slots : Ended(j, i)
  /\ IF \E i \in Slots : call[j][i].phase = "raised"
     THEN Assign(j, 0) /\ UNCHANGED call
     ELSE IF Found(j) < Thin
     THEN /\ \E q \in Queries : call' = [call EXCEPT ![j][Extra] = Search(q)]
          /\ stage' = [stage EXCEPT ![j] = "extra"]
          /\ UNCHANGED given
     ELSE Assign(j, Found(j)) /\ UNCHANGED call
  /\ UNCHANGED redis

\* All searches have ended.  The number of queries is never above the budget,
\* so only a thin pool matters for the search beyond it.
Gather(j) ==
  /\ stage[j] = "searching" /\ \A i \in Slots : Ended(j, i)
  /\ IF Found(j) < Thin
     THEN /\ \E q \in Queries : call' = [call EXCEPT ![j][Extra] = Search(q)]
          /\ stage' = [stage EXCEPT ![j] = "extra"]
          /\ UNCHANGED given
     ELSE Assign(j, Found(j)) /\ UNCHANGED call
  /\ UNCHANGED redis

Finish(j) ==
  /\ stage[j] = "extra" /\ Ended(j, Extra)
  /\ Assign(j, Pooled(j))
  /\ UNCHANGED <<call, redis>>

\* asyncio.wait_for, or the end of the whole run, cancels the searches; what they
\* have found is lost to the claims.
TimesOut(j) ==
  /\ stage[j] \in {"searching", "extra"}
  /\ stage' = [stage EXCEPT ![j] = "timedout"]
  /\ call' = [call EXCEPT ![j] = [i \in Slots |-> [Unused EXCEPT !.sent = call[j][i].sent]]]
  /\ UNCHANGED <<given, redis>>
-------------------------------------------------------------------------------
(* Redis *)

CacheExpires(q) ==
  /\ cached[q] # 0
  /\ cached' = [cached EXCEPT ![q] = 0]
  /\ UNCHANGED <<stage, call, given, exhausted, up, outages>>

FlagExpires ==
  /\ exhausted
  /\ exhausted' = FALSE
  /\ UNCHANGED <<stage, call, given, cached, up, outages>>

RedisFails ==
  /\ up /\ outages < MaxOutages
  /\ up' = FALSE /\ outages' = outages + 1
  /\ UNCHANGED <<stage, call, given, cached, exhausted>>

RedisReturns ==
  /\ ~up
  /\ up' = TRUE
  /\ UNCHANGED <<stage, call, given, cached, exhausted, outages>>

PoolStep(j) ==
  Build(j) \/ Gather(j) \/ Finish(j) \/ TimesOut(j) \/ \E i \in Slots : CallStep(j, i)

Next ==
  \/ \E j \in Jobs : PoolStep(j)
  \/ (\E q \in Queries : CacheExpires(q)) \/ FlagExpires \/ RedisFails \/ RedisReturns

Spec == Init /\ [][Next]_vars
-------------------------------------------------------------------------------
Phases == {"unused", "cache", "flag", "serp", "mark", "ddg", "bing", "store", "done",
           "raised"}

TypeOK ==
  /\ stage \in [Jobs -> {"idle", "searching", "extra", "done", "timedout"}]
  /\ call \in [Jobs -> [Slots -> [phase : Phases, query : Queries \cup {NoQuery},
                                  hits : Nat, sent : Nat]]]
  /\ given \in [Jobs -> 0 .. MaxSources]
  /\ cached \in [Queries -> Nat]
  /\ exhausted \in BOOLEAN /\ up \in BOOLEAN /\ outages \in 0 .. MaxOutages

Requests(j) == call[j][0].sent + call[j][1].sent + call[j][2].sent + call[j][3].sent

\* max_queries is a hard cap on a pool's searches, its SerpAPI budget, say the docstring
\* (article_source_pool.py:164) and, of the fast and the deep path, the head of the
\* module (lines 10 and 12).  The code breaks it: the search of line 211 comes on top.
RequestsWithinCap == \A j \in Jobs : Requests(j) <= Budget[j]

\* What holds instead: the cap is exceeded by one request at most, and only if the
\* searches within it returned too little, whatever the cache, the flag and the
\* other pools do.
CapExceededOnce ==
  \A j \in Jobs : Requests(j) <= Budget[j] + (IF Found(j) < Thin THEN 1 ELSE 0)

\* A claim is left without a source only if no search found any: one that raises
\* costs no more than its own results (article_source_pool.py:190).
ResultsSurviveFailures ==
  \A j \in Jobs : stage[j] = "done" /\ given[j] = 0 =>
    \A i \in Slots : call[j][i].hits = 0
===============================================================================
