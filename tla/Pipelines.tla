------------------------------- MODULE Pipelines -------------------------------
(***************************************************************************)
(* What the runs of the AI service write for their jobs: the pipelines     *)
(* (fast, standard, deep, recovery) and the clone of a finished job, which *)
(* share the tables claims, sources, verdicts and bias_results.            *)
(*                                                                         *)
(* Every statement commits by itself, so a run may stop between any two    *)
(* and other runs read what it has written so far: a standard or deep run  *)
(* looks for claims like its own (the semantic cache) and takes over their *)
(* newest verdict and their sources.  The standard and the deep pipeline   *)
(* are the same program with other limits.                                 *)
(*                                                                         *)
(* Each job runs once; who starts, cancels and sweeps runs is the matter   *)
(* of JobLifecycle.  An action ends at an INSERT or UPDATE; the reads      *)
(* before it are part of it, and where another run may write between two   *)
(* of them, it may find what was there before (Hit, Miss).  What language  *)
(* models, embeddings and searches answer is chosen freely.                *)
(*                                                                         *)
(*   queued     not started                                                *)
(*   copyBias, copy, copyStatus, copyAudit                                 *)
(*              in reuse_completed_job                                     *)
(*   route      past the reuse, about to choose a path                     *)
(*   fastAsk, fullAsk                                                      *)
(*              the article is stored, the model is asked for claims       *)
(*   fast, full claims are inserted one by one                             *)
(*   recovery   the recovery pipeline begins                               *)
(*   bias, write, status                                                   *)
(*              the results are written                                    *)
(*   over       the run has ended                                          *)
(***************************************************************************)
EXTENDS Verdicts

CONSTANTS
  Jobs,
  UrlJobs,       \* the jobs submitted with the URL, the others come with text
  NoJob,
  Topics,        \* claims of one topic have embeddings closer than 0.9
  Judgements,    \* verdicts of a claim a model may give
  Readings,      \* stances a model may give a source, or leave it
  Opinions,      \* overall verdicts a model may give
  Pools,         \* the sources the pool may return for a claim
  MaxRuns,       \* the slots of the worker pools
  MaxFailed,     \* a bound on the jobs that end as FAILED
  MaxSources,    \* MAX_SOURCES_PER_CLAIM
  MaxClaims,     \* MAX_CLAIMS
  MaxClaimsModerate,
  MaxClaimsFast

ASSUME JobAssumption == UrlJobs \subseteq Jobs /\ NoJob \notin Jobs

ASSUME AnswerAssumption ==
  /\ Judgements \subseteq ClaimValues /\ Opinions \subseteq OverallValues
  /\ Readings \subseteq Stances

\* The pool enters every source as UNCLEAR.
ASSUME PoolAssumption ==
  \A ev \in Pools : /\ ev \in Seq(Source) /\ Len(ev) <= MaxSources
                     /\ \A i \in DOMAIN ev : ev[i].stance = "UNCLEAR"

ASSUME LimitAssumption ==
  /\ MaxRuns \in Nat /\ MaxFailed \in Nat /\ MaxSources \in Nat
  /\ MaxClaims \in Nat /\ MaxClaimsModerate \in Nat /\ MaxClaimsFast \in Nat

VARIABLES
  status,      \* jobs.status
  linked,      \* the jobs with an article_id
  bias,        \* how many bias_results a job has
  claims,      \* the table claims; the number of a row is its id
  verdicts,    \* the table verdicts, oldest row first
  pc,          \* where the run of a job is
  pending,     \* topics of the claims it has still to insert or to look up
  mine,        \* inserted_claims, the ids of its claims, foreign ones included
  known,       \* id |-> sources and cached verdict it holds for that claim
  judge,       \* who judged its claims
  todo,        \* rows it is going to write, or to copy
  final,       \* overall verdict and status at the end
  old          \* the finished job that it tried to clone

db == <<status, linked, bias, claims, verdicts>>
locals == <<pending, mine, known, final>>
held == <<locals, judge>>
vars == <<db, pc, held, todo, old>>

ClaimId == 1 .. Len(claims)
Overall == 0                  \* claim_id IS NULL, is_overall
NotCached == "none"
NoResult == [value |-> "UNVERIFIABLE", status |-> "FAILED"]

\* Sources or a verdict to be written, or something to be copied.
SourceRows(c, ev) == [kind |-> "sources", claim |-> c, value |-> NotCached, ev |-> ev]

\* A slip, used by no behaviour of Spec: the verdict is left out.
VerdictRowEmpty(c, v) == [kind |-> "verdict", claim |-> c, value |-> NotCached, ev |-> <<>>]

VerdictRow(c, v) == [kind |-> "verdict", claim |-> c, value |-> v, ev |-> <<>>]

Copy(k, c) == [kind |-> k, claim |-> c, value |-> NotCached, ev |-> <<>>]

Pops(j, k) == todo[j] # <<>> /\ Head(todo[j]).kind = k

\* All ways to list a finite set, for SELECTs without ORDER BY.
Listings(S) == {q \in [1 .. Cardinality(S) -> S] :
                  \A i, k \in 1 .. Cardinality(S) : q[i] = q[k] => i = k}

RowsOn(c) == {i \in DOMAIN verdicts : verdicts[i].claim = c}

\* ORDER BY created_at DESC LIMIT 1
NewestOn(c) == {i \in RowsOn(c) : \A k \in RowsOn(c) : k <= i}

ClaimsOf(j) == {c \in ClaimId : claims[c].job = j}

Cached(j) == {c \in DOMAIN known[j] : known[j][c].value # NotCached}

Missed(j) == {c \in DOMAIN known[j] : known[j][c].value = NotCached}
-------------------------------------------------------------------------------
Init ==
  /\ status = [j \in Jobs |-> "PENDING"]
  /\ linked = {}
  /\ bias = [j \in Jobs |-> 0]
  /\ claims = <<>> /\ verdicts = <<>>
  /\ pc = [j \in Jobs |-> "queued"]
  /\ pending = [j \in Jobs |-> <<>>]
  /\ mine = [j \in Jobs |-> <<>>]
  /\ known = [j \in Jobs |-> <<>>]
  /\ judge = [j \in Jobs |-> "nobody"]
  /\ todo = [j \in Jobs |-> <<>>]
  /\ final = [j \in Jobs |-> NoResult]
  /\ old = [j \in Jobs |-> NoJob]

Goto(j, p) == pc' = [pc EXCEPT ![j] = p]

\* The run ends, and its variables with it.
Ends(j) ==
  /\ Goto(j, "over")
  /\ pending' = [pending EXCEPT ![j] = <<>>]
  /\ mine' = [mine EXCEPT ![j] = <<>>]
  /\ known' = [known EXCEPT ![j] = <<>>]
  /\ final' = [final EXCEPT ![j] = NoResult]
  /\ todo' = [todo EXCEPT ![j] = <<>>]

At(j, p) == pc[j] = p

\* A slip, used by no behaviour of Spec: the job found need not have finished.
ReusableEarly(j) == IF j \in UrlJobs
                    THEN {k \in linked \cap UrlJobs : k # j /\ status[k] # "FAILED"}
                    ELSE {}

\* Finished jobs of the same article, for the reuse.
Reusable(j) == IF j \in UrlJobs
               THEN {k \in linked \cap UrlJobs : status[k] = "COMPLETE"}
               ELSE {}

Begin(j) ==
  /\ At(j, "queued")
  /\ Cardinality({k \in Jobs : pc[k] \notin {"queued", "over"}}) < MaxRuns
  /\ status' = [status EXCEPT ![j] = "PROCESSING"]
  /\ \/ /\ Reusable(j) = {}
        /\ Goto(j, "route")
        /\ UNCHANGED <<linked, old>>
     \/ \E o \in Reusable(j) :
          /\ old' = [old EXCEPT ![j] = o]
          /\ linked' = linked \cup {j}
          /\ Goto(j, "copyBias")
  /\ UNCHANGED <<bias, claims, verdicts, held, todo>>
-------------------------------------------------------------------------------
(* reuse_completed_job *)

CopyBias(j) ==
  /\ At(j, "copyBias")
  /\ bias' = [bias EXCEPT ![j] = IF bias[old[j]] > 0 THEN @ + 1 ELSE @]
  /\ \E q \in Listings(ClaimsOf(old[j])) :
       todo' = [todo EXCEPT ![j] = [i \in DOMAIN q |-> Copy("claim", q[i])]]
  /\ Goto(j, "copy")
  /\ UNCHANGED <<status, linked, claims, verdicts, held, old>>

\* asyncpg hands out an embedding as text, and insert_claim puts commas between
\* its characters: the INSERT fails for a claim that has one (CloneFails).
CopyClaim(j) ==
  /\ At(j, "copy") /\ Pops(j, "claim")
  /\ LET c == Head(todo[j]).claim
         n == Len(claims) + 1
     IN  /\ ~claims[c].emb
         /\ claims' = Append(claims, [job |-> j, topic |-> claims[c].topic,
                                      emb |-> FALSE, ev |-> <<>>, copy |-> c])
         /\ todo' = [todo EXCEPT ![j] =
                       Tail(@) \o <<Copy("copySources", n), Copy("copyVerdict", n)>>]
  /\ UNCHANGED <<status, linked, bias, verdicts, pc, held, old>>

\* The sources are read, InsertSource and SourcesDone write them.
CopySources(j) ==
  /\ At(j, "copy") /\ Pops(j, "copySources")
  /\ LET n == Head(todo[j]).claim
     IN  todo' = [todo EXCEPT ![j] = <<SourceRows(n, claims[claims[n].copy].ev)>> \o Tail(@)]
  /\ UNCHANGED <<db, pc, held, old>>

\* A slip, used by no behaviour of Spec: any verdict of the old job.
CopyVerdictAny(j) ==
  /\ At(j, "copy") /\ Pops(j, "copyVerdict")
  /\ \E i \in {i \in DOMAIN verdicts : verdicts[i].job = old[j]} :
       verdicts' = Append(verdicts, [job |-> j, claim |-> Head(todo[j]).claim,
                                     value |-> verdicts[i].value])
  /\ todo' = [todo EXCEPT ![j] = Tail(@)]
  /\ UNCHANGED <<status, linked, bias, claims, pc, held, old>>

\* One row of the old job for the claim, whichever the query finds first.
CopyVerdict(j) ==
  /\ At(j, "copy") /\ Pops(j, "copyVerdict")
  /\ LET n == Head(todo[j]).claim
         there == {i \in RowsOn(claims[n].copy) : verdicts[i].job = old[j]}
     IN  IF there = {} THEN UNCHANGED verdicts
         ELSE \E i \in there :
                verdicts' = Append(verdicts, [job |-> j, claim |-> n,
                                              value |-> verdicts[i].value])
  /\ todo' = [todo EXCEPT ![j] = Tail(@)]
  /\ UNCHANGED <<status, linked, bias, claims, pc, held, old>>

CopyOverall(j) ==
  /\ At(j, "copy") /\ todo[j] = <<>>
  /\ LET there == {i \in RowsOn(Overall) : verdicts[i].job = old[j]}
     IN  IF there = {} THEN UNCHANGED verdicts
         ELSE \E i \in there :
                verdicts' = Append(verdicts, [job |-> j, claim |-> Overall,
                                              value |-> verdicts[i].value])
  /\ Goto(j, "copyStatus")
  /\ UNCHANGED <<status, linked, bias, claims, held, todo, old>>

CopyStatus(j) ==
  /\ At(j, "copyStatus")
  /\ status' = [status EXCEPT ![j] = "COMPLETE"]
  /\ Goto(j, "copyAudit")
  /\ UNCHANGED <<linked, bias, claims, verdicts, held, todo, old>>

CopyAudit(j) ==
  /\ At(j, "copyAudit")
  /\ Ends(j)
  /\ UNCHANGED <<db, judge, old>>

\* Any exception: the router goes on as if there had been nothing to reuse.
CloneFails(j) ==
  /\ pc[j] \in {"copyBias", "copy", "copyStatus", "copyAudit"}
  /\ todo' = [todo EXCEPT ![j] = <<>>]
  /\ Goto(j, "route")
  /\ UNCHANGED <<db, held, old>>
-------------------------------------------------------------------------------
(* The paths, up to the claims *)

Route(j) ==
  /\ At(j, "route")
  /\ \/ /\ Goto(j, "recovery")
        /\ UNCHANGED linked
     \/ /\ \E p \in {"fastAsk", "fullAsk"} : Goto(j, p)
        /\ linked' = linked \cup {j}
  /\ UNCHANGED <<status, bias, claims, verdicts, held, todo, old>>

\* The answer has everything in one; the bias row is written at once.
FastAnswer(j) ==
  /\ At(j, "fastAsk")
  /\ bias' = [bias EXCEPT ![j] = @ + 1]
  /\ \E n \in 0 .. MaxClaimsFast : \E q \in [1 .. n -> Topics] :
       pending' = [pending EXCEPT ![j] = q]
  /\ Goto(j, "fast")
  /\ UNCHANGED <<status, linked, claims, verdicts, mine, known, judge, todo, final, old>>

\* Candidates are ranked and cut to the limit, which depends on the pressure.
Extract(j) ==
  /\ At(j, "fullAsk")
  /\ \E limit \in {MaxClaims, MaxClaimsModerate} :
       \E n \in 1 .. limit : \E q \in [1 .. n -> Topics] :
         pending' = [pending EXCEPT ![j] = q]
  /\ Goto(j, "full")
  /\ UNCHANGED <<db, mine, known, judge, todo, final, old>>

\* A slip, used by no behaviour of Spec: recovery also after the results were written.
FallBackLate(j) ==
  /\ pc[j] \in {"fastAsk", "fullAsk", "status"}
  /\ Goto(j, "recovery")
  /\ UNCHANGED <<db, held, todo, old>>

\* No answer in time, no claims, or critical pressure.
FallBack(j) ==
  /\ pc[j] \in {"fastAsk", "fullAsk"}
  /\ Goto(j, "recovery")
  /\ UNCHANGED <<db, held, todo, old>>

Learn(j, c, ev, v) ==
  known' = [known EXCEPT ![j] = [d \in DOMAIN @ \cup {c} |->
                                   IF d = c THEN [ev |-> ev, value |-> v] ELSE @[d]]]

Listed(j, c) ==
  /\ mine' = [mine EXCEPT ![j] = Append(@, c)]
  /\ pending' = [pending EXCEPT ![j] = Tail(@)]

\* The claims, of any job, that find_similar_claim may return.
Similar(j) == {c \in ClaimId : claims[c].emb /\ claims[c].topic = Head(pending[j])}

\* A new claim.  Only the full path computes embeddings, and that may fail.
\* A similar claim, or its verdict, may have been stored since it was looked for.
Miss(j) ==
  /\ pc[j] \in {"fast", "full"} /\ pending[j] # <<>>
  /\ \E emb \in IF At(j, "full") THEN BOOLEAN ELSE {FALSE} :
       claims' = Append(claims, [job |-> j, topic |-> Head(pending[j]), emb |-> emb,
                                 ev |-> <<>>, copy |-> 0])
  /\ \E ev \in Pools : Learn(j, Len(claims) + 1, ev, NotCached)
  /\ Listed(j, Len(claims) + 1)
  /\ UNCHANGED <<status, linked, bias, verdicts, pc, judge, todo, final, old>>

\* A slip, used by no behaviour of Spec: a similar claim is taken though nobody has judged it.
HitUnjudged(j) ==
  /\ At(j, "full") /\ pending[j] # <<>>
  /\ \E c \in Similar(j) :
       /\ Learn(j, c, claims[c].ev, "UNVERIFIABLE")
       /\ Listed(j, c)
  /\ UNCHANGED <<db, pc, judge, todo, final, old>>

\* A slip, used by no behaviour of Spec: sources are searched for a similar claim too.
HitSearches(j) ==
  /\ At(j, "full") /\ pending[j] # <<>>
  /\ \E c \in Similar(j) : \E i \in NewestOn(c), ev \in Pools :
       /\ Learn(j, c, ev, verdicts[i].value)
       /\ Listed(j, c)
  /\ UNCHANGED <<db, pc, judge, todo, final, old>>

\* A similar claim that has a verdict takes its place.  Its sources were read
\* before the verdict, and more may have been stored since.
Hit(j) ==
  /\ At(j, "full") /\ pending[j] # <<>>
  /\ \E c \in Similar(j) : \E i \in NewestOn(c), n \in 0 .. Len(claims[c].ev) :
       /\ Learn(j, c, SubSeq(claims[c].ev, 1, n), verdicts[i].value)
       /\ Listed(j, c)
  /\ UNCHANGED <<db, pc, judge, todo, final, old>>
-------------------------------------------------------------------------------
(* Judging and writing *)

\* A model may leave a claim out or name one twice.
Answers(S) == UNION {[1 .. n -> S \X Judgements] : n \in 0 .. Cardinality(S)}

VerdictRows(a) == [i \in DOMAIN a |-> VerdictRow(a[i][1], a[i][2])]

\* The sources of all claims of the run; those of the missed ones as in evs.
SourcesOf(j, evs) ==
  [i \in DOMAIN mine[j] |->
     SourceRows(mine[j][i], IF mine[j][i] \in Missed(j) THEN evs[mine[j][i]]
                            ELSE known[j][mine[j][i]].ev)]

\* The sources of the missed claims as the pool returned them.
AsFound(j) == [c \in Missed(j) |-> known[j][c].ev]

\* With stances from the model; one that it leaves out stays UNCLEAR.
ClassifiedAs(ev) ==
  {[i \in DOMAIN ev |-> [ev[i] EXCEPT !.stance = st[i]]] :
     st \in [DOMAIN ev -> Readings]}

Classified(j) ==
  {evs \in [Missed(j) -> UNION {ClassifiedAs(known[j][c].ev) : c \in Missed(j)}] :
     \A c \in Missed(j) : evs[c] \in ClassifiedAs(known[j][c].ev)}

CachedRows(j, q) == [i \in DOMAIN q |-> VerdictRow(q[i], known[j][q[i]].value)]

Conclude(j, who, rows, value) ==
  /\ pending[j] = <<>>
  /\ judge' = [judge EXCEPT ![j] = who]
  /\ todo' = [todo EXCEPT ![j] = rows]
  /\ final' = [final EXCEPT ![j] = [value |-> value, status |-> "COMPLETE"]]
  /\ UNCHANGED <<db, pending, mine, known, old>>

FastConclude(j) ==
  /\ At(j, "fast")
  /\ \E a \in Answers(Missed(j)), v \in Opinions :
       Conclude(j, "model",
                SourcesOf(j, AsFound(j)) \o VerdictRows(a), v)
  /\ Goto(j, "write")

\* run_compressed_judge: stances and verdicts for the claims without a cached one.
Judge(j) ==
  /\ At(j, "full") /\ Missed(j) # {}
  /\ \E a \in Answers(Missed(j)), q \in Listings(Cached(j)), v \in Opinions,
        evs \in Classified(j) :
       Conclude(j, "model", SourcesOf(j, evs) \o VerdictRows(a) \o CachedRows(j, q), v)
  /\ Goto(j, "bias")

\* The verdicts that compute_fallback_verdict gives the claims listed in q.
FallbackRows(j, q) ==
  [i \in DOMAIN q |-> VerdictRow(q[i], ClaimVerdict(known[j][q[i]].ev))]

FallbackOverall(j, q) ==
  OverallVerdict([i \in DOMAIN q |-> ClaimVerdict(known[j][q[i]].ev)])

\* A slip, used by no behaviour of Spec: the stances of an answer that broke off are used.
JudgeFailsLate(j) ==
  /\ At(j, "full") /\ Missed(j) # {}
  /\ \E m \in Listings(Missed(j)), q \in Listings(Cached(j)), evs \in Classified(j) :
       Conclude(j, "fallback",
                SourcesOf(j, evs)
                  \o [i \in DOMAIN m |-> VerdictRow(m[i], ClaimVerdict(evs[m[i]]))]
                  \o CachedRows(j, q),
                FallbackOverall(j, m))
  /\ Goto(j, "bias")

\* The model gives no answer: verdicts from sources that are all UNCLEAR still.
JudgeFails(j) ==
  /\ At(j, "full") /\ Missed(j) # {}
  /\ \E m \in Listings(Missed(j)), q \in Listings(Cached(j)) :
       Conclude(j, "fallback",
                SourcesOf(j, AsFound(j))
                  \o FallbackRows(j, m) \o CachedRows(j, q),
                FallbackOverall(j, m))
  /\ Goto(j, "bias")

\* A slip, used by no behaviour of Spec: the cached verdicts first.
AllCachedSwapped(j) ==
  /\ At(j, "full") /\ Missed(j) = {}
  /\ \E q \in Listings(Cached(j)) :
       Conclude(j, "cache",
                SourcesOf(j, <<>>) \o CachedRows(j, q) \o FallbackRows(j, mine[j]),
                FallbackOverall(j, mine[j]))
  /\ Goto(j, "bias")

\* All claims are cached: no model is asked, and each gets a computed verdict
\* and then its cached one.
AllCached(j) ==
  /\ At(j, "full") /\ Missed(j) = {}
  /\ \E q \in Listings(Cached(j)) :
       Conclude(j, "cache",
                SourcesOf(j, <<>>) \o FallbackRows(j, mine[j]) \o CachedRows(j, q),
                FallbackOverall(j, mine[j]))
  /\ Goto(j, "bias")

\* run_recovery_pipeline_flow, up to its first result: no claims.
Recover(j) ==
  /\ At(j, "recovery")
  /\ linked' = linked \cup {j}
  /\ \E v \in Opinions \cup {"UNVERIFIABLE"} :
       final' = [final EXCEPT ![j] = [value |-> v, status |-> "PARTIAL"]]
  /\ Goto(j, "bias")
  /\ UNCHANGED <<status, bias, claims, verdicts, pending, mine, known, judge, todo, old>>

InsertBias(j) ==
  /\ At(j, "bias")
  /\ bias' = [bias EXCEPT ![j] = @ + 1]
  /\ Goto(j, "write")
  /\ UNCHANGED <<status, linked, claims, verdicts, held, todo, old>>

\* One source at a time; also the copies in reuse_completed_job.
InsertSource(j) ==
  /\ pc[j] \in {"copy", "write"} /\ Pops(j, "sources")
  /\ LET row == Head(todo[j])
     IN  /\ row.ev # <<>>
         /\ claims' = [claims EXCEPT ![row.claim].ev = Append(@, Head(row.ev))]
         /\ todo' = [todo EXCEPT ![j] = <<SourceRows(row.claim, Tail(row.ev))>> \o Tail(@)]
  /\ UNCHANGED <<status, linked, bias, verdicts, pc, held, old>>

SourcesDone(j) ==
  /\ pc[j] \in {"copy", "write"} /\ Pops(j, "sources")
  /\ Head(todo[j]).ev = <<>>
  /\ todo' = [todo EXCEPT ![j] = Tail(@)]
  /\ UNCHANGED <<db, pc, held, old>>

InsertVerdict(j) ==
  /\ At(j, "write") /\ Pops(j, "verdict")
  /\ verdicts' = Append(verdicts, [job |-> j, claim |-> Head(todo[j]).claim,
                                   value |-> Head(todo[j]).value])
  /\ todo' = [todo EXCEPT ![j] = Tail(@)]
  /\ UNCHANGED <<status, linked, bias, claims, pc, held, old>>

InsertOverall(j) ==
  /\ At(j, "write") /\ todo[j] = <<>>
  /\ verdicts' = Append(verdicts, [job |-> j, claim |-> Overall, value |-> final[j].value])
  /\ Goto(j, "status")
  /\ UNCHANGED <<status, linked, bias, claims, held, todo, old>>

SetStatus(j) ==
  /\ At(j, "status")
  /\ status' = [status EXCEPT ![j] = final[j].status]
  /\ Ends(j)
  /\ UNCHANGED <<linked, bias, claims, verdicts, judge, old>>

\* An exception, a cancellation or the watchdog ends the run where it is.
Fail(j) ==
  /\ pc[j] \notin {"queued", "over"}
  /\ Cardinality({k \in Jobs : status[k] = "FAILED"}) < MaxFailed
  /\ status' = [status EXCEPT ![j] = "FAILED"]
  /\ Ends(j)
  /\ UNCHANGED <<linked, bias, claims, verdicts, judge, old>>

Step(j) ==
  \/ Begin(j)
  \/ CopyBias(j) \/ CopyClaim(j) \/ CopySources(j) \/ CopyVerdict(j)
  \/ CopyOverall(j) \/ CopyStatus(j) \/ CopyAudit(j) \/ CloneFails(j)
  \/ Route(j) \/ FastAnswer(j) \/ Extract(j) \/ FallBack(j) \/ Miss(j) \/ Hit(j)
  \/ FastConclude(j) \/ Judge(j) \/ JudgeFails(j) \/ AllCached(j) \/ Recover(j)
  \/ InsertBias(j) \/ InsertSource(j) \/ SourcesDone(j) \/ InsertVerdict(j) \/ InsertOverall(j)
  \/ SetStatus(j) \/ Fail(j)

Next == \E j \in Jobs : Step(j)

Spec == Init /\ [][Next]_vars
-------------------------------------------------------------------------------
Places == {"queued", "copyBias", "copy", "copyStatus", "copyAudit", "route", "fastAsk",
           "fullAsk", "fast", "full", "recovery", "bias", "write", "status", "over"}

RowKinds == {"sources", "verdict", "claim", "copySources", "copyVerdict"}

Values == ClaimValues \cup OverallValues

Row == [kind : RowKinds, claim : Nat, value : Values \cup {NotCached}, ev : Seq(Source)]

Claim == [job : Jobs, topic : Topics, emb : BOOLEAN, ev : Seq(Source), copy : Nat]

Verdict == [job : Jobs, claim : Nat, value : Values]

Result == [ev : Seq(Source), value : Values \cup {NotCached}]

TablesOK ==
  /\ status \in [Jobs -> {"PENDING", "PROCESSING", "COMPLETE", "PARTIAL", "FAILED"}]
  /\ linked \subseteq Jobs
  /\ bias \in [Jobs -> Nat]
  /\ claims \in Seq(Claim)
  /\ verdicts \in Seq(Verdict)

RunsOK ==
  /\ pc \in [Jobs -> Places]
  /\ pending \in [Jobs -> Seq(Topics)]
  /\ judge \in [Jobs -> {"nobody", "model", "fallback", "cache"}]
  /\ final \in [Jobs -> [value : OverallValues, status : {"COMPLETE", "PARTIAL", "FAILED"}]]
  /\ old \in [Jobs -> Jobs \cup {NoJob}]

HeldOK ==
  /\ mine \in [Jobs -> Seq(ClaimId)]
  /\ \A j \in Jobs : \A c \in DOMAIN known[j] : c \in ClaimId /\ known[j][c] \in Result
  /\ todo \in [Jobs -> Seq(Row)]

TypeOK == TablesOK /\ RunsOK /\ HeldOK

OverallRows(j) == {i \in RowsOn(Overall) : verdicts[i].job = j}

\* A job is COMPLETE only with everything a reader of its results needs: its
\* article, a bias row and an overall verdict.  A clone is complete because the
\* job it copies was, whatever has become of that job in the meantime
\* (pipeline_router.py:171, standard.py:362).
CompleteIsReadable ==
  \A j \in Jobs :
    status[j] = "COMPLETE" => j \in linked /\ bias[j] > 0 /\ OverallRows(j) # {}

\* VerdictRepository.findByJobIdAndIsOverallTrue expects one row.  A job that
\* never tried a clone has at most one overall verdict, one that did at most two
\* (pipeline_router.py:178: a clone that fails leaves its rows).
SecondOverallFromClone ==
  \A j \in Jobs :
    Cardinality(OverallRows(j)) <= IF old[j] = NoJob THEN 1 ELSE 2

\* Verdicts taken over from the semantic cache go back to a judgement by the run
\* that extracted the claim: whatever other runs wrote about it came later
\* (standard.py:175, standard.py:334).
FirstVerdictIsOwners ==
  \A i \in DOMAIN verdicts :
    LET c == verdicts[i].claim
    IN  c # Overall => \E k \in RowsOn(c) : k <= i /\ verdicts[k].job = claims[c].job

\* Without an answer of the judge a run says nothing about its new claims: the
\* computed verdict sees sources whose stances nobody has set
\* (compressed_judge.py:143).
UnjudgedIsUnverifiable ==
  \A j \in Jobs : judge[j] = "fallback" =>
    \A i \in DOMAIN verdicts :
      LET c == verdicts[i].claim
      IN  verdicts[i].job = j /\ c # Overall /\ claims[c].job = j /\ claims[c].copy = 0
            => verdicts[i].value = "UNVERIFIABLE"

\* What a clone says about a copied claim the cloned job had said of the original
\* (pipeline_router.py:134).
CloneCopiesVerdicts ==
  \A i \in DOMAIN verdicts :
    LET c == verdicts[i].claim
    IN  c # Overall /\ claims[c].copy # 0
          => \E k \in 1 .. i - 1 : /\ verdicts[k].claim = claims[c].copy
                                  /\ verdicts[k].job = claims[claims[c].copy].job
                                  /\ verdicts[k].value = verdicts[i].value

\* A run that reused a verdict ends with it: what it computed for the claim in
\* between is not its last word (standard.py:326, standard.py:334).
ReusedVerdictStands ==
  \A j \in Jobs : pc[j] = "status" =>
    \A c \in Cached(j) :
      \E i \in RowsOn(c) : /\ verdicts[i].job = j /\ verdicts[i].value = known[j][c].value
                          /\ \A k \in RowsOn(c) : verdicts[k].job = j => k <= i

\* Sources that a run stores for a claim of another job are there already: it has
\* read them from the table, perhaps while the other run was storing them.  Reuse
\* may repeat sources but never brings a claim new ones (standard.py:176,
\* standard.py:294).
ReusedSourcesAreStored ==
  \A j \in Jobs : \A i \in DOMAIN todo[j] :
    LET row == todo[j][i]
    IN  row.kind = "sources" /\ claims[row.claim].job # j
          => \A k \in DOMAIN row.ev : \E m \in DOMAIN claims[row.claim].ev :
               claims[row.claim].ev[m] = row.ev[k]

\* What the queries of JobResultService find for a job: the sources of its claims
\* as a set, its verdicts with their ids.
ResultOf(j) ==
  [articles |-> linked \cap {j},
   bias |-> 1 .. bias[j],
   claims |-> ClaimsOf(j),
   sources |-> UNION {{<<c, claims[c].ev[k]>> : k \in DOMAIN claims[c].ev} : c \in ClaimsOf(j)},
   verdicts |-> {[id |-> i, claim |-> verdicts[i].claim, value |-> verdicts[i].value] :
                   i \in {i \in DOMAIN verdicts : verdicts[i].job = j}}]

Results == INSTANCE JobResults WITH
             over <- {j \in Jobs : pc[j] = "over"},
             rows <- [j \in Jobs |-> ResultOf(j)]

\* Though runs clone each other's jobs, find each other's claims, write verdicts
\* about them and store sources for them, each adds to the results of its own job
\* only, and those of a finished job stand (JobResultService.java:32,
\* standard.py:176, standard.py:294).
ImplementsJobResults == Results!Spec

Column == INSTANCE JobStatus

\* The statements of a run change jobs.status only as readers of the column may
\* expect, also when a clone has written COMPLETE and then fails
\* (pipeline_router.py:171, standard.py:362).
StatusInOrder == [][Column!Next]_status
===============================================================================
