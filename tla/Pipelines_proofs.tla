--------------------------- MODULE Pipelines_proofs ---------------------------
(***************************************************************************)
(* Proofs about Pipelines for any set of jobs, any answers of the models   *)
(* and of the source pool, and any limits.                                 *)
(*                                                                         *)
(* Rows are never deleted, so what a run has seen of another job stays     *)
(* true (Growth).  OwnerInv says whose claims a run holds, may write about *)
(* and copies; ProgressInv what a run at a given place has written; the    *)
(* others (Further), proved with the help of these, how many overall       *)
(* verdicts there are, what is said without a judge, what is said last,    *)
(* and where the sources come from that are stored again.                  *)
(***************************************************************************)
EXTENDS Pipelines, TLAPS, SequenceTheorems, FiniteSetTheorems

KnownIsTotal == known = [j \in Jobs |-> known[j]]

\* The run that extracted the claim has judged it.
Judged(c) == \E k \in RowsOn(c) : verdicts[k].job = claims[c].job

Owned(j, c) == c \in ClaimId /\ (claims[c].job = j \/ Judged(c))

\* A claim that a run may hold: not a copy, since copies have no embedding.
Usable(j, c) == Owned(j, c) /\ claims[c].copy = 0

\* What job j may still write or copy.
Allowed(j) ==
  {row \in Row :
     /\ row.claim \in ClaimId
     /\ row.kind = "verdict" => Usable(j, row.claim) /\ row.value \in Values
     /\ row.kind = "claim" => claims[row.claim].job = old[j]
     /\ row.kind \in {"copySources", "copyVerdict"} =>
          /\ claims[row.claim].job = j /\ claims[row.claim].copy \in ClaimId
          /\ claims[claims[row.claim].copy].job = old[j]}

\* A run that has not begun has nothing to write: Begin chooses old.
QueuedIsIdle == \A j \in Jobs : pc[j] = "queued" => todo[j] = <<>>

CopiesAreNotFound == \A c \in ClaimId : claims[c].copy # 0 => ~claims[c].emb

TodoIsAllowed == \A j \in Jobs : todo[j] \in Seq(Allowed(j))

KnownIsOwned ==
  \A j \in Jobs :
    /\ \A i \in DOMAIN mine[j] : mine[j][i] \in DOMAIN known[j]
    /\ \A c \in DOMAIN known[j] : Usable(j, c)

VerdictsRefer ==
  \A i \in DOMAIN verdicts : verdicts[i].claim # Overall => verdicts[i].claim \in ClaimId

OwnerInv ==
  /\ TypeOK /\ KnownIsTotal /\ TodoIsAllowed /\ QueuedIsIdle /\ KnownIsOwned
  /\ CopiesAreNotFound /\ VerdictsRefer /\ FirstVerdictIsOwners /\ CloneCopiesVerdicts

\* No row is deleted or changes what it belongs to.
Growth ==
  /\ linked \subseteq linked'
  /\ \A j \in Jobs : bias[j] <= bias'[j]
  /\ \A c \in ClaimId : /\ c \in ClaimId'
                        /\ claims'[c].job = claims[c].job
                        /\ claims'[c].copy = claims[c].copy
                        /\ claims'[c].emb = claims[c].emb
  /\ \A i \in DOMAIN verdicts : i \in DOMAIN verdicts' /\ verdicts'[i] = verdicts[i]
  /\ \A j \in Jobs : pc[j] = "queued" \/ old'[j] = old[j]

-------------------------------------------------------------------------------
(* Sequences and listings *)

\* Subsets of the claims are finite, and a listing of one is a sequence over it.
LEMMA ListingsAreSequences ==
  ASSUME TypeOK, NEW S \in SUBSET ClaimId
  PROVE  /\ Cardinality(S) \in Nat
         /\ \A q \in Listings(S) : q \in Seq(S)
<1>1. IsFiniteSet(ClaimId)
  <2>1. Len(claims) \in Nat
    BY DEF TypeOK, TablesOK
  <2> QED BY <2>1, FS_Interval DEF ClaimId
<1>2. IsFiniteSet(S)
  BY <1>1, FS_Subset
<1>3. Cardinality(S) \in Nat
  BY <1>2, FS_CardinalityType
<1> QED BY <1>3 DEF Listings

\* compute_fallback_verdict gives verdicts of the two kinds.
LEMMA VerdictValues ==
  /\ \A ev : ClaimVerdict(ev) \in ClaimValues
  /\ \A vs : OverallVerdict(vs) \in OverallValues
BY DEF ClaimVerdict, OverallVerdict, ClaimValues, OverallValues

\* The jobs that can be cloned are jobs.
LEMMA ReusableJobs == ASSUME TypeOK, NEW j \in Jobs PROVE Reusable(j) \in SUBSET Jobs
BY JobAssumption DEF TypeOK, TablesOK, Reusable
-------------------------------------------------------------------------------
(* Nothing is deleted *)

LEMMA StepGrowth ==
  ASSUME TypeOK, NEW j \in Jobs, Step(j)
  PROVE  Growth
<1> USE DEF TypeOK, TablesOK, RunsOK, HeldOK, Growth, ClaimId, db, held, locals, At
<1>1. CASE Begin(j)
  BY <1>1 DEF Begin
<1>2. CASE CopyBias(j)
  BY <1>2 DEF CopyBias
<1>3. CASE CopyClaim(j)
  BY <1>3 DEF CopyClaim
<1>4. CASE CopySources(j)
  BY <1>4 DEF CopySources
<1>5. CASE CopyVerdict(j)
  <2>1. verdicts' = verdicts \/ \E v : verdicts' = Append(verdicts, v)
    BY <1>5 DEF CopyVerdict
  <2>2. CASE verdicts' = verdicts
    BY <1>5, <2>2 DEF CopyVerdict
  <2>3. ASSUME NEW v, verdicts' = Append(verdicts, v)
        PROVE  Growth
    BY <1>5, <2>3 DEF CopyVerdict
  <2> QED BY <2>1, <2>2, <2>3
<1>6. CASE CopyOverall(j)
  <2>1. verdicts' = verdicts \/ \E v : verdicts' = Append(verdicts, v)
    BY <1>6 DEF CopyOverall
  <2>2. CASE verdicts' = verdicts
    BY <1>6, <2>2 DEF CopyOverall
  <2>3. ASSUME NEW v, verdicts' = Append(verdicts, v)
        PROVE  Growth
    BY <1>6, <2>3 DEF CopyOverall
  <2> QED BY <2>1, <2>2, <2>3
<1>7. CASE CopyStatus(j)
  BY <1>7 DEF CopyStatus
<1>8. CASE CopyAudit(j)
  BY <1>8 DEF CopyAudit
<1>9. CASE CloneFails(j)
  BY <1>9 DEF CloneFails
<1>10. CASE Route(j)
  BY <1>10 DEF Route
<1>11. CASE FastAnswer(j)
  BY <1>11 DEF FastAnswer
<1>12. CASE Extract(j)
  BY <1>12 DEF Extract
<1>13. CASE FallBack(j)
  BY <1>13 DEF FallBack
<1>14. CASE Miss(j)
  BY <1>14 DEF Miss
<1>15. CASE Hit(j)
  BY <1>15 DEF Hit
<1>16. CASE FastConclude(j)
  BY <1>16 DEF FastConclude, Conclude
<1>17. CASE Judge(j)
  BY <1>17 DEF Judge, Conclude
<1>18. CASE JudgeFails(j)
  BY <1>18 DEF JudgeFails, Conclude
<1>19. CASE AllCached(j)
  BY <1>19 DEF AllCached, Conclude
<1>20. CASE Recover(j)
  BY <1>20 DEF Recover
<1>21. CASE InsertBias(j)
  BY <1>21 DEF InsertBias
<1>22. CASE InsertSource(j)
  BY <1>22 DEF InsertSource
<1>23. CASE SourcesDone(j)
  BY <1>23 DEF SourcesDone
<1>24. CASE InsertVerdict(j)
  BY <1>24 DEF InsertVerdict
<1>25. CASE InsertOverall(j)
  BY <1>25 DEF InsertOverall
<1>26. CASE SetStatus(j)
  BY <1>26 DEF SetStatus
<1>27. CASE Fail(j)
  BY <1>27 DEF Fail
<1> QED BY <1>1, <1>2, <1>3, <1>4, <1>5, <1>6, <1>7, <1>8, <1>9, <1>10, <1>11, <1>12, <1>13, <1>14, <1>15, <1>16, <1>17, <1>18, <1>19, <1>20, <1>21, <1>22, <1>23, <1>24, <1>25, <1>26, <1>27 DEF Step
-------------------------------------------------------------------------------
(* Types *)


\* A row that is popped may be written.
LEMMA HeadIsAllowed ==
  ASSUME OwnerInv, NEW j \in Jobs, todo[j] # <<>>
  PROVE  /\ Head(todo[j]) \in Allowed(j)
         /\ Tail(todo[j]) \in Seq(Allowed(j))
BY HeadTailProperties DEF OwnerInv, TodoIsAllowed

\* The variables of a run that has ended.
LEMMA EndTypes ==
  ASSUME TypeOK, NEW j \in Jobs, Ends(j)
  PROVE  /\ pc' \in [Jobs -> Places]
         /\ pending' \in [Jobs -> Seq(Topics)]
         /\ final' \in [Jobs -> [value : OverallValues,
                                  status : {"COMPLETE", "PARTIAL", "FAILED"}]]
BY EmptySeq DEF TypeOK, RunsOK, Ends, Goto, Places, NoResult, OverallValues

\* The rows of the table verdicts.
LEMMA VerdictRowTypes ==
  ASSUME TablesOK, NEW i \in DOMAIN verdicts
  PROVE  /\ verdicts[i] \in Verdict
         /\ verdicts[i].job \in Jobs /\ verdicts[i].claim \in Nat
         /\ verdicts[i].value \in Values
<1>1. verdicts \in Seq(Verdict) /\ i \in 1 .. Len(verdicts)
  BY DEF TablesOK
<1>2. verdicts[i] \in Verdict
  BY <1>1, ElementOfSeq
<1> QED BY <1>2 DEF Verdict

\* A verdict copied for a job has the type of a verdict.
LEMMA CopiedVerdict ==
  ASSUME TablesOK, NEW j \in Jobs, NEW i \in DOMAIN verdicts, NEW n \in Nat
  PROVE  Append(verdicts, [job |-> j, claim |-> n, value |-> verdicts[i].value])
           \in Seq(Verdict)
<1>1. [job |-> j, claim |-> n, value |-> verdicts[i].value] \in Verdict
  BY VerdictRowTypes DEF Verdict
<1> QED BY <1>1, AppendProperties DEF TablesOK

LEMMA StepTables ==
  ASSUME OwnerInv, NEW j \in Jobs, Step(j)
  PROVE  TablesOK'
<1> USE JobAssumption, AnswerAssumption, PoolAssumption
    DEF OwnerInv, TypeOK, TablesOK, db
<1>1. CASE Begin(j)
  BY <1>1 DEF Begin
<1>2. CASE CopyBias(j)
  BY <1>2 DEF CopyBias
<1>3. CASE CopyClaim(j)
  <2> DEFINE c == Head(todo[j]).claim
             new == [job |-> j, topic |-> claims[c].topic, emb |-> FALSE, ev |-> <<>>,
                     copy |-> c]
  <2>1. c \in ClaimId
    BY <1>3, HeadIsAllowed DEF CopyClaim, Pops, Allowed
  <2>2. claims[c] \in Claim /\ c \in Nat
    BY <2>1 DEF ClaimId
  <2>3. new \in Claim
    BY <2>2, EmptySeq DEF Claim
  <2>4. claims' = Append(claims, new)
    BY <1>3 DEF CopyClaim
  <2>5. claims' \in Seq(Claim)
    BY <2>3, <2>4, AppendProperties
  <2> QED BY <1>3, <2>5 DEF CopyClaim
<1>4. CASE CopySources(j)
  BY <1>4 DEF CopySources
<1>5. CASE CopyVerdict(j)
  <2>1. verdicts' = verdicts \/ \E i \in DOMAIN verdicts, n \in Nat :
          verdicts' = Append(verdicts, [job |-> j, claim |-> n, value |-> verdicts[i].value])
    BY <1>5, HeadIsAllowed DEF CopyVerdict, RowsOn, Pops, Allowed, Row, Overall
  <2>2. ASSUME verdicts' = verdicts
        PROVE  verdicts' \in Seq(Verdict)
    BY <2>2
  <2>3. ASSUME NEW i \in DOMAIN verdicts, NEW n \in Nat,
               verdicts' = Append(verdicts, [job |-> j, claim |-> n,
                                             value |-> verdicts[i].value])
        PROVE  verdicts' \in Seq(Verdict)
    BY <2>3, CopiedVerdict
  <2>4. verdicts' \in Seq(Verdict)
    BY <2>1, <2>2, <2>3
  <2> QED BY <1>5, <2>4 DEF CopyVerdict
<1>6. CASE CopyOverall(j)
  <2>1. verdicts' = verdicts \/ \E i \in DOMAIN verdicts, n \in Nat :
          verdicts' = Append(verdicts, [job |-> j, claim |-> n, value |-> verdicts[i].value])
    BY <1>6, HeadIsAllowed DEF CopyOverall, RowsOn, Pops, Allowed, Row, Overall
  <2>2. ASSUME verdicts' = verdicts
        PROVE  verdicts' \in Seq(Verdict)
    BY <2>2
  <2>3. ASSUME NEW i \in DOMAIN verdicts, NEW n \in Nat,
               verdicts' = Append(verdicts, [job |-> j, claim |-> n,
                                             value |-> verdicts[i].value])
        PROVE  verdicts' \in Seq(Verdict)
    BY <2>3, CopiedVerdict
  <2>4. verdicts' \in Seq(Verdict)
    BY <2>1, <2>2, <2>3
  <2> QED BY <1>6, <2>4 DEF CopyOverall
<1>7. CASE CopyStatus(j)
  BY <1>7 DEF CopyStatus
<1>8. CASE CopyAudit(j)
  BY <1>8 DEF CopyAudit, Ends
<1>9. CASE CloneFails(j)
  BY <1>9 DEF CloneFails
<1>10. CASE Route(j)
  BY <1>10 DEF Route
<1>11. CASE FastAnswer(j)
  BY <1>11 DEF FastAnswer
<1>12. CASE Extract(j)
  BY <1>12 DEF Extract
<1>13. CASE FallBack(j)
  BY <1>13 DEF FallBack
<1>14. CASE Miss(j)
  <2>1. PICK emb \in BOOLEAN :
          claims' = Append(claims, [job |-> j, topic |-> Head(pending[j]), emb |-> emb,
                                    ev |-> <<>>, copy |-> 0])
    BY <1>14 DEF Miss
  <2>2. Head(pending[j]) \in Topics
    BY <1>14, HeadTailProperties DEF Miss, RunsOK
  <2>3. [job |-> j, topic |-> Head(pending[j]), emb |-> emb, ev |-> <<>>, copy |-> 0] \in Claim
    BY <2>2, EmptySeq DEF Claim
  <2>4. claims' \in Seq(Claim)
    BY <2>1, <2>3, AppendProperties
  <2> QED BY <1>14, <2>4 DEF Miss
<1>15. CASE Hit(j)
  BY <1>15 DEF Hit
<1>16. CASE FastConclude(j)
  BY <1>16 DEF FastConclude, Conclude
<1>17. CASE Judge(j)
  BY <1>17 DEF Judge, Conclude
<1>18. CASE JudgeFails(j)
  BY <1>18 DEF JudgeFails, Conclude
<1>19. CASE AllCached(j)
  BY <1>19 DEF AllCached, Conclude
<1>20. CASE Recover(j)
  BY <1>20 DEF Recover
<1>21. CASE InsertBias(j)
  BY <1>21 DEF InsertBias
<1>22. CASE InsertSource(j)
  <2> DEFINE row == Head(todo[j])
             c == row.claim
             new == [claims[c] EXCEPT !.ev = Append(claims[c].ev, Head(row.ev))]
  <2>1. row \in Row /\ c \in ClaimId /\ row.ev # <<>>
    BY <1>22, HeadIsAllowed DEF InsertSource, Pops, Allowed
  <2>2. Head(row.ev) \in Source
    BY <2>1, HeadTailProperties DEF Row
  <2>3. claims[c] \in Claim /\ c \in 1 .. Len(claims)
    BY <2>1 DEF ClaimId
  <2>4. Append(claims[c].ev, Head(row.ev)) \in Seq(Source)
    BY <2>2, <2>3, AppendProperties DEF Claim
  <2>5. new \in Claim
    BY <2>3, <2>4 DEF Claim
  <2>6. claims' = [claims EXCEPT ![c] = new]
    BY <1>22, <2>3 DEF InsertSource
  <2>7. claims' \in Seq(Claim)
    BY <2>3, <2>5, <2>6, ExceptSeq
  <2> QED BY <1>22, <2>7 DEF InsertSource
<1>23. CASE SourcesDone(j)
  BY <1>23 DEF SourcesDone
<1>24. CASE InsertVerdict(j)
  <2> DEFINE row == Head(todo[j])
             new == [job |-> j, claim |-> row.claim, value |-> row.value]
  <2>1. row.claim \in Nat /\ row.value \in Values
    BY <1>24, HeadIsAllowed DEF InsertVerdict, Pops, Allowed, Row
  <2>2. new \in Verdict
    BY <2>1 DEF Verdict
  <2>3. verdicts' \in Seq(Verdict)
    BY <1>24, <2>2, AppendProperties DEF InsertVerdict
  <2> QED BY <1>24, <2>3 DEF InsertVerdict
<1>25. CASE InsertOverall(j)
  <2>1. final[j].value \in Values
    BY DEF RunsOK, Values
  <2>2. [job |-> j, claim |-> Overall, value |-> final[j].value] \in Verdict
    BY <2>1 DEF Verdict, Overall
  <2>3. verdicts' \in Seq(Verdict)
    BY <1>25, <2>2, AppendProperties DEF InsertOverall
  <2> QED BY <1>25, <2>3 DEF InsertOverall
<1>26. CASE SetStatus(j)
  <2>1. final[j].status \in {"COMPLETE", "PARTIAL", "FAILED"}
    BY DEF RunsOK
  <2> QED BY <1>26, <2>1 DEF SetStatus
<1>27. CASE Fail(j)
  BY <1>27 DEF Fail, Ends
<1> QED BY <1>1, <1>2, <1>3, <1>4, <1>5, <1>6, <1>7, <1>8, <1>9, <1>10, <1>11, <1>12, <1>13, <1>14, <1>15, <1>16, <1>17, <1>18, <1>19, <1>20, <1>21, <1>22, <1>23, <1>24, <1>25, <1>26, <1>27 DEF Step

LEMMA StepRuns ==
  ASSUME OwnerInv, NEW j \in Jobs, Step(j)
  PROVE  RunsOK'
<1> USE JobAssumption, AnswerAssumption
    DEF OwnerInv, TypeOK, RunsOK, held, locals, At, Goto, Places, NoResult
<1>1. CASE Begin(j)
  <2>1. old' = old \/ \E o \in Jobs : old' = [old EXCEPT ![j] = o]
    BY <1>1, ReusableJobs DEF Begin
  <2>2. pc' \in [Jobs -> Places]
    BY <1>1 DEF Begin
  <2>3. old' \in [Jobs -> Jobs \cup {NoJob}]
    BY <2>1
  <2>4. UNCHANGED <<pending, judge, final>>
    BY <1>1 DEF Begin
  <2> QED BY <2>2, <2>3, <2>4
<1>2. CASE CopyBias(j)
  BY <1>2 DEF CopyBias
<1>3. CASE CopyClaim(j)
  BY <1>3 DEF CopyClaim
<1>4. CASE CopySources(j)
  BY <1>4 DEF CopySources
<1>5. CASE CopyVerdict(j)
  BY <1>5 DEF CopyVerdict
<1>6. CASE CopyOverall(j)
  BY <1>6 DEF CopyOverall
<1>7. CASE CopyStatus(j)
  BY <1>7 DEF CopyStatus
<1>8. CASE CopyAudit(j)
  BY <1>8, EndTypes DEF CopyAudit
<1>9. CASE CloneFails(j)
  BY <1>9 DEF CloneFails
<1>10. CASE Route(j)
  BY <1>10 DEF Route
<1>11. CASE FastAnswer(j)
  BY <1>11 DEF FastAnswer
<1>12. CASE Extract(j)
  BY <1>12 DEF Extract
<1>13. CASE FallBack(j)
  BY <1>13 DEF FallBack
<1>14. CASE Miss(j)
  BY <1>14 DEF Miss, Listed
<1>15. CASE Hit(j)
  BY <1>15 DEF Hit, Listed
<1>16. CASE FastConclude(j)
  BY <1>16 DEF FastConclude, Conclude
<1>17. CASE Judge(j)
  BY <1>17 DEF Judge, Conclude
<1>18. CASE JudgeFails(j)
  BY <1>18, VerdictValues DEF JudgeFails, Conclude, FallbackOverall
<1>19. CASE AllCached(j)
  BY <1>19, VerdictValues DEF AllCached, Conclude, FallbackOverall
<1>20. CASE Recover(j)
  BY <1>20 DEF Recover, OverallValues
<1>21. CASE InsertBias(j)
  BY <1>21 DEF InsertBias
<1>22. CASE InsertSource(j)
  BY <1>22 DEF InsertSource
<1>23. CASE SourcesDone(j)
  BY <1>23 DEF SourcesDone
<1>24. CASE InsertVerdict(j)
  BY <1>24 DEF InsertVerdict
<1>25. CASE InsertOverall(j)
  BY <1>25 DEF InsertOverall
<1>26. CASE SetStatus(j)
  BY <1>26, EndTypes DEF SetStatus
<1>27. CASE Fail(j)
  BY <1>27, EndTypes DEF Fail
<1> QED BY <1>1, <1>2, <1>3, <1>4, <1>5, <1>6, <1>7, <1>8, <1>9, <1>10, <1>11, <1>12, <1>13, <1>14, <1>15, <1>16, <1>17, <1>18, <1>19, <1>20, <1>21, <1>22, <1>23, <1>24, <1>25, <1>26, <1>27 DEF Step
-------------------------------------------------------------------------------
(* What a run holds and is going to write *)

\* What was true of a job and a claim stays true.
LEMMA GrowthKeeps ==
  ASSUME OwnerInv, TablesOK', Growth, NEW j \in Jobs
  PROVE  /\ ClaimId \subseteq ClaimId'
         /\ \A c \in ClaimId : Judged(c) => Judged(c)'
         /\ \A c : Owned(j, c) => Owned(j, c)'
         /\ \A c : Usable(j, c) => Usable(j, c)'
         /\ todo[j] \in Seq(Allowed(j)')
<1>1. ClaimId \subseteq ClaimId'
  BY DEF Growth
<1>2. ASSUME NEW c \in ClaimId, Judged(c)  PROVE Judged(c)'
  BY <1>2 DEF Growth, Judged, RowsOn
<1>3. ASSUME NEW c, Owned(j, c)  PROVE Owned(j, c)'
  BY <1>1, <1>2, <1>3 DEF Owned, Growth
<1>4. ASSUME NEW c, Usable(j, c)  PROVE Usable(j, c)'
  BY <1>3, <1>4 DEF Usable, Owned, Growth
<1>5. CASE pc[j] = "queued"
  <2>1. todo[j] = <<>>
    BY <1>5 DEF OwnerInv, QueuedIsIdle
  <2> QED BY <1>1, <1>2, <1>3, <1>4, <2>1, EmptySeq
<1>6. CASE old'[j] = old[j]
  <2>1. ASSUME NEW row \in Allowed(j)  PROVE row \in Allowed(j)'
    BY <1>1, <1>4, <1>6 DEF Allowed, Growth
  <2>2. todo[j] \in Seq(Allowed(j)')
    BY <2>1, SeqMonotonic DEF OwnerInv, TodoIsAllowed
  <2> QED BY <1>1, <1>2, <1>3, <1>4, <2>2
<1> QED BY <1>5, <1>6 DEF Growth

\* A new row next to those that are left.
LEMMA PutFirst ==
  ASSUME NEW S, NEW s \in Seq(S), NEW e \in S
  PROVE  <<e>> \o s \in Seq(S)
<1>1. <<e>> \in Seq(S)
  OBVIOUS
<1> QED BY <1>1, ConcatProperties

\* Setting the stances leaves a sequence of sources.
LEMMA ClassifiedSources ==
  ASSUME NEW ev \in Seq(Source), NEW cl \in ClassifiedAs(ev)
  PROVE  cl \in Seq(Source)
<1>1. PICK st \in [DOMAIN ev -> Readings] :
        cl = [i \in DOMAIN ev |-> [ev[i] EXCEPT !.stance = st[i]]]
  BY DEF ClassifiedAs
<1>2. ASSUME NEW i \in 1 .. Len(ev)
      PROVE  [ev[i] EXCEPT !.stance = st[i]] \in Source
  <2>1. ev[i] \in Source
    BY ElementOfSeq
  <2> QED BY <2>1, AnswerAssumption DEF Source, Stances
<1>3. DOMAIN ev = 1 .. Len(ev) /\ Len(ev) \in Nat
  BY LenProperties
<1> DEFINE e(i) == [ev[i] EXCEPT !.stance = st[i]]
<1>4. cl = [i \in 1 .. Len(ev) |-> e(i)]
  BY <1>1, <1>3
<1>5. \A i \in 1 .. Len(ev) : e(i) \in Source
  BY <1>2
<1> HIDE DEF e
<1> QED BY <1>3, <1>4, <1>5

LEMMA StepTodo ==
  ASSUME OwnerInv, TablesOK', Growth, NEW j \in Jobs, Step(j)
  PROVE  \E rows \in Seq(Allowed(j)') : todo' = [todo EXCEPT ![j] = rows]
<1>a. todo \in [Jobs -> Seq(Row)]
  BY DEF OwnerInv, TypeOK, HeldOK
<1>b. todo[j] \in Seq(Allowed(j)')
  BY GrowthKeeps
<1>c. <<>> \in Seq(Allowed(j)')
  BY EmptySeq
<1>d. ASSUME todo[j] # <<>>
      PROVE  Tail(todo[j]) \in Seq(Allowed(j)')
  BY <1>d, <1>b, HeadTailProperties
<1>e. CASE UNCHANGED todo
  <2>1. todo' = [todo EXCEPT ![j] = todo[j]]
    BY <1>a, <1>e
  <2> QED BY <1>b, <2>1
<1>f. CASE todo' = [todo EXCEPT ![j] = <<>>]
  BY <1>c, <1>f
<1>g. CASE todo[j] # <<>> /\ todo' = [todo EXCEPT ![j] = Tail(todo[j])]
  BY <1>d, <1>g
<1>h. ASSUME NEW c \in ClaimId', NEW ev \in Seq(Source)
      PROVE  SourceRows(c, ev) \in Allowed(j)'
  <2>1. c \in Nat
    BY <1>h DEF ClaimId
  <2> QED BY <2>1, <1>h DEF Allowed, SourceRows, Row, RowKinds
<1>i. ASSUME NEW c, Usable(j, c)', NEW v \in Values
      PROVE  VerdictRow(c, v) \in Allowed(j)'
  <2>1. c \in Nat /\ c \in ClaimId'
    BY <1>i DEF ClaimId, Owned, Usable
  <2> QED BY <2>1, <1>i, EmptySeq DEF Allowed, VerdictRow, Row, RowKinds
<1>k. ASSUME NEW c \in ClaimId', NEW kind \in RowKinds, kind # "verdict",
             kind = "claim" => claims'[c].job = old'[j],
             kind # "claim" => /\ claims'[c].job = j /\ claims'[c].copy \in ClaimId'
                               /\ claims'[claims'[c].copy].job = old'[j]
      PROVE  Copy(kind, c) \in Allowed(j)'
  <2>1. c \in Nat
    BY <1>k DEF ClaimId
  <2> QED BY <2>1, <1>k, EmptySeq DEF Allowed, Copy, Row
\* The rows a run writes once its claims are judged.
<1>l. ASSUME NEW who, NEW value,
             NEW srcs \in Seq(Allowed(j)'), NEW vs \in Seq(Allowed(j)'),
             NEW ws \in Seq(Allowed(j)'),
             Conclude(j, who, srcs \o vs \o ws, value)
      PROVE  \E rows \in Seq(Allowed(j)') : todo' = [todo EXCEPT ![j] = rows]
  BY <1>l, ConcatProperties DEF Conclude
<1>m. ASSUME NEW evs, \A c \in Missed(j) : evs[c] \in Seq(Source)
      PROVE  SourcesOf(j, evs) \in Seq(Allowed(j)')
  <2>1. \A i \in DOMAIN mine[j] :
          mine[j][i] \in ClaimId' /\ known[j][mine[j][i]].ev \in Seq(Source)
    BY GrowthKeeps DEF OwnerInv, TypeOK, HeldOK, KnownIsOwned, Result
  <2>2. \A i \in DOMAIN mine[j] : SourcesOf(j, evs)[i] \in Allowed(j)'
    BY <2>1, <1>m, <1>h DEF SourcesOf
  <2>3. mine[j] \in Seq(ClaimId)
    BY DEF OwnerInv, TypeOK, HeldOK
  <2> QED BY <2>2, <2>3 DEF SourcesOf
<1>n. ASSUME NEW q \in Seq(DOMAIN known[j])
      PROVE  FallbackRows(j, q) \in Seq(Allowed(j)')
  <2>1. ASSUME NEW i \in DOMAIN q
        PROVE  FallbackRows(j, q)[i] \in Allowed(j)'
    BY <2>1, <1>n, <1>i, GrowthKeeps, VerdictValues
       DEF OwnerInv, KnownIsOwned, FallbackRows, Values
  <2> QED BY <2>1 DEF FallbackRows
<1>o. ASSUME NEW q \in Seq(Cached(j))
      PROVE  CachedRows(j, q) \in Seq(Allowed(j)')
  <2>1. ASSUME NEW i \in DOMAIN q
        PROVE  CachedRows(j, q)[i] \in Allowed(j)'
    <3>1. q[i] \in DOMAIN known[j] /\ known[j][q[i]].value # NotCached
      BY <2>1 DEF Cached
    <3>2. Usable(j, q[i])' /\ known[j][q[i]].value \in Values
      BY <3>1, GrowthKeeps DEF OwnerInv, TypeOK, HeldOK, KnownIsOwned, Result
    <3> QED BY <3>2, <2>1, <1>i DEF CachedRows
  <2> QED BY <2>1 DEF CachedRows
<1>p. ASSUME NEW a \in Answers(Missed(j))
      PROVE  VerdictRows(a) \in Seq(Allowed(j)')
  <2>1. PICK n \in 0 .. Cardinality(Missed(j)) :
          a \in [1 .. n -> Missed(j) \X Judgements]
    BY <1>p DEF Answers
  <2>2. n \in Nat
    <3>1. Missed(j) \in SUBSET ClaimId
      BY DEF OwnerInv, TypeOK, HeldOK, Missed
    <3> QED BY <3>1, ListingsAreSequences DEF OwnerInv
  <2>3. ASSUME NEW i \in 1 .. n
        PROVE  VerdictRow(a[i][1], a[i][2]) \in Allowed(j)'
    <3>1. a[i] \in Missed(j) \X Judgements
      BY <2>1
    <3>2. a[i][1] \in DOMAIN known[j] /\ a[i][2] \in Values
      BY <3>1, AnswerAssumption DEF Missed, Values
    <3>3. Usable(j, a[i][1])'
      BY <3>2, GrowthKeeps DEF OwnerInv, KnownIsOwned
    <3> QED BY <3>2, <3>3, <1>i
  <2> QED BY <2>1, <2>2, <2>3 DEF VerdictRows
<1>1. CASE Begin(j) \/ CopyOverall(j) \/ CopyStatus(j) \/ Route(j) \/ FastAnswer(j)
           \/ Extract(j) \/ FallBack(j) \/ Miss(j) \/ Hit(j) \/ Recover(j)
           \/ InsertBias(j) \/ InsertOverall(j)
  BY <1>1, <1>e
     DEF Begin, CopyOverall, CopyStatus, Route, FastAnswer, Extract, FallBack, Miss, Hit,
         Recover, InsertBias, InsertOverall
<1>2. CASE CloneFails(j) \/ CopyAudit(j) \/ SetStatus(j) \/ Fail(j)
  BY <1>2, <1>f DEF CloneFails, CopyAudit, SetStatus, Fail, Ends
<1>3. CASE CopyVerdict(j) \/ InsertVerdict(j) \/ SourcesDone(j)
  BY <1>3, <1>g DEF CopyVerdict, InsertVerdict, SourcesDone, Pops
<1>4. CASE CopyBias(j)
  <2>1. PICK q \in Listings(ClaimsOf(old[j])) :
          todo' = [todo EXCEPT ![j] = [i \in DOMAIN q |-> Copy("claim", q[i])]]
    BY <1>4 DEF CopyBias
  <2>2. q \in Seq(ClaimId)
    <3>1. ClaimsOf(old[j]) \in SUBSET ClaimId
      BY DEF ClaimsOf
    <3>2. q \in Seq(ClaimsOf(old[j]))
      BY <3>1, ListingsAreSequences DEF OwnerInv
    <3> QED BY <3>1, <3>2, SeqMonotonic
  <2>3. ASSUME NEW i \in DOMAIN q
        PROVE  Copy("claim", q[i]) \in Allowed(j)'
    <3>1. q[i] \in ClaimId' /\ claims[q[i]].job = old[j]
      BY <2>2, GrowthKeeps DEF Listings, ClaimsOf
    <3>2. claims' = claims /\ old' = old
      BY <1>4 DEF CopyBias
    <3> QED BY <3>1, <3>2, <1>k DEF RowKinds
  <2> DEFINE rows == [i \in DOMAIN q |-> Copy("claim", q[i])]
  <2>4. rows \in Seq(Allowed(j)')
    BY <2>2, <2>3
  <2>5. todo' = [todo EXCEPT ![j] = rows]
    BY <2>1
  <2> HIDE DEF rows
  <2> QED BY <2>4, <2>5
<1>5. CASE CopyClaim(j)
  <2> DEFINE c == Head(todo[j]).claim
             n == Len(claims) + 1
             new == [job |-> j, topic |-> claims[c].topic, emb |-> FALSE, ev |-> <<>>,
                     copy |-> c]
             rows == <<Copy("copySources", n), Copy("copyVerdict", n)>>
  <2>1. c \in ClaimId /\ todo[j] # <<>>
    BY <1>5, HeadIsAllowed DEF CopyClaim, Pops, Allowed
  <2>2. claims' = Append(claims, new) /\ todo' = [todo EXCEPT ![j] = Tail(todo[j]) \o rows]
    BY <1>5, <1>a DEF CopyClaim
  <2>3. /\ n \in ClaimId' /\ c \in ClaimId' /\ claims'[n] = new
        /\ claims'[c].job = claims[c].job
    BY <2>1, <2>2 DEF ClaimId, OwnerInv, TypeOK, TablesOK
  <2>3a. claims[c].job = old[j] /\ old' = old
    BY <1>5, HeadIsAllowed DEF CopyClaim, Pops, Allowed
  <2>4. rows \in Seq(Allowed(j)')
    BY <2>3, <2>3a, <1>k DEF RowKinds
  <2>5. Tail(todo[j]) \o rows \in Seq(Allowed(j)')
    BY <2>1, <2>4, <1>d, ConcatProperties
  <2> QED BY <2>2, <2>5
<1>6. CASE CopySources(j)
  <2> DEFINE n == Head(todo[j]).claim
             ev == claims[claims[n].copy].ev
  <2>1. n \in ClaimId /\ claims[n].copy \in ClaimId /\ todo[j] # <<>>
    BY <1>6, HeadIsAllowed DEF CopySources, Pops, Allowed
  <2>2. ev \in Seq(Source)
    <3>1. claims[claims[n].copy] \in Claim
      BY <2>1, ElementOfSeq DEF ClaimId, OwnerInv, TypeOK, TablesOK
    <3> QED BY <3>1 DEF Claim
  <2>3. <<SourceRows(n, ev)>> \o Tail(todo[j]) \in Seq(Allowed(j)')
    BY <2>1, <2>2, <1>d, <1>h, PutFirst, GrowthKeeps
  <2>4. todo' = [todo EXCEPT ![j] = <<SourceRows(n, ev)>> \o Tail(todo[j])]
    BY <1>6, <1>a DEF CopySources
  <2> QED BY <2>3, <2>4
<1>7. CASE InsertSource(j)
  <2> DEFINE row == Head(todo[j])
  <2>1. row \in Row /\ row.claim \in ClaimId /\ row.ev # <<>> /\ todo[j] # <<>>
    BY <1>7, HeadIsAllowed DEF InsertSource, Pops, Allowed
  <2>2. Tail(row.ev) \in Seq(Source)
    BY <2>1, HeadTailProperties DEF Row
  <2>3. <<SourceRows(row.claim, Tail(row.ev))>> \o Tail(todo[j]) \in Seq(Allowed(j)')
    BY <2>1, <2>2, <1>d, <1>h, PutFirst, GrowthKeeps
  <2>4. todo' = [todo EXCEPT ![j] = <<SourceRows(row.claim, Tail(row.ev))>> \o Tail(todo[j])]
    BY <1>7, <1>a DEF InsertSource
  <2> QED BY <2>3, <2>4
<1>r. /\ Missed(j) \in SUBSET ClaimId /\ Cached(j) \in SUBSET ClaimId
      /\ Missed(j) \subseteq DOMAIN known[j] /\ Cached(j) \subseteq DOMAIN known[j]
  BY DEF OwnerInv, TypeOK, HeldOK, Missed, Cached
<1>s. SourcesOf(j, AsFound(j)) \in Seq(Allowed(j)')
  <2>1. \A c \in Missed(j) : AsFound(j)[c] \in Seq(Source)
    BY DEF OwnerInv, TypeOK, HeldOK, AsFound, Missed, Result
  <2> QED BY <2>1, <1>m
<1>t. ASSUME NEW q \in Listings(Cached(j))
      PROVE  CachedRows(j, q) \in Seq(Allowed(j)')
  BY <1>o, <1>r, ListingsAreSequences DEF OwnerInv
<1>8. CASE FastConclude(j)
  <2>1. PICK a \in Answers(Missed(j)), v \in Opinions :
          Conclude(j, "model", SourcesOf(j, AsFound(j)) \o VerdictRows(a), v)
    BY <1>8 DEF FastConclude
  <2>2. SourcesOf(j, AsFound(j)) \o VerdictRows(a) \in Seq(Allowed(j)')
    BY <1>s, <1>p, ConcatProperties
  <2> QED BY <2>1, <2>2 DEF Conclude
<1>9. CASE Judge(j)
  <2>1. PICK a \in Answers(Missed(j)), q \in Listings(Cached(j)), v \in Opinions,
             evs \in Classified(j) :
          Conclude(j, "model", SourcesOf(j, evs) \o VerdictRows(a) \o CachedRows(j, q), v)
    BY <1>9 DEF Judge
  <2>2. SourcesOf(j, evs) \in Seq(Allowed(j)')
    <3>2. ASSUME NEW c \in Missed(j)
          PROVE  evs[c] \in Seq(Source)
      <4>1. known[j][c].ev \in Seq(Source)
        BY <1>r DEF OwnerInv, TypeOK, HeldOK, Result
      <4> QED BY <4>1, ClassifiedSources DEF Classified
    <3> QED BY <3>2, <1>m
  <2> QED BY <2>1, <2>2, <1>p, <1>t, <1>l
<1>10. CASE JudgeFails(j)
  <2>1. PICK m \in Listings(Missed(j)), q \in Listings(Cached(j)) :
          Conclude(j, "fallback",
                   SourcesOf(j, AsFound(j)) \o FallbackRows(j, m) \o CachedRows(j, q),
                   FallbackOverall(j, m))
    BY <1>10 DEF JudgeFails
  <2>2. m \in Seq(DOMAIN known[j])
    BY <1>r, ListingsAreSequences, SeqMonotonic DEF OwnerInv
  <2>3. FallbackRows(j, m) \in Seq(Allowed(j)')
    BY <2>2, <1>n
  <2> QED BY <2>1, <2>3, <1>s, <1>t, <1>l
<1>11. CASE AllCached(j)
  <2>1. PICK q \in Listings(Cached(j)) :
          Conclude(j, "cache",
                   SourcesOf(j, <<>>) \o FallbackRows(j, mine[j]) \o CachedRows(j, q),
                   FallbackOverall(j, mine[j]))
    BY <1>11 DEF AllCached
  <2>2. SourcesOf(j, <<>>) \in Seq(Allowed(j)')
    BY <1>11, <1>m DEF AllCached
  <2>3. mine[j] \in Seq(DOMAIN known[j])
    BY DEF OwnerInv, TypeOK, HeldOK, KnownIsOwned
  <2>4. FallbackRows(j, mine[j]) \in Seq(Allowed(j)')
    BY <2>3, <1>n
  <2> QED BY <2>1, <2>2, <2>4, <1>t, <1>l
<1> QED BY <1>1, <1>2, <1>3, <1>4, <1>5, <1>6, <1>7, <1>8, <1>9, <1>10, <1>11 DEF Step

\* All of the sources in ev are in the table, for the claim c.
StoredAt(c, ev) ==
  \A k \in DOMAIN ev : \E m \in DOMAIN claims[c].ev : claims[c].ev[m] = ev[k]

\* What a cache hit takes over.
LEMMA HitFinds ==
  ASSUME OwnerInv, NEW j \in Jobs, Hit(j)
  PROVE  \E c \in Similar(j) : \E i \in NewestOn(c), ev \in Seq(Source) :
           Learn(j, c, ev, verdicts[i].value) /\ Listed(j, c) /\ StoredAt(c, ev)
<1>1. PICK c \in Similar(j) :
        \E i \in NewestOn(c), n \in 0 .. Len(claims[c].ev) :
          Learn(j, c, SubSeq(claims[c].ev, 1, n), verdicts[i].value) /\ Listed(j, c)
  BY DEF Hit
<1>2. PICK i \in NewestOn(c), n \in 0 .. Len(claims[c].ev) :
        Learn(j, c, SubSeq(claims[c].ev, 1, n), verdicts[i].value) /\ Listed(j, c)
  BY <1>1
<1>3. PICK s : s = claims[c].ev
  OBVIOUS
<1>4. s \in Seq(Source)
  <2>1. claims[c] \in Claim
    BY ElementOfSeq DEF OwnerInv, TypeOK, TablesOK, ClaimId, Similar
  <2> QED BY <1>3, <2>1 DEF Claim
<1>5. n \in 0 .. Len(s)
  BY <1>3
<1>6. /\ SubSeq(s, 1, n) \in Seq(Source)
      /\ \A k \in DOMAIN SubSeq(s, 1, n) : \E m \in DOMAIN s : s[m] = SubSeq(s, 1, n)[k]
  <2>1. Len(s) \in Nat /\ DOMAIN s = 1 .. Len(s) /\ \A k \in 1 .. Len(s) : s[k] \in Source
    BY <1>4, LenProperties, ElementOfSeq
  <2>2. SubSeq(s, 1, n) = [k \in 1 .. n |-> s[k]]
    BY <1>4, <1>5, <2>1
  <2>3. \A k \in 1 .. n : k \in DOMAIN s /\ s[k] \in Source
    BY <1>5, <2>1
  <2>4. n \in Nat
    BY <1>5
  <2> QED BY <2>2, <2>3, <2>4
<1> QED BY <1>2, <1>3, <1>6 DEF StoredAt

\* What a run holds about a claim, in the next state.
Holds(j, m, f) ==
  /\ m \in Seq(ClaimId')
  /\ \A i \in DOMAIN m : m[i] \in DOMAIN f
  /\ \A c \in DOMAIN f : f[c] \in Result /\ Usable(j, c)'

LEMMA StepMine ==
  ASSUME OwnerInv, TablesOK', Growth, NEW j \in Jobs, Step(j)
  PROVE  \E m, f : /\ Holds(j, m, f)
                   /\ mine' = [mine EXCEPT ![j] = m] /\ known' = [known EXCEPT ![j] = f]
<1>a. mine \in [Jobs -> Seq(ClaimId)] /\ known = [k \in Jobs |-> known[k]]
  BY DEF OwnerInv, TypeOK, HeldOK, KnownIsTotal
<1>b. /\ mine[j] \in Seq(ClaimId')
      /\ \A i \in DOMAIN mine[j] : mine[j][i] \in DOMAIN known[j]
      /\ \A c \in DOMAIN known[j] : known[j][c] \in Result /\ Usable(j, c)'
  BY GrowthKeeps, SeqMonotonic DEF OwnerInv, TypeOK, HeldOK, KnownIsOwned
<1>c. CASE UNCHANGED <<mine, known>>
  <2>1. Holds(j, mine[j], known[j])
    BY <1>b DEF Holds
  <2>2. mine' = [mine EXCEPT ![j] = mine[j]] /\ known' = [known EXCEPT ![j] = known[j]]
    <3>1. mine = [mine EXCEPT ![j] = mine[j]]
      BY <1>a
    <3>2. known = [known EXCEPT ![j] = known[j]]
      BY <1>a
    <3> QED BY <3>1, <3>2, <1>c
  <2> QED BY <2>1, <2>2
<1>d. CASE Ends(j)
  <2>1. Holds(j, <<>>, <<>>)
    BY EmptySeq DEF Holds
  <2> QED BY <2>1, <1>d DEF Ends
\* A claim is added to those the run holds.
<1>e. ASSUME NEW c \in ClaimId', Usable(j, c)', NEW ev \in Seq(Source),
             NEW v \in Values \cup {NotCached}, Learn(j, c, ev, v), Listed(j, c)
      PROVE  \E m, f : /\ Holds(j, m, f) /\ mine' = [mine EXCEPT ![j] = m]
                       /\ known' = [known EXCEPT ![j] = f]
  <2> DEFINE m == Append(mine[j], c)
             f == [d \in DOMAIN known[j] \cup {c} |->
                     IF d = c THEN [ev |-> ev, value |-> v] ELSE known[j][d]]
  <2>1. [ev |-> ev, value |-> v] \in Result
    BY DEF Result
  <2>2. m \in Seq(ClaimId') /\ \A i \in DOMAIN m : m[i] = c \/ m[i] \in DOMAIN known[j]
    BY <1>b, AppendProperties
  <2>3. Holds(j, m, f)
    BY <1>b, <1>e, <2>1, <2>2 DEF Holds
  <2>4. mine' = [mine EXCEPT ![j] = m]
    BY <1>a, <1>e DEF Listed
  <2>5. known' = [known EXCEPT ![j] = f]
    BY <1>a, <1>e DEF Learn
  <2> QED BY <2>3, <2>4, <2>5
<1>1. CASE Begin(j) \/ CopyBias(j) \/ CopyClaim(j) \/ CopySources(j) \/ CopyVerdict(j)
           \/ CopyOverall(j) \/ CopyStatus(j) \/ CloneFails(j) \/ Route(j)
           \/ FastAnswer(j) \/ Extract(j) \/ FallBack(j) \/ Recover(j) \/ InsertBias(j)
           \/ InsertSource(j) \/ SourcesDone(j) \/ InsertVerdict(j) \/ InsertOverall(j)
  BY <1>1, <1>c
     DEF Begin, CopyBias, CopyClaim, CopySources, CopyVerdict, CopyOverall, CopyStatus,
         CloneFails, Route, FastAnswer, Extract, FallBack, Recover, InsertBias,
         InsertSource, SourcesDone, InsertVerdict, InsertOverall, held, locals
<1>2. CASE FastConclude(j) \/ Judge(j) \/ JudgeFails(j) \/ AllCached(j)
  BY <1>2, <1>c DEF FastConclude, Judge, JudgeFails, AllCached, Conclude
<1>3. CASE CopyAudit(j) \/ SetStatus(j) \/ Fail(j)
  BY <1>3, <1>d DEF CopyAudit, SetStatus, Fail
<1>4. CASE Miss(j)
  <2>0. PICK c : c = Len(claims) + 1
    OBVIOUS
  <2>1. PICK ev \in Pools : Learn(j, c, ev, NotCached)
    BY <1>4, <2>0 DEF Miss
  <2>2. PICK emb \in BOOLEAN :
          claims' = Append(claims, [job |-> j, topic |-> Head(pending[j]), emb |-> emb,
                                    ev |-> <<>>, copy |-> 0])
    BY <1>4 DEF Miss
  <2>3. c \in ClaimId' /\ claims'[c].job = j /\ claims'[c].copy = 0
    BY <2>0, <2>2 DEF OwnerInv, TypeOK, TablesOK, ClaimId
  <2>4. Usable(j, c)'
    BY <2>3 DEF Usable, Owned
  <2>5. Listed(j, c)
    BY <1>4, <2>0 DEF Miss
  <2>6. ev \in Seq(Source)
    BY PoolAssumption
  <2>7. NotCached \in Values \cup {NotCached} /\ c \in ClaimId'
    BY <2>3
  <2> QED BY <2>1, <2>4, <2>5, <2>6, <2>7, <1>e
<1>5. CASE Hit(j)
  <2>0. PICK c \in Similar(j) :
          \E i \in NewestOn(c), ev \in Seq(Source) :
            Learn(j, c, ev, verdicts[i].value) /\ Listed(j, c)
    BY <1>5, HitFinds
  <2>1. PICK i \in NewestOn(c), ev \in Seq(Source) :
          Learn(j, c, ev, verdicts[i].value) /\ Listed(j, c)
    BY <2>0
  <2>2. c \in ClaimId /\ i \in DOMAIN verdicts /\ verdicts[i].claim = c
    BY DEF Similar, NewestOn, RowsOn
  <2>3. Judged(c)
    <3>1. c # Overall
      BY <2>2 DEF ClaimId, Overall
    <3> QED BY <2>2, <3>1 DEF OwnerInv, FirstVerdictIsOwners, Judged
  <2>4. Usable(j, c)
    BY <2>2, <2>3 DEF Usable, Owned, Similar, OwnerInv, CopiesAreNotFound
  <2>4a. Usable(j, c)' /\ c \in ClaimId'
    BY <2>2, <2>4, GrowthKeeps DEF OwnerInv, Growth
  <2>5. verdicts[i].value \in Values
    BY <2>2, VerdictRowTypes DEF OwnerInv, TypeOK
  <2> QED BY <2>1, <2>4a, <2>5, <1>e
<1> QED BY <1>1, <1>2, <1>3, <1>4, <1>5 DEF Step

LEMMA StepHeld ==
  ASSUME OwnerInv, TablesOK', Growth, NEW j \in Jobs, Step(j)
  PROVE  HeldOK' /\ KnownIsTotal' /\ TodoIsAllowed' /\ KnownIsOwned'
<1>1. PICK rows \in Seq(Allowed(j)') : todo' = [todo EXCEPT ![j] = rows]
  BY StepTodo
<1>2. PICK m, f : /\ Holds(j, m, f)
                  /\ mine' = [mine EXCEPT ![j] = m] /\ known' = [known EXCEPT ![j] = f]
  BY StepMine
<1>3. TodoIsAllowed' /\ todo' \in [Jobs -> Seq(Row)]
  <2>1. ASSUME NEW k \in Jobs
        PROVE  todo[k] \in Seq(Allowed(k)')
    BY GrowthKeeps
  <2>2. \A k \in Jobs : todo'[k] \in Seq(Allowed(k)')
    BY <1>1, <2>1 DEF OwnerInv, TypeOK, HeldOK
  <2>3. \A k \in Jobs : Allowed(k)' \subseteq Row
    BY DEF Allowed
  <2>4. \A k \in Jobs : todo'[k] \in Seq(Row)
    BY <2>2, <2>3, SeqMonotonic
  <2>5. todo' = [k \in Jobs |-> todo'[k]]
    BY <1>1 DEF OwnerInv, TypeOK, HeldOK
  <2> QED BY <2>2, <2>4, <2>5 DEF TodoIsAllowed
<1>4. ASSUME NEW k \in Jobs
      PROVE  Holds(k, mine'[k], known'[k])
  <2>1. CASE k = j
    BY <2>1, <1>2 DEF OwnerInv, TypeOK, HeldOK, KnownIsTotal
  <2>2. CASE k # j
    <3>1. mine'[k] = mine[k] /\ known'[k] = known[k]
      BY <2>2, <1>2 DEF OwnerInv, TypeOK, HeldOK, KnownIsTotal
    <3>2. mine[k] \in Seq(ClaimId')
      BY GrowthKeeps, SeqMonotonic DEF OwnerInv, TypeOK, HeldOK
    <3>3. \A c \in DOMAIN known[k] : known[k][c] \in Result /\ Usable(k, c)'
      BY GrowthKeeps DEF OwnerInv, TypeOK, HeldOK, KnownIsOwned
    <3> QED BY <3>1, <3>2, <3>3 DEF Holds, OwnerInv, KnownIsOwned
  <2> QED BY <2>1, <2>2
<1>5. KnownIsTotal' /\ KnownIsOwned' /\ HeldOK'
  <2>1. mine' = [k \in Jobs |-> mine'[k]] /\ known' = [k \in Jobs |-> known'[k]]
    BY <1>2 DEF OwnerInv, TypeOK, HeldOK, KnownIsTotal
  <2> QED BY <2>1, <1>3, <1>4 DEF KnownIsTotal, KnownIsOwned, HeldOK, Holds, Usable, Owned
<1> QED BY <1>3, <1>5
-------------------------------------------------------------------------------
(* Who judges first *)

\* The row a clone copied, seen from the next state.
LEMMA CopiedBefore ==
  ASSUME OwnerInv, Growth, NEW i \in DOMAIN verdicts, verdicts[i].claim # Overall,
         claims'[verdicts[i].claim].copy # 0
  PROVE  \E k \in 1 .. i - 1 :
           /\ k \in DOMAIN verdicts
           /\ verdicts[k].claim = claims'[verdicts[i].claim].copy
           /\ verdicts[k].job = claims'[claims'[verdicts[i].claim].copy].job
           /\ verdicts[k].value = verdicts[i].value
<1> DEFINE c == verdicts[i].claim
<1>1. c \in ClaimId /\ claims'[c].copy = claims[c].copy
  BY DEF OwnerInv, VerdictsRefer, Growth
<1>2. PICK k \in 1 .. i - 1 : /\ verdicts[k].claim = claims[c].copy
                              /\ verdicts[k].job = claims[claims[c].copy].job
                              /\ verdicts[k].value = verdicts[i].value
  BY <1>1 DEF OwnerInv, CloneCopiesVerdicts
<1>3. k \in DOMAIN verdicts
  BY DEF OwnerInv, TypeOK, TablesOK
<1>4. claims[c].copy \in ClaimId
  BY <1>1, <1>2, <1>3 DEF OwnerInv, VerdictsRefer, Overall
<1>5. claims'[claims[c].copy].job = claims[claims[c].copy].job
  BY <1>4 DEF Growth
<1> QED BY <1>1, <1>2, <1>3, <1>5

LEMMA OldVerdicts ==
  ASSUME OwnerInv, Growth, verdicts' = verdicts
  PROVE  VerdictsRefer' /\ FirstVerdictIsOwners' /\ CloneCopiesVerdicts'
<1>1. ASSUME NEW i \in DOMAIN verdicts, verdicts[i].claim # Overall
      PROVE  /\ verdicts[i].claim \in ClaimId'
             /\ claims'[verdicts[i].claim].job = claims[verdicts[i].claim].job
             /\ \E k \in RowsOn(verdicts[i].claim) :
                  k <= i /\ verdicts[k].job = claims[verdicts[i].claim].job
  BY <1>1 DEF OwnerInv, VerdictsRefer, FirstVerdictIsOwners, Growth
<1>2. VerdictsRefer' /\ FirstVerdictIsOwners'
  BY <1>1 DEF VerdictsRefer, FirstVerdictIsOwners, RowsOn, Overall
<1>3. CloneCopiesVerdicts'
  <2> SUFFICES ASSUME NEW i \in DOMAIN verdicts, verdicts[i].claim # Overall,
                      claims'[verdicts[i].claim].copy # 0
               PROVE  \E k \in 1 .. i - 1 :
                        /\ verdicts[k].claim = claims'[verdicts[i].claim].copy
                        /\ verdicts[k].job = claims'[claims'[verdicts[i].claim].copy].job
                        /\ verdicts[k].value = verdicts[i].value
    BY DEF CloneCopiesVerdicts, Overall
  <2> QED BY CopiedBefore DEF OwnerInv, Growth, VerdictsRefer
<1> QED BY <1>2, <1>3

LEMMA NewVerdict ==
  ASSUME OwnerInv, Growth, NEW j \in Jobs, NEW c \in Nat, NEW v,
         c = Overall \/ Owned(j, c),
         c # Overall /\ claims[c].copy # 0 =>
           \E k \in RowsOn(claims[c].copy) :
             /\ claims[c].copy \in ClaimId /\ verdicts[k].value = v
             /\ verdicts[k].job = claims[claims[c].copy].job,
         verdicts' = Append(verdicts, [job |-> j, claim |-> c, value |-> v])
  PROVE  VerdictsRefer' /\ FirstVerdictIsOwners' /\ CloneCopiesVerdicts'
<1> DEFINE n == Len(verdicts) + 1
<1>a. verdicts \in Seq(Verdict) /\ claims \in Seq(Claim)
  BY DEF OwnerInv, TypeOK, TablesOK
<1>b. /\ Len(verdicts) \in Nat /\ DOMAIN verdicts = 1 .. Len(verdicts)
      /\ DOMAIN verdicts' = 1 .. n
      /\ verdicts'[n] = [job |-> j, claim |-> c, value |-> v]
      /\ \A i \in DOMAIN verdicts : verdicts'[i] = verdicts[i]
  BY <1>a
<1>1. ASSUME NEW d, Owned(j, d)
      PROVE  d \in ClaimId' /\ claims'[d].job = claims[d].job
  BY <1>1 DEF Owned, Growth
<1>2. ASSUME NEW i \in DOMAIN verdicts', verdicts'[i].claim # Overall
      PROVE  /\ verdicts'[i].claim \in ClaimId'
             /\ \E k \in DOMAIN verdicts' :
                  /\ verdicts'[k].claim = verdicts'[i].claim /\ k <= i
                  /\ verdicts'[k].job = claims'[verdicts'[i].claim].job
  <2>1. CASE i \in DOMAIN verdicts
    <3>1. verdicts'[i] = verdicts[i] /\ verdicts[i].claim \in ClaimId
      BY <1>2, <2>1, <1>b DEF OwnerInv, VerdictsRefer
    <3>2. PICK k \in RowsOn(verdicts[i].claim) :
            k <= i /\ verdicts[k].job = claims[verdicts[i].claim].job
      BY <1>2, <2>1, <3>1 DEF OwnerInv, FirstVerdictIsOwners
    <3>3. k \in DOMAIN verdicts' /\ verdicts'[k] = verdicts[k]
          /\ verdicts[k].claim = verdicts[i].claim
      BY <3>2, <1>b DEF RowsOn
    <3>4. verdicts[i].claim \in ClaimId'
          /\ claims'[verdicts[i].claim].job = claims[verdicts[i].claim].job
      BY <3>1 DEF Growth
    <3> QED BY <3>1, <3>2, <3>3, <3>4
  <2>2. CASE i = n
    <3>1. verdicts'[i].claim = c /\ verdicts'[i].job = j /\ Owned(j, c)
      BY <1>2, <2>2, <1>b
    <3>2. c \in ClaimId' /\ claims'[c].job = claims[c].job
      BY <3>1, <1>1
    <3>3. CASE claims[c].job = j
      BY <3>1, <3>2, <3>3, <1>2, <1>b, <2>2
    <3>4. CASE Judged(c)
      <4>1. PICK k \in RowsOn(c) : verdicts[k].job = claims[c].job
        BY <3>4 DEF Judged
      <4>2. k \in DOMAIN verdicts' /\ verdicts'[k] = verdicts[k] /\ k <= i
            /\ verdicts[k].claim = c
        BY <4>1, <1>b, <2>2 DEF RowsOn
      <4> QED BY <3>1, <3>2, <4>1, <4>2
    <3> QED BY <3>1, <3>3, <3>4 DEF Owned
  <2> QED BY <2>1, <2>2, <1>b
<1>3. ASSUME NEW i \in DOMAIN verdicts', verdicts'[i].claim # Overall,
             claims'[verdicts'[i].claim].copy # 0
      PROVE  \E k \in 1 .. i - 1 :
               /\ verdicts'[k].claim = claims'[verdicts'[i].claim].copy
               /\ verdicts'[k].job = claims'[claims'[verdicts'[i].claim].copy].job
               /\ verdicts'[k].value = verdicts'[i].value
  <2>1. CASE i \in DOMAIN verdicts
    <3>1. verdicts'[i] = verdicts[i]
      BY <2>1, <1>b
    <3>2. PICK k \in 1 .. i - 1 :
            /\ k \in DOMAIN verdicts
            /\ verdicts[k].claim = claims'[verdicts[i].claim].copy
            /\ verdicts[k].job = claims'[claims'[verdicts[i].claim].copy].job
            /\ verdicts[k].value = verdicts[i].value
      BY <1>3, <2>1, <3>1, CopiedBefore
    <3>3. verdicts'[k] = verdicts[k]
      BY <3>2, <1>b
    <3> QED BY <3>1, <3>2, <3>3
  <2>2. CASE i = n
    <3>1. verdicts'[i].claim = c /\ verdicts'[i].value = v /\ Owned(j, c) /\ c # Overall
      BY <1>3, <2>2, <1>b
    <3>2. claims'[c].copy = claims[c].copy
      BY <3>1 DEF Owned, Growth
    <3>3. PICK k \in RowsOn(claims[c].copy) :
            /\ claims[c].copy \in ClaimId /\ verdicts[k].value = v
            /\ verdicts[k].job = claims[claims[c].copy].job
      BY <1>3, <3>1, <3>2
    <3>4. claims'[claims[c].copy].job = claims[claims[c].copy].job
      BY <3>3 DEF Growth
    <3>5. k \in DOMAIN verdicts /\ verdicts[k].claim = claims[c].copy
      BY <3>3 DEF RowsOn
    <3>6. k \in 1 .. i - 1 /\ verdicts'[k] = verdicts[k]
      BY <3>5, <2>2, <1>b
    <3> QED BY <3>1, <3>2, <3>3, <3>4, <3>5, <3>6
  <2> QED BY <2>1, <2>2, <1>b
<1>4. VerdictsRefer' /\ FirstVerdictIsOwners'
  BY <1>2 DEF VerdictsRefer, FirstVerdictIsOwners, RowsOn, Overall
<1>5. CloneCopiesVerdicts'
  BY <1>3 DEF CloneCopiesVerdicts, Overall
<1> QED BY <1>4, <1>5

LEMMA StepOwner ==
  ASSUME OwnerInv, Growth, NEW j \in Jobs, Step(j)
  PROVE  VerdictsRefer' /\ FirstVerdictIsOwners' /\ CloneCopiesVerdicts'
<1>1. CASE verdicts' = verdicts
  BY <1>1, OldVerdicts
<1>2. CASE CopyVerdict(j)
  <2>1. Head(todo[j]) \in Allowed(j) /\ Head(todo[j]).kind = "copyVerdict"
    BY <1>2, HeadIsAllowed DEF CopyVerdict, Pops
  <2>2. PICK n : n = Head(todo[j]).claim
    OBVIOUS
  <2>3. /\ n \in ClaimId /\ claims[n].job = j /\ n \in Nat
        /\ claims[n].copy \in ClaimId /\ claims[claims[n].copy].job = old[j]
    BY <2>1, <2>2 DEF Allowed, ClaimId
  <2>4. ASSUME verdicts' # verdicts
        PROVE  \E i \in RowsOn(claims[n].copy) :
                 /\ verdicts[i].job = old[j]
                 /\ verdicts' = Append(verdicts, [job |-> j, claim |-> n,
                                                  value |-> verdicts[i].value])
    BY <1>2, <2>2, <2>4 DEF CopyVerdict
  <2>5. CASE verdicts' # verdicts
    <3>1. PICK i \in RowsOn(claims[n].copy) :
            /\ verdicts[i].job = old[j]
            /\ verdicts' = Append(verdicts, [job |-> j, claim |-> n,
                                             value |-> verdicts[i].value])
      BY <2>4, <2>5
    <3>2. \E k \in RowsOn(claims[n].copy) :
            /\ claims[n].copy \in ClaimId /\ verdicts[k].value = verdicts[i].value
            /\ verdicts[k].job = claims[claims[n].copy].job
      BY <2>3, <3>1
    <3>3. Owned(j, n)
      BY <2>3 DEF Owned
    <3> QED BY <2>3, <3>1, <3>2, <3>3, NewVerdict
  <2> QED BY <2>5, <1>1
<1>3. CASE CopyOverall(j)
  <2>1. ASSUME verdicts' # verdicts
        PROVE  \E i \in DOMAIN verdicts :
                 verdicts' = Append(verdicts, [job |-> j, claim |-> Overall,
                                               value |-> verdicts[i].value])
    BY <1>3, <2>1 DEF CopyOverall, RowsOn
  <2> QED BY <2>1, <1>1, NewVerdict DEF Overall
<1>4. CASE InsertVerdict(j)
  <2>1. Head(todo[j]) \in Allowed(j) /\ Head(todo[j]).kind = "verdict"
    BY <1>4, HeadIsAllowed DEF InsertVerdict, Pops
  <2>2. /\ Owned(j, Head(todo[j]).claim) /\ Head(todo[j]).claim \in Nat
        /\ claims[Head(todo[j]).claim].copy = 0
    BY <2>1 DEF Allowed, Row, Usable
  <2> QED BY <1>4, <2>2, NewVerdict DEF InsertVerdict
<1>5. CASE InsertOverall(j)
  BY <1>5, NewVerdict DEF InsertOverall, Overall
<1> QED
  BY <1>1, <1>2, <1>3, <1>4, <1>5
     DEF Step, Begin, CopyBias, CopyClaim, CopySources, CopyStatus, CopyAudit, CloneFails,
         Route, FastAnswer, Extract, FallBack, Miss, Hit, FastConclude, Judge, JudgeFails,
         AllCached, Recover, InsertBias, InsertSource, SourcesDone, SetStatus, Fail,
         Conclude, db

\* A run that begins does not come back to the start, and claims are only added.
LEMMA StepIdle ==
  ASSUME OwnerInv, TablesOK', Growth, NEW j \in Jobs, Step(j)
  PROVE  QueuedIsIdle' /\ CopiesAreNotFound'
<1>a. /\ pc \in [Jobs -> Places] /\ todo \in [Jobs -> Seq(Row)] /\ claims \in Seq(Claim)
      /\ QueuedIsIdle /\ CopiesAreNotFound
  BY DEF OwnerInv, TypeOK, TablesOK, RunsOK, HeldOK
<1>1. ASSUME NEW k \in Jobs, pc'[k] = "queued"
      PROVE  pc[k] = "queued" /\ k # j
  BY <1>a, <1>1
     DEF Step, Begin, CopyBias, CopyClaim, CopySources, CopyVerdict, CopyOverall,
         CopyStatus, CopyAudit, CloneFails, Route, FastAnswer, Extract, FallBack, Miss, Hit,
         FastConclude, Judge, JudgeFails, AllCached, Recover, InsertBias, InsertSource,
         SourcesDone, InsertVerdict, InsertOverall, SetStatus, Fail, Goto, Ends, At
<1>2. ASSUME NEW k \in Jobs, k # j
      PROVE  todo'[k] = todo[k]
  BY <1>2, <1>a, StepTodo
<1>3. QueuedIsIdle'
  BY <1>1, <1>2, <1>a DEF QueuedIsIdle
<1>4. CASE claims' = claims
  BY <1>3, <1>4, <1>a DEF CopiesAreNotFound, ClaimId
<1>5. CASE CopyClaim(j)
  BY <1>3, <1>5, <1>a DEF CopyClaim, CopiesAreNotFound, ClaimId
<1>6. CASE Miss(j)
  <2>1. PICK emb \in BOOLEAN :
          claims' = Append(claims, [job |-> j, topic |-> Head(pending[j]), emb |-> emb,
                                    ev |-> <<>>, copy |-> 0])
    BY <1>6 DEF Miss
  <2> QED BY <2>1, <1>3, <1>a DEF CopiesAreNotFound, ClaimId
<1>7. CASE InsertSource(j)
  BY <1>3, <1>7, <1>a DEF InsertSource, CopiesAreNotFound, ClaimId
<1> QED
  BY <1>4, <1>5, <1>6, <1>7
     DEF Step, Begin, CopyBias, CopySources, CopyVerdict, CopyOverall, CopyStatus,
         CopyAudit, CloneFails, Route, FastAnswer, Extract, FallBack, Hit, FastConclude,
         Judge, JudgeFails, AllCached, Recover, InsertBias, SourcesDone, InsertVerdict,
         InsertOverall, SetStatus, Fail, Conclude, db
-------------------------------------------------------------------------------
(* What a job that is COMPLETE has *)

Concluded == {j \in Jobs : OverallRows(j) # {}}

Readable == {j \in linked : bias[j] > 0 /\ j \in Concluded}

\* How far the results of job j are, by the place of its run.
Progress(j) ==
  /\ status[j] = "COMPLETE" => j \in Readable
  /\ old[j] # NoJob => old[j] \in Readable /\ j \in linked
  /\ pc[j] \in {"copyBias", "copy", "copyStatus", "copyAudit"} => old[j] # NoJob
  /\ pc[j] \in {"copy", "copyStatus", "copyAudit"} => bias[j] > 0
  /\ pc[j] \in {"copyStatus", "copyAudit"} => j \in Concluded
  /\ pc[j] \in {"fastAsk", "fullAsk", "fast", "full", "bias", "write", "status"} =>
       j \in linked
  /\ pc[j] \in {"fast", "write", "status"} => bias[j] > 0
  /\ pc[j] = "status" => j \in Concluded

ProgressInv == TypeOK /\ \A j \in Jobs : Progress(j)

\* What is there stays there.
LEMMA ReadableStays ==
  ASSUME TypeOK, TablesOK', Growth, NEW k \in Jobs
  PROVE  /\ k \in linked => k \in linked'
         /\ bias[k] > 0 => bias'[k] > 0
         /\ k \in Concluded => k \in Concluded'
         /\ k \in Readable => k \in Readable'
<1>1. k \in linked => k \in linked'
  BY DEF Growth
<1>2. bias[k] > 0 => bias'[k] > 0
  BY DEF Growth, TypeOK, TablesOK
<1>3. k \in Concluded => k \in Concluded'
  BY DEF Growth, Concluded, OverallRows, RowsOn, Overall
<1> QED BY <1>1, <1>2, <1>3 DEF Readable

\* A step of one run leaves status, place and pattern of the others alone.
LEMMA OthersStay ==
  ASSUME TypeOK, NEW j \in Jobs, Step(j), NEW k \in Jobs, k # j
  PROVE  status'[k] = status[k] /\ pc'[k] = pc[k] /\ old'[k] = old[k]
<1> USE DEF TypeOK, TablesOK, RunsOK, db, Goto, Ends
<1>1. CASE Begin(j)
  BY <1>1 DEF Begin
<1>2. CASE \/ CopyBias(j) \/ CopyClaim(j) \/ CopySources(j) \/ CopyVerdict(j)
           \/ CopyOverall(j) \/ CopyStatus(j) \/ CopyAudit(j) \/ CloneFails(j)
  BY <1>2 DEF CopyBias, CopyClaim, CopySources, CopyVerdict, CopyOverall, CopyStatus,
              CopyAudit, CloneFails
<1>3. CASE Route(j) \/ FastAnswer(j) \/ Extract(j) \/ FallBack(j) \/ Miss(j) \/ Hit(j)
  BY <1>3 DEF Route, FastAnswer, Extract, FallBack, Miss, Hit
<1>4. CASE FastConclude(j) \/ Judge(j) \/ JudgeFails(j) \/ AllCached(j) \/ Recover(j)
  BY <1>4 DEF FastConclude, Judge, JudgeFails, AllCached, Recover, Conclude
<1>5. CASE \/ InsertBias(j) \/ InsertSource(j) \/ SourcesDone(j) \/ InsertVerdict(j)
           \/ InsertOverall(j) \/ SetStatus(j) \/ Fail(j)
  BY <1>5 DEF InsertBias, InsertSource, SourcesDone, InsertVerdict, InsertOverall,
              SetStatus, Fail
<1> QED BY <1>1, <1>2, <1>3, <1>4, <1>5 DEF Step

\* The overall verdict that a run adds is there afterwards.
LEMMA OverallAdded ==
  ASSUME TablesOK, NEW j \in Jobs, NEW v,
         verdicts' = Append(verdicts, [job |-> j, claim |-> Overall, value |-> v])
  PROVE  j \in Concluded'
<1> DEFINE n == Len(verdicts) + 1
<1>1. n \in DOMAIN verdicts' /\ verdicts'[n].job = j /\ verdicts'[n].claim = Overall
  BY DEF TablesOK
<1> QED BY <1>1 DEF Concluded, OverallRows, RowsOn, Overall

LEMMA StepProgress ==
  ASSUME ProgressInv, TypeOK', Growth, NEW j \in Jobs, Step(j)
  PROVE  \A k \in Jobs : Progress(k)'
<1>a. \A k \in Jobs : k \in linked => k \in linked'
  BY ReadableStays DEF ProgressInv, TypeOK
<1>b. \A k \in Jobs : bias[k] > 0 => bias'[k] > 0
  BY ReadableStays DEF ProgressInv, TypeOK
<1>c. \A k \in Jobs : k \in Concluded => k \in Concluded'
  BY ReadableStays DEF ProgressInv, TypeOK
<1>d. \A k \in Jobs : k \in Readable => k \in Readable'
  BY ReadableStays DEF ProgressInv, TypeOK
<1>o. ASSUME NEW k \in Jobs, k # j
      PROVE  Progress(k)'
  <2>1. status'[k] = status[k] /\ pc'[k] = pc[k] /\ old'[k] = old[k]
    BY <1>o, OthersStay DEF ProgressInv
  <2>2. Progress(k) /\ old[k] \in Jobs \cup {NoJob}
    BY DEF ProgressInv, TypeOK, RunsOK
  <2> QED BY <2>1, <2>2, <1>a, <1>b, <1>c, <1>d DEF Progress
<1> SUFFICES Progress(j)'
  BY <1>o
<1>p. Progress(j) /\ old[j] \in Jobs \cup {NoJob}
  BY DEF ProgressInv, TypeOK, RunsOK
<1>t. /\ DOMAIN status = Jobs /\ DOMAIN pc = Jobs /\ DOMAIN old = Jobs /\ DOMAIN bias = Jobs
      /\ status = [k \in Jobs |-> status[k]] /\ pc = [k \in Jobs |-> pc[k]]
      /\ old = [k \in Jobs |-> old[k]] /\ bias \in [Jobs -> Nat] /\ TablesOK
  BY DEF ProgressInv, TypeOK, TablesOK, RunsOK
<1>1. CASE Begin(j)
  <2>1. CASE old' = old /\ pc'[j] = "route"
    BY <1>1, <2>1, <1>p, <1>t, <1>a, <1>d DEF Begin, Progress
  <2>2. CASE \E o \in Reusable(j) : /\ old' = [old EXCEPT ![j] = o]
                                    /\ linked' = linked \cup {j}
                                    /\ Goto(j, "copyBias")
    <3>1. PICK o \in Reusable(j) : /\ old' = [old EXCEPT ![j] = o]
                                   /\ linked' = linked \cup {j}
                                   /\ Goto(j, "copyBias")
      BY <2>2
    <3>2. o \in Jobs /\ status[o] = "COMPLETE"
      BY JobAssumption DEF Reusable
    <3>3. o \in Readable' /\ o # NoJob
      BY <3>2, <1>d, JobAssumption DEF ProgressInv, Progress
    <3>4. old'[j] = o /\ pc'[j] = "copyBias" /\ j \in linked' /\ status'[j] = "PROCESSING"
      BY <1>1, <3>1, <1>t DEF Goto, Begin
    <3> QED BY <3>3, <3>4 DEF Progress
  <2> QED BY <1>1, <2>1, <2>2, <1>t DEF Begin, Goto
<1>2. CASE CopyBias(j)
  <2>1. bias'[j] > 0
    BY <1>2, <1>p, <1>t DEF CopyBias, Progress, Readable, At
  <2>2. pc'[j] = "copy" /\ status'[j] = status[j] /\ old' = old
    BY <1>2, <1>t DEF CopyBias, Goto
  <2>3. pc[j] = "copyBias"
    BY <1>2 DEF CopyBias, At
  <2> QED BY <2>1, <2>2, <2>3, <1>p, <1>a, <1>d DEF Progress
<1>3. CASE CopyOverall(j)
  <2>1. pc'[j] = "copyStatus" /\ status'[j] = status[j] /\ old' = old /\ pc[j] = "copy"
    BY <1>3, <1>t DEF CopyOverall, Goto, At
  <2>2. old[j] \in Readable /\ bias[j] > 0
    BY <1>p, <2>1 DEF Progress
  <2>3. PICK i \in OverallRows(old[j]) :
          verdicts' = Append(verdicts, [job |-> j, claim |-> Overall,
                                        value |-> verdicts[i].value])
    BY <1>3, <2>2 DEF CopyOverall, Readable, Concluded, OverallRows
  <2>4. j \in Concluded'
    BY <2>3, <1>t, OverallAdded
  <2> QED BY <2>1, <2>2, <2>4, <1>p, <1>a, <1>b, <1>d DEF Progress
<1>4. CASE CopyStatus(j)
  <2>1. /\ pc'[j] = "copyAudit" /\ status'[j] = "COMPLETE" /\ old' = old
        /\ pc[j] = "copyStatus"
    BY <1>4, <1>t DEF CopyStatus, Goto, At
  <2>2. j \in Readable
    BY <1>p, <2>1 DEF Progress, Readable
  <2> QED BY <2>1, <2>2, <1>p, <1>a, <1>d DEF Progress, Readable
<1>5. CASE Route(j)
  <2>1. /\ status'[j] = status[j] /\ old' = old
        /\ pc'[j] \in {"recovery", "fastAsk", "fullAsk"}
        /\ pc'[j] # "recovery" => j \in linked'
    BY <1>5, <1>t DEF Route, Goto
  <2> QED BY <2>1, <1>p, <1>a, <1>d DEF Progress
<1>6. CASE FastAnswer(j)
  <2>1. /\ status'[j] = status[j] /\ old' = old /\ pc'[j] = "fast" /\ bias'[j] > 0
        /\ pc[j] = "fastAsk"
    BY <1>6, <1>t DEF FastAnswer, Goto, At
  <2> QED BY <2>1, <1>p, <1>a, <1>d DEF Progress
<1>7. CASE Recover(j)
  <2>1. status'[j] = status[j] /\ old' = old /\ pc'[j] = "bias" /\ j \in linked'
    BY <1>7, <1>t DEF Recover, Goto
  <2> QED BY <2>1, <1>p, <1>d DEF Progress
<1>8. CASE InsertBias(j)
  <2>1. /\ status'[j] = status[j] /\ old' = old /\ pc'[j] = "write" /\ bias'[j] > 0
        /\ pc[j] = "bias"
    BY <1>8, <1>t DEF InsertBias, Goto, At
  <2> QED BY <2>1, <1>p, <1>a, <1>d DEF Progress
<1>9. CASE InsertOverall(j)
  <2>1. status'[j] = status[j] /\ old' = old /\ pc'[j] = "status" /\ pc[j] = "write"
    BY <1>9, <1>t DEF InsertOverall, Goto, At
  <2>2. j \in Concluded'
    BY <1>9, <1>t, OverallAdded DEF InsertOverall
  <2> QED BY <2>1, <2>2, <1>p, <1>a, <1>b, <1>d DEF Progress
<1>10. CASE SetStatus(j)
  <2>1. old' = old /\ pc'[j] = "over" /\ pc[j] = "status"
    BY <1>10, <1>t DEF SetStatus, Ends, Goto, At
  <2>2. j \in Readable
    BY <1>p, <2>1 DEF Progress, Readable
  <2> QED BY <2>1, <2>2, <1>p, <1>a, <1>d DEF Progress
<1>11. CASE Fail(j) \/ CopyAudit(j)
  <2>1. /\ old' = old /\ pc'[j] = "over"
        /\ status'[j] = "COMPLETE" => status[j] = "COMPLETE"
    BY <1>11, <1>t DEF Fail, CopyAudit, Ends, Goto, db
  <2> QED BY <2>1, <1>p, <1>a, <1>d DEF Progress
<1>12. CASE \/ CopyClaim(j) \/ CopySources(j) \/ CopyVerdict(j) \/ Miss(j) \/ Hit(j)
            \/ InsertSource(j) \/ SourcesDone(j) \/ InsertVerdict(j)
  <2>1. status' = status /\ old' = old /\ pc' = pc
    BY <1>12 DEF CopyClaim, CopySources, CopyVerdict, Miss, Hit, InsertSource,
                 SourcesDone, InsertVerdict, db
  <2> QED BY <2>1, <1>p, <1>a, <1>b, <1>c, <1>d DEF Progress
<1>13. CASE CloneFails(j) \/ Extract(j) \/ FallBack(j)
  <2>1. /\ status' = status /\ old' = old
        /\ \/ pc'[j] \in {"route", "recovery"}
           \/ pc'[j] = "full" /\ pc[j] = "fullAsk"
    BY <1>13, <1>t DEF CloneFails, Extract, FallBack, Goto, At, db
  <2> QED BY <2>1, <1>p, <1>a, <1>d DEF Progress
<1>14. CASE FastConclude(j) \/ Judge(j) \/ JudgeFails(j) \/ AllCached(j)
  <2>1. /\ status' = status /\ old' = old
        /\ \/ pc[j] = "fast" /\ pc'[j] = "write"
           \/ pc[j] = "full" /\ pc'[j] = "bias"
    BY <1>14, <1>t DEF FastConclude, Judge, JudgeFails, AllCached, Conclude, Goto, At, db
  <2> QED BY <2>1, <1>p, <1>a, <1>b, <1>d DEF Progress
<1> QED
  BY <1>1, <1>2, <1>3, <1>4, <1>5, <1>6, <1>7, <1>8, <1>9, <1>10, <1>11, <1>12, <1>13,
     <1>14 DEF Step
-------------------------------------------------------------------------------
(* What a step adds to the verdicts and leaves of the rows to be written *)

LEMMA VerdictsGrow ==
  ASSUME OwnerInv, NEW j \in Jobs, Step(j), verdicts' # verdicts
  PROVE  \E c, v :
           /\ c \in Nat
           /\ verdicts' = Append(verdicts, [job |-> j, claim |-> c, value |-> v])
           /\ \/ c = Overall /\ (CopyOverall(j) \/ InsertOverall(j))
              \/ CopyVerdict(j) /\ c \in ClaimId /\ claims[c].copy # 0
              \/ /\ InsertVerdict(j) /\ c \in ClaimId /\ todo[j] # <<>>
                 /\ Head(todo[j]).kind = "verdict"
                 /\ Head(todo[j]).claim = c /\ Head(todo[j]).value = v
<1>1. CASE CopyVerdict(j)
  <2>1. Head(todo[j]) \in Allowed(j) /\ Head(todo[j]).kind = "copyVerdict"
    BY <1>1, HeadIsAllowed DEF CopyVerdict, Pops
  <2>2. PICK n : n = Head(todo[j]).claim
    OBVIOUS
  <2>3. n \in ClaimId /\ n \in Nat /\ claims[n].copy # 0
    BY <2>1, <2>2 DEF Allowed, ClaimId
  <2>4. \E v : verdicts' = Append(verdicts, [job |-> j, claim |-> n, value |-> v])
    BY <1>1, <2>2 DEF CopyVerdict
  <2> QED BY <1>1, <2>3, <2>4
<1>2. CASE InsertVerdict(j)
  <2>1. Head(todo[j]) \in Allowed(j) /\ Head(todo[j]).kind = "verdict" /\ todo[j] # <<>>
    BY <1>2, HeadIsAllowed DEF InsertVerdict, Pops
  <2>2. Head(todo[j]).claim \in ClaimId /\ Head(todo[j]).claim \in Nat
    BY <2>1 DEF Allowed, ClaimId
  <2> QED BY <1>2, <2>1, <2>2 DEF InsertVerdict
<1>3. CASE CopyOverall(j)
  BY <1>3 DEF CopyOverall, Overall
<1>4. CASE InsertOverall(j)
  BY <1>4 DEF InsertOverall, Overall
<1> QED
  BY <1>1, <1>2, <1>3, <1>4
     DEF Step, Begin, CopyBias, CopyClaim, CopySources, CopyStatus, CopyAudit, CloneFails,
         Route, FastAnswer, Extract, FallBack, Miss, Hit, FastConclude, Judge, JudgeFails,
         AllCached, Recover, InsertBias, InsertSource, SourcesDone, SetStatus, Fail,
         Conclude, db

LEMMA ConcatElement ==
  ASSUME NEW S, NEW s \in Seq(S), NEW t \in Seq(S), NEW i \in DOMAIN (s \o t)
  PROVE  \/ i \in DOMAIN s /\ (s \o t)[i] = s[i]
         \/ i - Len(s) \in DOMAIN t /\ (s \o t)[i] = t[i - Len(s)]
<1>1. Len(s) \in Nat /\ Len(t) \in Nat
  OBVIOUS
<1>2. DOMAIN s = 1 .. Len(s) /\ DOMAIN t = 1 .. Len(t)
  OBVIOUS
<1>3. Len(s \o t) = Len(s) + Len(t) /\ DOMAIN (s \o t) = 1 .. Len(s) + Len(t)
  OBVIOUS
<1>4. CASE i <= Len(s)
  BY <1>1, <1>2, <1>3, <1>4
<1>5. CASE i > Len(s)
  <2>1. i - Len(s) \in 1 .. Len(t)
    BY <1>1, <1>3, <1>5
  <2> QED BY <1>1, <1>2, <1>3, <1>5, <2>1
<1> QED BY <1>1, <1>3, <1>4, <1>5

Concludes(j) == FastConclude(j) \/ Judge(j) \/ JudgeFails(j) \/ AllCached(j)

\* Before its claims are judged a run gets no verdicts to write, later it only loses some.
LEMMA OldVerdictRows ==
  ASSUME OwnerInv, NEW j \in Jobs, Step(j), ~Concludes(j)
  PROVE  \A i \in DOMAIN todo'[j] :
           todo'[j][i].kind = "verdict" => \E m \in DOMAIN todo[j] : todo'[j][i] = todo[j][m]
<1>a. todo \in [Jobs -> Seq(Row)] /\ todo[j] \in Seq(Row)
  BY DEF OwnerInv, TypeOK, HeldOK
<1>b. ASSUME todo[j] # <<>>
      PROVE  /\ Tail(todo[j]) \in Seq(Row)
             /\ \A i \in DOMAIN Tail(todo[j]) : Tail(todo[j])[i] = todo[j][i + 1]
             /\ \A i \in DOMAIN Tail(todo[j]) : i + 1 \in DOMAIN todo[j]
  BY <1>a, <1>b
<1>e. CASE UNCHANGED todo
  BY <1>e
<1>f. CASE todo' = [todo EXCEPT ![j] = <<>>]
  BY <1>a, <1>f
<1>g. CASE todo[j] # <<>> /\ todo' = [todo EXCEPT ![j] = Tail(todo[j])]
  BY <1>a, <1>b, <1>g
<1>1. CASE Begin(j) \/ CopyOverall(j) \/ CopyStatus(j) \/ Route(j) \/ FastAnswer(j)
           \/ Extract(j) \/ FallBack(j) \/ Miss(j) \/ Hit(j) \/ Recover(j)
           \/ InsertBias(j) \/ InsertOverall(j)
  BY <1>1, <1>e
     DEF Begin, CopyOverall, CopyStatus, Route, FastAnswer, Extract, FallBack, Miss, Hit,
         Recover, InsertBias, InsertOverall
<1>2. CASE CloneFails(j) \/ CopyAudit(j) \/ SetStatus(j) \/ Fail(j)
  BY <1>2, <1>f DEF CloneFails, CopyAudit, SetStatus, Fail, Ends
<1>3. CASE CopyVerdict(j) \/ InsertVerdict(j) \/ SourcesDone(j)
  BY <1>3, <1>g DEF CopyVerdict, InsertVerdict, SourcesDone, Pops
<1>4. CASE CopyBias(j)
  <2>1. PICK q : todo' = [todo EXCEPT ![j] = [i \in DOMAIN q |-> Copy("claim", q[i])]]
    BY <1>4 DEF CopyBias
  <2> DEFINE rows == [i \in DOMAIN q |-> Copy("claim", q[i])]
  <2>2. \A i \in DOMAIN rows : rows[i].kind # "verdict"
    BY DEF Copy
  <2>3. todo'[j] = rows
    BY <1>a, <2>1
  <2> HIDE DEF rows
  <2> QED BY <2>2, <2>3
<1>5. CASE CopyClaim(j)
  <2> DEFINE n == Len(claims) + 1
             rows == <<Copy("copySources", n), Copy("copyVerdict", n)>>
  <2>1. todo[j] # <<>> /\ todo'[j] = Tail(todo[j]) \o rows
    BY <1>5, <1>a DEF CopyClaim, Pops
  <2>2. rows \in Seq(Row) /\ \A i \in DOMAIN rows : rows[i].kind # "verdict"
    <3>1. n \in Nat
      BY DEF OwnerInv, TypeOK, TablesOK
    <3>2. /\ Copy("copySources", n) \in Row /\ Copy("copySources", n).kind # "verdict"
          /\ Copy("copyVerdict", n) \in Row /\ Copy("copyVerdict", n).kind # "verdict"
      BY <3>1, EmptySeq DEF Copy, Row, RowKinds
    <3> QED BY <3>2
  <2> HIDE DEF rows
  <2>3. ASSUME NEW i \in DOMAIN todo'[j]
        PROVE  \/ i \in DOMAIN Tail(todo[j]) /\ todo'[j][i] = Tail(todo[j])[i]
               \/ \E k \in DOMAIN rows : todo'[j][i] = rows[k]
    BY <1>b, <2>1, <2>2, ConcatElement
  <2> QED BY <1>b, <2>1, <2>2, <2>3
<1>6. CASE CopySources(j) \/ InsertSource(j)
  <2>1. PICK c, ev : /\ todo[j] # <<>>
                     /\ todo'[j] = <<SourceRows(c, ev)>> \o Tail(todo[j])
    BY <1>6, <1>a DEF CopySources, InsertSource, Pops
  <2>2. PICK s : s = SourceRows(c, ev)
    OBVIOUS
  <2>3. s.kind # "verdict" /\ todo'[j] = <<s>> \o Tail(todo[j])
    BY <2>1, <2>2 DEF SourceRows
  <2>4. ASSUME NEW i \in DOMAIN todo'[j]
        PROVE  todo'[j][i] = s \/ (i - 1 \in DOMAIN Tail(todo[j]) /\ todo'[j][i] = Tail(todo[j])[i - 1])
    BY <1>b, <2>1, <2>3
  <2> QED BY <1>b, <2>1, <2>3, <2>4
<1> QED BY <1>1, <1>2, <1>3, <1>4, <1>5, <1>6 DEF Step, Concludes
-------------------------------------------------------------------------------
(* How many overall verdicts a job has *)

\* How many a job may have, by the place of its run: one of the clone, if there
\* was one and it came that far, and one of the pipeline.
Budget(j) ==
  (IF old[j] = NoJob \/ pc[j] \in {"queued", "copyBias", "copy"} THEN 0 ELSE 1)
    + (IF pc[j] \in {"status", "over"} THEN 1 ELSE 0)

Counted(j) == IsFiniteSet(OverallRows(j)) /\ Cardinality(OverallRows(j)) <= Budget(j)

CountInv == \A j \in Jobs : Counted(j)

LEMMA RowsBeside ==
  ASSUME TablesOK, NEW j \in Jobs, NEW k \in Jobs, NEW c, NEW v, k # j \/ c # Overall,
         verdicts' = Append(verdicts, [job |-> j, claim |-> c, value |-> v])
  PROVE  OverallRows(k)' = OverallRows(k)
BY DEF TablesOK, OverallRows, RowsOn, Overall

LEMMA OneRowMore ==
  ASSUME TablesOK, NEW j \in Jobs, NEW v, IsFiniteSet(OverallRows(j)),
         verdicts' = Append(verdicts, [job |-> j, claim |-> Overall, value |-> v])
  PROVE  /\ IsFiniteSet(OverallRows(j)')
         /\ Cardinality(OverallRows(j)') = Cardinality(OverallRows(j)) + 1
<1> DEFINE n == Len(verdicts) + 1
<1>1. OverallRows(j)' = OverallRows(j) \cup {n} /\ n \notin OverallRows(j)
  BY DEF TablesOK, OverallRows, RowsOn, Overall
<1> QED BY <1>1, FS_AddElement

LEMMA StepCount ==
  ASSUME OwnerInv, ProgressInv, CountInv, NEW j \in Jobs, Step(j)
  PROVE  CountInv'
<1>a. TypeOK /\ TablesOK /\ pc \in [Jobs -> Places] /\ old \in [Jobs -> Jobs \cup {NoJob}]
  BY DEF OwnerInv, TypeOK, RunsOK
<1>1. ASSUME NEW k \in Jobs, k # j
      PROVE  Counted(k)'
  <2>1. OverallRows(k)' = OverallRows(k)
    <3>1. CASE verdicts' = verdicts
      BY <3>1 DEF OverallRows, RowsOn, Overall
    <3>2. CASE verdicts' # verdicts
      <4>1. PICK c, v :
              c \in Nat /\ verdicts' = Append(verdicts, [job |-> j, claim |-> c, value |-> v])
        BY <3>2, VerdictsGrow
      <4> QED BY <1>1, <1>a, <4>1, RowsBeside
    <3> QED BY <3>1, <3>2
  <2>2. Budget(k)' = Budget(k)
    BY <1>1, <1>a, OthersStay DEF Budget
  <2> QED BY <2>1, <2>2 DEF CountInv, Counted
<1>2. CASE CopyOverall(j) \/ InsertOverall(j)
  <2>1. Progress(j)
    BY DEF ProgressInv
  <2>2. Budget(j) \in Nat /\ Budget(j)' = Budget(j) + 1
    BY <1>2, <1>a, <2>1 DEF CopyOverall, InsertOverall, Budget, Progress, At, Goto
  <2>3. verdicts' = verdicts \/ \E v :
          verdicts' = Append(verdicts, [job |-> j, claim |-> Overall, value |-> v])
    BY <1>2 DEF CopyOverall, InsertOverall
  <2>4. IsFiniteSet(OverallRows(j)) /\ Cardinality(OverallRows(j)) <= Budget(j)
    BY DEF CountInv, Counted
  <2>5. Cardinality(OverallRows(j)) \in Nat
    BY <2>4, FS_CardinalityType
  <2>6. CASE verdicts' = verdicts
    <3>1. OverallRows(j)' = OverallRows(j)
      BY <2>6 DEF OverallRows, RowsOn, Overall
    <3> QED BY <1>1, <2>2, <2>4, <2>5, <3>1 DEF CountInv, Counted
  <2>7. CASE verdicts' # verdicts
    <3>1. /\ IsFiniteSet(OverallRows(j)')
          /\ Cardinality(OverallRows(j)') = Cardinality(OverallRows(j)) + 1
      BY <1>a, <2>3, <2>4, <2>7, OneRowMore
    <3> QED BY <1>1, <2>2, <2>4, <2>5, <3>1 DEF CountInv, Counted
  <2> QED BY <2>6, <2>7
<1>3. CASE ~(CopyOverall(j) \/ InsertOverall(j))
  <2>1. OverallRows(j)' = OverallRows(j)
    <3>1. CASE verdicts' = verdicts
      BY <3>1 DEF OverallRows, RowsOn, Overall
    <3>2. CASE verdicts' # verdicts
      <4>1. PICK c, v :
              /\ c \in Nat
              /\ verdicts' = Append(verdicts, [job |-> j, claim |-> c, value |-> v])
              /\ \/ c = Overall /\ (CopyOverall(j) \/ InsertOverall(j))
                 \/ c \in ClaimId
        BY <3>2, VerdictsGrow
      <4>2. c # Overall
        BY <1>3, <4>1 DEF ClaimId, Overall
      <4> QED BY <1>a, <4>1, <4>2, RowsBeside
    <3> QED BY <3>1, <3>2
  <2>2. Budget(j) \in Nat /\ Budget(j)' \in Nat /\ Budget(j)' >= Budget(j)
    <3> USE <1>a DEF Budget, Places, Goto, At
    <3>1. CASE Begin(j)
      <4>1. pc[j] = "queued" /\ pc'[j] \in {"route", "copyBias"}
        BY <3>1 DEF Begin
      <4> QED BY <4>1
    <3>2. CASE \/ CopyBias(j) \/ CopyClaim(j) \/ CopySources(j) \/ CopyVerdict(j)
               \/ CopyStatus(j) \/ CopyAudit(j) \/ CloneFails(j)
      <4>1. /\ old' = old
            /\ \/ pc' = pc
               \/ pc[j] = "copyBias" /\ pc'[j] = "copy"
               \/ pc[j] = "copyStatus" /\ pc'[j] = "copyAudit"
               \/ pc[j] = "copyAudit" /\ pc'[j] = "over"
               \/ pc[j] \notin {"status", "over"} /\ pc'[j] = "route"
        BY <3>2 DEF CopyBias, CopyClaim, CopySources, CopyVerdict, CopyStatus, CopyAudit,
                    CloneFails, Ends
      <4> QED BY <4>1
    <3>3. CASE Route(j) \/ FastAnswer(j) \/ Extract(j) \/ FallBack(j) \/ Miss(j) \/ Hit(j)
      <4>1. /\ old' = old
            /\ \/ pc' = pc
               \/ /\ pc[j] \in {"route", "fastAsk", "fullAsk"}
                  /\ pc'[j] \in {"recovery", "fastAsk", "fullAsk", "fast", "full"}
        BY <3>3 DEF Route, FastAnswer, Extract, FallBack, Miss, Hit
      <4> QED BY <4>1
    <3>4. CASE FastConclude(j) \/ Judge(j) \/ JudgeFails(j) \/ AllCached(j) \/ Recover(j)
      BY <3>4 DEF FastConclude, Judge, JudgeFails, AllCached, Conclude, Recover
    <3>5. CASE \/ InsertBias(j) \/ InsertSource(j) \/ SourcesDone(j) \/ InsertVerdict(j)
               \/ SetStatus(j) \/ Fail(j)
      BY <3>5 DEF InsertBias, InsertSource, SourcesDone, InsertVerdict, SetStatus, Fail, Ends
    <3> QED BY <1>3, <3>1, <3>2, <3>3, <3>4, <3>5 DEF Step
  <2>3. Cardinality(OverallRows(j)) \in Nat
    BY FS_CardinalityType DEF CountInv, Counted
  <2> QED BY <1>1, <2>1, <2>2, <2>3 DEF CountInv, Counted
<1> QED BY <1>2, <1>3

-------------------------------------------------------------------------------
(* What is said without a judge *)

NoStances(ev) == \A i \in DOMAIN ev : ev[i].stance = "UNCLEAR"

\* Sources whose stances nobody has set prove nothing.
LEMMA NoStanceNoVerdict ==
  ASSUME NEW ev, NoStances(ev)
  PROVE  ClaimVerdict(ev) = "UNVERIFIABLE"
<1>1. Taking(ev, "SUPPORTS") = {} /\ Taking(ev, "REFUTES") = {}
  BY DEF Taking, NoStances
<1>2. Count(ev, "SUPPORTS") = 0 /\ Count(ev, "REFUTES") = 0
  BY <1>1, FS_EmptySet DEF Count
<1> QED BY <1>2 DEF ClaimVerdict

\* The claim is one that j extracted itself.
Extracted(j, c) == claims[c].job = j /\ claims[c].copy = 0

\* What j may say of its own claims, given who has judged them.
Sayable(j, c, v) ==
  Extracted(j, c) => judge[j] # "nobody" /\ (judge[j] = "fallback" => v = "UNVERIFIABLE")

\* What is held for a claim: sources as the pool returned them, or the verdict
\* of another run, since a run looks for similar claims before it writes verdicts.
HeldFor(j, c, h) ==
  IF h.value = NotCached THEN NoStances(h.ev) ELSE claims[c].job # j

HeldOnes(j) == \A c \in DOMAIN known[j] : HeldFor(j, c, known[j][c])

ToSay(j) ==
  \A i \in DOMAIN todo[j] :
    todo[j][i].kind = "verdict" => Sayable(j, todo[j][i].claim, todo[j][i].value)

Said(j) ==
  \A i \in DOMAIN verdicts :
    verdicts[i].job = j /\ verdicts[i].claim # Overall =>
      Sayable(j, verdicts[i].claim, verdicts[i].value)

JudgeInv(j) ==
  /\ judge[j] # "nobody" => pc[j] \in {"bias", "write", "status", "over"}
  /\ HeldOnes(j) /\ ToSay(j) /\ Said(j)

AllJudgeInv == \A j \in Jobs : JudgeInv(j)

\* A step of one run leaves what the others hold alone.
LEMMA OthersHold ==
  ASSUME OwnerInv, TablesOK', Growth, NEW j \in Jobs, Step(j), NEW k \in Jobs, k # j
  PROVE  judge'[k] = judge[k] /\ known'[k] = known[k] /\ todo'[k] = todo[k]
<1>1. known'[k] = known[k]
  BY StepMine DEF OwnerInv, KnownIsTotal
<1>2. todo'[k] = todo[k]
  BY StepTodo DEF OwnerInv, TypeOK, HeldOK
<1>3. judge'[k] = judge[k]
  BY DEF OwnerInv, TypeOK, RunsOK, Step, Begin, CopyBias, CopyClaim, CopySources,
         CopyVerdict, CopyOverall, CopyStatus, CopyAudit, CloneFails, Route, FastAnswer,
         Extract, FallBack, Miss, Hit, FastConclude, Judge, JudgeFails, AllCached, Conclude,
         Recover, InsertBias, InsertSource, SourcesDone, InsertVerdict, InsertOverall,
         SetStatus, Fail, held
<1> QED BY <1>1, <1>2, <1>3

\* Only when a run concludes is it said who judges, and then its claims are known.
LEMMA JudgeStays ==
  ASSUME OwnerInv, NEW j \in Jobs, Step(j), ~Concludes(j)
  PROVE  judge' = judge
BY DEF Concludes, Step, Begin, CopyBias, CopyClaim, CopySources,
       CopyVerdict, CopyOverall, CopyStatus, CopyAudit, CloneFails, Route, FastAnswer,
       Extract, FallBack, Miss, Hit, Recover, InsertBias, InsertSource, SourcesDone,
       InsertVerdict, InsertOverall, SetStatus, Fail, held

\* What could be said stays so while the judge stays.
LEMMA SayableStays ==
  ASSUME Growth, NEW j \in Jobs, judge'[j] = judge[j], NEW c \in ClaimId, NEW v,
         Sayable(j, c, v)
  PROVE  Sayable(j, c, v)'
BY DEF Growth, Sayable, Extracted

\* The rows in verdicts.
LEMMA SaidStays ==
  ASSUME OwnerInv, Growth, NEW j \in Jobs, Step(j), NEW k \in Jobs, JudgeInv(j), JudgeInv(k),
         judge'[k] = judge[k]
  PROVE  Said(k)'
<1> SUFFICES ASSUME NEW i \in DOMAIN verdicts', NEW d, NEW w,
                    verdicts'[i].job = k, verdicts'[i].claim = d, verdicts'[i].value = w,
                    d # Overall
             PROVE  Sayable(k, d, w)'
  BY DEF Said, Sayable, Extracted, Overall
<1>1. ASSUME i \in DOMAIN verdicts, verdicts[i] = verdicts'[i]
      PROVE  Sayable(k, d, w)'
  <2>1. Sayable(k, d, w) /\ d \in ClaimId
    BY <1>1 DEF OwnerInv, VerdictsRefer, JudgeInv, Said
  <2> QED BY <2>1, SayableStays
<1>2. CASE verdicts' = verdicts
  BY <1>1, <1>2
<1>3. CASE verdicts' # verdicts
  <2>1. PICK c, v :
          /\ c \in Nat
          /\ verdicts' = Append(verdicts, [job |-> j, claim |-> c, value |-> v])
          /\ \/ c = Overall
             \/ c \in ClaimId /\ claims[c].copy # 0
             \/ /\ c \in ClaimId /\ todo[j] # <<>>
                /\ Head(todo[j]).kind = "verdict"
                /\ Head(todo[j]).claim = c /\ Head(todo[j]).value = v
    BY <1>3, VerdictsGrow
  <2>2. c # Overall => Sayable(j, c, v) /\ c \in ClaimId
    <3>1. ASSUME todo[j] # <<>>, Head(todo[j]).kind = "verdict"
          PROVE  Sayable(j, Head(todo[j]).claim, Head(todo[j]).value)
      <4>1. 1 \in DOMAIN todo[j] /\ Head(todo[j]) = todo[j][1]
        BY <3>1 DEF OwnerInv, TypeOK, HeldOK
      <4> QED BY <3>1, <4>1 DEF JudgeInv, ToSay
    <3>2. claims[c].copy # 0 => Sayable(j, c, v)
      BY DEF Sayable, Extracted
    <3> QED BY <2>1, <3>1, <3>2
  <2>3. c # Overall /\ j = k => Sayable(j, c, v)'
    BY <2>2, SayableStays
  <2>4. CASE i \in DOMAIN verdicts
    BY <1>1, <2>4 DEF Growth
  <2>5. CASE i \notin DOMAIN verdicts
    <3>1. verdicts'[i] = [job |-> j, claim |-> c, value |-> v]
      BY <2>1, <2>5 DEF OwnerInv, TypeOK, TablesOK
    <3>2. j = k /\ c = d /\ v = w
      BY <3>1
    <3> QED BY <2>3, <3>2
  <2> QED BY <2>4, <2>5
<1> QED BY <1>2, <1>3

\* The rows to be written when a run concludes are sequences.
LEMMA ConcludeSequences ==
  ASSUME OwnerInv, NEW j \in Jobs, NEW evs, NEW m \in Listings(Missed(j)),
         NEW q \in Listings(Cached(j))
  PROVE  /\ DOMAIN SourcesOf(j, evs) = 1 .. Len(mine[j]) /\ Len(mine[j]) \in Nat
         /\ DOMAIN FallbackRows(j, m) = 1 .. Len(m) /\ Len(m) \in Nat
         /\ DOMAIN CachedRows(j, q) = 1 .. Len(q) /\ Len(q) \in Nat
         /\ m \in Seq(Missed(j)) /\ q \in Seq(Cached(j))
         /\ \E S : /\ SourcesOf(j, evs) \in Seq(S) /\ FallbackRows(j, m) \in Seq(S)
                   /\ CachedRows(j, q) \in Seq(S)
<1>1. Missed(j) \in SUBSET ClaimId /\ Cached(j) \in SUBSET ClaimId
  BY DEF OwnerInv, TypeOK, HeldOK, Missed, Cached
<1>2. m \in Seq(Missed(j)) /\ q \in Seq(Cached(j))
  BY <1>1, ListingsAreSequences DEF OwnerInv
<1>3. mine[j] \in Seq(ClaimId)
  BY DEF OwnerInv, TypeOK, HeldOK
<1>4. /\ DOMAIN SourcesOf(j, evs) = 1 .. Len(mine[j]) /\ Len(mine[j]) \in Nat
      /\ DOMAIN FallbackRows(j, m) = 1 .. Len(m) /\ Len(m) \in Nat
      /\ DOMAIN CachedRows(j, q) = 1 .. Len(q) /\ Len(q) \in Nat
  BY <1>2, <1>3, LenProperties DEF SourcesOf, FallbackRows, CachedRows
<1> DEFINE A == {SourcesOf(j, evs)[k] : k \in 1 .. Len(mine[j])}
           B == {FallbackRows(j, m)[k] : k \in 1 .. Len(m)}
           C == {CachedRows(j, q)[k] : k \in 1 .. Len(q)}
           S == A \cup B \cup C
<1>5. SourcesOf(j, evs) \in [1 .. Len(mine[j]) -> S]
  BY <1>4 DEF SourcesOf
<1>6. FallbackRows(j, m) \in [1 .. Len(m) -> S]
  BY <1>4 DEF FallbackRows
<1>7. CachedRows(j, q) \in [1 .. Len(q) -> S]
  BY <1>4 DEF CachedRows
<1> HIDE DEF S
<1>8. /\ SourcesOf(j, evs) \in Seq(S) /\ FallbackRows(j, m) \in Seq(S)
      /\ CachedRows(j, q) \in Seq(S)
  BY <1>4, <1>5, <1>6, <1>7
<1> QED BY <1>2, <1>4, <1>8

\* Each row of three parts put together comes from one of them.
LEMMA ThreeParts ==
  ASSUME NEW S, NEW a \in Seq(S), NEW b \in Seq(S), NEW c \in Seq(S),
         NEW i \in DOMAIN (a \o b \o c)
  PROVE  \/ \E k \in DOMAIN a : (a \o b \o c)[i] = a[k]
         \/ \E k \in DOMAIN b : (a \o b \o c)[i] = b[k]
         \/ \E k \in DOMAIN c : (a \o b \o c)[i] = c[k]
<1>1. a \o b \in Seq(S)
  BY ConcatProperties
<1>2. \/ i \in DOMAIN (a \o b) /\ (a \o b \o c)[i] = (a \o b)[i]
      \/ \E k \in DOMAIN c : (a \o b \o c)[i] = c[k]
  BY <1>1, ConcatElement
<1>3. ASSUME i \in DOMAIN (a \o b)
      PROVE  \/ \E k \in DOMAIN a : (a \o b)[i] = a[k]
             \/ \E k \in DOMAIN b : (a \o b)[i] = b[k]
  BY <1>3, ConcatElement
<1> QED BY <1>2, <1>3

\* The run that gets no answer says what the sources say by themselves.
LEMMA FallbackTodo ==
  ASSUME NEW j \in Jobs, OwnerInv, JudgeInv(j), JudgeFails(j)
  PROVE  \A i \in DOMAIN todo'[j] :
           todo'[j][i].kind = "verdict" /\ Extracted(j, todo'[j][i].claim)
             => todo'[j][i].value = "UNVERIFIABLE"
<1>1. PICK m \in Listings(Missed(j)), q \in Listings(Cached(j)) :
        Conclude(j, "fallback",
                 SourcesOf(j, AsFound(j)) \o FallbackRows(j, m) \o CachedRows(j, q),
                 FallbackOverall(j, m))
  BY DEF JudgeFails
<1>2. PICK a, b, c : /\ a = SourcesOf(j, AsFound(j)) /\ b = FallbackRows(j, m)
                     /\ c = CachedRows(j, q)
  OBVIOUS
<1>3. todo'[j] = a \o b \o c
  BY <1>1, <1>2 DEF Conclude, OwnerInv, TypeOK, HeldOK
<1>4. /\ DOMAIN a = 1 .. Len(mine[j]) /\ Len(mine[j]) \in Nat
      /\ DOMAIN b = 1 .. Len(m) /\ Len(m) \in Nat
      /\ DOMAIN c = 1 .. Len(q) /\ Len(q) \in Nat
      /\ m \in Seq(Missed(j)) /\ q \in Seq(Cached(j))
  BY <1>2, ConcludeSequences
<1>5. PICK S : a \in Seq(S) /\ b \in Seq(S) /\ c \in Seq(S)
  BY <1>2, ConcludeSequences
<1>6. ASSUME NEW k \in 1 .. Len(mine[j])
      PROVE  a[k].kind # "verdict"
  BY <1>2, <1>4 DEF SourcesOf, SourceRows
<1>7. ASSUME NEW k \in 1 .. Len(m)
      PROVE  b[k].value = "UNVERIFIABLE"
  <2>1. m[k] \in Missed(j)
    BY <1>4, ElementOfSeq
  <2>2. NoStances(known[j][m[k]].ev)
    BY <2>1 DEF JudgeInv, HeldOnes, HeldFor, Missed
  <2>3. b[k] = VerdictRow(m[k], ClaimVerdict(known[j][m[k]].ev))
    BY <1>2, <1>4 DEF FallbackRows
  <2> QED BY <2>2, <2>3, NoStanceNoVerdict DEF VerdictRow
<1>8. ASSUME NEW k \in 1 .. Len(q)
      PROVE  ~Extracted(j, c[k].claim)
  <2>1. q[k] \in Cached(j)
    BY <1>4, ElementOfSeq
  <2>2. c[k] = VerdictRow(q[k], known[j][q[k]].value)
    BY <1>2, <1>4 DEF CachedRows
  <2> QED BY <2>1, <2>2 DEF JudgeInv, HeldOnes, HeldFor, Cached, VerdictRow, Extracted
<1>9. ASSUME NEW i \in DOMAIN (a \o b \o c)
      PROVE  \/ \E k \in 1 .. Len(mine[j]) : (a \o b \o c)[i] = a[k]
             \/ \E k \in 1 .. Len(m) : (a \o b \o c)[i] = b[k]
             \/ \E k \in 1 .. Len(q) : (a \o b \o c)[i] = c[k]
  <2>1. \/ \E k \in DOMAIN a : (a \o b \o c)[i] = a[k]
        \/ \E k \in DOMAIN b : (a \o b \o c)[i] = b[k]
        \/ \E k \in DOMAIN c : (a \o b \o c)[i] = c[k]
    BY ONLY <1>5, <1>9, ThreeParts
  <2> QED BY <1>4, <2>1
<1> QED BY <1>3, <1>6, <1>7, <1>8, <1>9

\* The judge is named once, when the run concludes.
LEMMA ConcludeOnce ==
  ASSUME NEW j \in Jobs, OwnerInv, JudgeInv(j), Concludes(j)
  PROVE  /\ judge[j] = "nobody" /\ judge'[j] # "nobody" /\ pc'[j] \in {"bias", "write"}
         /\ judge'[j] = "fallback" => JudgeFails(j)
         /\ UNCHANGED <<claims, verdicts, known>>
BY DEF Concludes, FastConclude, Judge, JudgeFails, AllCached, Conclude, OwnerInv, TypeOK,
       RunsOK, JudgeInv, Goto, At, db

\* A claim that the run takes over is of another one: its own have no verdicts yet.
LEMMA KnownJudge ==
  ASSUME NEW j \in Jobs, OwnerInv, TablesOK', Growth, JudgeInv(j), Step(j)
  PROVE  HeldOnes(j)'
<1>1. ASSUME NEW c \in DOMAIN known[j], NEW h, h = known[j][c]
      PROVE  HeldFor(j, c, h)'
  <2>1. HeldFor(j, c, h) /\ c \in ClaimId
    BY <1>1 DEF JudgeInv, HeldOnes, OwnerInv, TypeOK, HeldOK
  <2> QED BY <2>1 DEF HeldFor, Growth
<1>2. CASE known' = known
  BY <1>1, <1>2 DEF HeldOnes, HeldFor
<1>3. CASE Ends(j)
  BY <1>3 DEF HeldOnes, Ends, OwnerInv, KnownIsTotal
<1>4. CASE Miss(j)
  <2>1. PICK n : n = Len(claims) + 1
    OBVIOUS
  <2>2. PICK ev \in Pools : Learn(j, n, ev, NotCached)
    BY <1>4, <2>1 DEF Miss
  <2>3. NoStances(ev)
    BY PoolAssumption DEF NoStances
  <2>4. ASSUME NEW c \in DOMAIN known'[j], NEW h, h = known'[j][c]
        PROVE  HeldFor(j, c, h)'
    <3>1. \/ c = n /\ h = [ev |-> ev, value |-> NotCached]
          \/ c \in DOMAIN known[j] /\ h = known[j][c]
      BY <2>2, <2>4 DEF Learn, OwnerInv, KnownIsTotal
    <3> QED BY <1>1, <2>3, <3>1 DEF HeldFor
  <2> QED BY <2>4 DEF HeldOnes, HeldFor
<1>5. CASE Hit(j)
  <2>1. PICK d \in Similar(j) :
          \E i \in NewestOn(d), ev \in Seq(Source) : Learn(j, d, ev, verdicts[i].value)
    BY <1>5, HitFinds
  <2>2. PICK i \in NewestOn(d), ev \in Seq(Source) : Learn(j, d, ev, verdicts[i].value)
    BY <2>1
  <2>3. d \in ClaimId /\ i \in RowsOn(d) /\ claims[d].copy = 0 /\ d # Overall
    BY DEF Similar, NewestOn, OwnerInv, CopiesAreNotFound, ClaimId, Overall
  <2>4. claims[d].job # j
    <3>1. judge[j] = "nobody"
      BY <1>5 DEF JudgeInv, Hit, At
    <3>2. PICK k \in RowsOn(d) : verdicts[k].job = claims[d].job
      BY <2>3 DEF OwnerInv, FirstVerdictIsOwners, RowsOn
    <3> QED BY <2>3, <3>1, <3>2 DEF JudgeInv, Said, Sayable, Extracted, RowsOn
  <2>5. verdicts[i].value # NotCached
    BY <2>3, VerdictRowTypes
       DEF RowsOn, OwnerInv, TypeOK, Values, ClaimValues, OverallValues, NotCached
  <2>6. ASSUME NEW c \in DOMAIN known'[j], NEW h, h = known'[j][c]
        PROVE  HeldFor(j, c, h)'
    <3>1. \/ c = d /\ h.value = verdicts[i].value
          \/ c \in DOMAIN known[j] /\ h = known[j][c]
      BY <2>2, <2>6 DEF Learn, OwnerInv, KnownIsTotal
    <3>2. claims' = claims
      BY <1>5 DEF Hit, db
    <3> QED BY <1>1, <2>4, <2>5, <3>1, <3>2 DEF HeldFor
  <2> QED BY <2>6 DEF HeldOnes, HeldFor
<1> QED
  BY <1>2, <1>3, <1>4, <1>5
     DEF Step, Begin, CopyBias, CopyClaim, CopySources, CopyVerdict, CopyOverall, CopyStatus,
         CopyAudit, CloneFails, Route, FastAnswer, Extract, FallBack, FastConclude, Judge,
         JudgeFails, AllCached, Conclude, Recover, InsertBias, InsertSource, SourcesDone,
         InsertVerdict, InsertOverall, SetStatus, Fail, held, locals

LEMMA StepJudge ==
  ASSUME OwnerInv, TablesOK', RunsOK', Growth, AllJudgeInv, NEW j \in Jobs, Step(j)
  PROVE  AllJudgeInv'
<1>a. JudgeInv(j) /\ TypeOK /\ OwnerInv
  BY DEF AllJudgeInv, OwnerInv
<1>1. ASSUME NEW k \in Jobs, k # j
      PROVE  JudgeInv(k)'
  <2>1. /\ judge'[k] = judge[k] /\ known'[k] = known[k] /\ todo'[k] = todo[k]
        /\ pc'[k] = pc[k]
    BY <1>1, <1>a, OthersHold, OthersStay
  <2>2. JudgeInv(k)
    BY DEF AllJudgeInv
  <2>3. Said(k)'
    BY <1>a, <2>1, <2>2, SaidStays
  <2>4. ASSUME NEW c \in DOMAIN known'[k], NEW h, h = known'[k][c]
        PROVE  HeldFor(k, c, h)'
    <3>1. c \in DOMAIN known[k] /\ h = known[k][c]
      BY <2>1, <2>4
    <3>2. HeldFor(k, c, h) /\ c \in ClaimId
      BY <2>2, <3>1 DEF JudgeInv, HeldOnes, OwnerInv, TypeOK, HeldOK
    <3> QED BY <3>2 DEF HeldFor, Growth
  <2>5. ASSUME NEW i \in DOMAIN todo'[k], todo'[k][i].kind = "verdict",
               NEW c, c = todo'[k][i].claim, NEW v, v = todo'[k][i].value
        PROVE  Sayable(k, c, v)'
    <3>1. Sayable(k, c, v)
      BY <2>1, <2>2, <2>5 DEF JudgeInv, ToSay
    <3>2. c \in ClaimId
      <4>1. todo[k][i] \in Allowed(k)
        BY <2>1, <2>5, ElementOfSeq DEF OwnerInv, TodoIsAllowed
      <4> QED BY <2>1, <2>5, <4>1 DEF Allowed
    <3> QED BY <2>1, <3>1, <3>2, SayableStays
  <2>6. HeldOnes(k)'
    BY <2>4 DEF HeldOnes, HeldFor
  <2>7. ToSay(k)'
    BY <2>5 DEF ToSay, Sayable, Extracted
  <2> QED BY <2>1, <2>2, <2>3, <2>6, <2>7 DEF JudgeInv
<1>2. JudgeInv(j)'
  <2>1. HeldOnes(j)'
    BY <1>a, KnownJudge
  <2>2. CASE Concludes(j)
    <3>1. /\ judge[j] = "nobody" /\ judge'[j] # "nobody" /\ pc'[j] \in {"bias", "write"}
          /\ judge'[j] = "fallback" => JudgeFails(j)
          /\ UNCHANGED <<claims, verdicts, known>>
      BY <1>a, <2>2, ConcludeOnce
    <3>2. Said(j)'
      BY <1>a, <3>1 DEF JudgeInv, Said, Sayable, Extracted, Overall
    <3>3. ASSUME NEW i \in DOMAIN todo'[j], todo'[j][i].kind = "verdict",
                 NEW c, c = todo'[j][i].claim, NEW v, v = todo'[j][i].value
          PROVE  Sayable(j, c, v)'
      <4>1. Extracted(j, c)' = Extracted(j, c)
        BY <3>1 DEF Extracted
      <4>2. judge'[j] = "fallback" /\ Extracted(j, c) => v = "UNVERIFIABLE"
        BY <1>a, <3>1, <3>3, FallbackTodo
      <4> QED BY <3>1, <4>1, <4>2 DEF Sayable
    <3>4. ToSay(j)'
      BY <3>3 DEF ToSay, Sayable, Extracted
    <3> QED BY <2>1, <3>1, <3>2, <3>4 DEF JudgeInv
  <2>3. CASE ~Concludes(j)
    <3>1. judge' = judge
      BY <1>a, <2>3, JudgeStays
    <3>2. Said(j)'
      BY <1>a, <3>1, SaidStays
    <3>3. ASSUME NEW i \in DOMAIN todo'[j], todo'[j][i].kind = "verdict",
                 NEW c, c = todo'[j][i].claim, NEW v, v = todo'[j][i].value
          PROVE  Sayable(j, c, v)'
      <4>1. PICK m \in DOMAIN todo[j] : todo'[j][i] = todo[j][m]
        BY <1>a, <2>3, <3>3, OldVerdictRows
      <4>2. Sayable(j, c, v)
        BY <1>a, <3>3, <4>1 DEF JudgeInv, ToSay
      <4>3. c \in ClaimId
        <5>1. todo[j][m] \in Allowed(j)
          BY <4>1, ElementOfSeq DEF OwnerInv, TodoIsAllowed
        <5> QED BY <3>3, <4>1, <5>1 DEF Allowed
      <4> QED BY <3>1, <4>2, <4>3, SayableStays
    <3>4. ToSay(j)'
      BY <3>3 DEF ToSay, Sayable, Extracted
    <3>5. judge'[j] # "nobody" => pc'[j] \in {"bias", "write", "status", "over"}
      <4> SUFFICES ASSUME judge[j] # "nobody"
                   PROVE  pc'[j] \in {"bias", "write", "status", "over"}
        BY <3>1
      <4>1. pc[j] \in {"bias", "write", "status", "over"}
        BY <1>a DEF JudgeInv
      <4> QED
        BY <2>3, <4>1, <1>a
           DEF Concludes, Step, Begin, CopyBias, CopyClaim, CopySources, CopyVerdict,
               CopyOverall, CopyStatus, CopyAudit, CloneFails, Route, FastAnswer, Extract,
               FallBack, Miss, Hit, Recover, InsertBias, InsertSource, SourcesDone,
               InsertVerdict, InsertOverall, SetStatus, Fail, Ends, Goto, At, TypeOK, RunsOK
    <3> QED BY <2>1, <3>2, <3>4, <3>5 DEF JudgeInv
  <2> QED BY <2>2, <2>3
<1> QED BY <1>1, <1>2 DEF AllJudgeInv

-------------------------------------------------------------------------------
(* The sources that are stored again *)

\* The claim is the run's own, or the sources are there.
MayStore(j, c, ev) == claims[c].job = j \/ StoredAt(c, ev)

\* What is held for a claim: sources that may be stored, of an own claim if it has
\* no cached verdict.
HeldFrom(j, c, h) == (h.value = NotCached => claims[c].job = j) /\ MayStore(j, c, h.ev)

HeldSources(j) == \A c \in DOMAIN known[j] : HeldFrom(j, c, known[j][c])

RowSources(j) ==
  \A i \in DOMAIN todo[j] :
    todo[j][i].kind = "sources" => MayStore(j, todo[j][i].claim, todo[j][i].ev)

SourceInv == \A j \in Jobs : HeldSources(j) /\ RowSources(j)

\* How a step of a run may change the claims.
LEMMA ClaimsChange ==
  ASSUME NEW j \in Jobs, Step(j)
  PROVE  \/ claims' = claims
         \/ \E x : claims' = Append(claims, x) /\ x.job = j
         \/ InsertSource(j)
<1>1. CASE CopyClaim(j) \/ Miss(j)
  <2>1. CASE CopyClaim(j)
    <3>1. PICK t, c : claims' = Append(claims, [job |-> j, topic |-> t, emb |-> FALSE,
                                               ev |-> <<>>, copy |-> c])
      BY <2>1 DEF CopyClaim
    <3> QED BY <3>1
  <2>2. CASE Miss(j)
    <3>1. PICK t, emb : claims' = Append(claims, [job |-> j, topic |-> t, emb |-> emb,
                                                 ev |-> <<>>, copy |-> 0])
      BY <2>2 DEF Miss
    <3> QED BY <3>1
  <2> QED BY <1>1, <2>1, <2>2
<1>2. CASE \/ Begin(j) \/ CopyBias(j) \/ CopySources(j) \/ CopyVerdict(j) \/ CopyOverall(j)
           \/ CopyStatus(j) \/ CopyAudit(j) \/ CloneFails(j) \/ Route(j)
           \/ FastAnswer(j) \/ Extract(j) \/ FallBack(j)
  BY <1>2 DEF Begin, CopyBias, CopySources, CopyVerdict, CopyOverall, CopyStatus,
              CopyAudit, CloneFails, Route, FastAnswer, Extract, FallBack, db
<1>3. CASE \/ Hit(j) \/ FastConclude(j) \/ Judge(j) \/ JudgeFails(j) \/ AllCached(j)
  BY <1>3 DEF Hit, FastConclude, Judge, JudgeFails, AllCached, Conclude, db
<1>4. CASE \/ Recover(j) \/ InsertBias(j) \/ SourcesDone(j) \/ InsertVerdict(j)
           \/ InsertOverall(j) \/ SetStatus(j) \/ Fail(j)
  BY <1>4 DEF Recover, InsertBias, SourcesDone, InsertVerdict, InsertOverall, SetStatus,
              Fail, db
<1>5. CASE InsertSource(j)
  BY <1>5
<1> QED BY <1>1, <1>2, <1>3, <1>4, <1>5 DEF Step

\* Sources are never deleted.
LEMMA SourcesStay ==
  ASSUME OwnerInv, NEW j \in Jobs, Step(j), NEW c \in ClaimId, NEW m \in DOMAIN claims[c].ev
  PROVE  m \in DOMAIN claims'[c].ev /\ claims'[c].ev[m] = claims[c].ev[m]
<1>1. /\ claims \in Seq(Claim) /\ claims[c] \in Claim /\ claims[c].ev \in Seq(Source)
      /\ c \in DOMAIN claims
  <2>1. claims \in Seq(Claim) /\ c \in 1 .. Len(claims)
    BY DEF OwnerInv, TypeOK, TablesOK, ClaimId
  <2>2. claims[c] \in Claim
    BY <2>1, ElementOfSeq
  <2> QED BY <2>1, <2>2 DEF Claim
<1>2. CASE claims' = claims
  BY <1>2
<1>3. ASSUME NEW x, claims' = Append(claims, x)
      PROVE  claims'[c] = claims[c]
  BY <1>1, <1>3
<1>4. CASE InsertSource(j)
  <2>1. PICK d, e : claims' = [claims EXCEPT ![d].ev = Append(@, e)]
    BY <1>4 DEF InsertSource
  <2>2. claims'[c].ev = claims[c].ev \/ claims'[c].ev = Append(claims[c].ev, e)
    BY <1>1, <2>1 DEF Claim
  <2>3. PICK s \in Seq(Source) : s = claims[c].ev
    BY <1>1
  <2>4. \A n \in DOMAIN s : n \in DOMAIN Append(s, e) /\ Append(s, e)[n] = s[n]
    OBVIOUS
  <2> QED BY <2>2, <2>3, <2>4
<1> QED BY <1>2, <1>3, <1>4, ClaimsChange

LEMMA StoredStays ==
  ASSUME OwnerInv, Growth, NEW j \in Jobs, Step(j), NEW k \in Jobs, NEW c \in ClaimId, NEW ev,
         MayStore(k, c, ev)
  PROVE  MayStore(k, c, ev)'
<1>1. claims'[c].job = claims[c].job
  BY DEF Growth
<1>2. ASSUME StoredAt(c, ev)
      PROVE  StoredAt(c, ev)'
  BY <1>2, SourcesStay DEF StoredAt
<1> QED BY <1>1, <1>2 DEF MayStore

LEMMA HeldFromStays ==
  ASSUME OwnerInv, Growth, NEW j \in Jobs, Step(j), NEW k \in Jobs, NEW c \in ClaimId, NEW h,
         HeldFrom(k, c, h)
  PROVE  HeldFrom(k, c, h)'
<1>1. PICK ev : ev = h.ev
  OBVIOUS
<1>2. MayStore(k, c, ev)'
  BY <1>1, StoredStays DEF HeldFrom
<1>3. MayStore(k, c, h.ev)'
  BY <1>1, <1>2 DEF MayStore, StoredAt
<1> QED BY <1>3 DEF HeldFrom, Growth

\* A claim that the run takes over comes with sources from the table.
LEMMA StepHeldSources ==
  ASSUME OwnerInv, TablesOK', Growth, NEW j \in Jobs, Step(j), HeldSources(j)
  PROVE  HeldSources(j)'
<1>1. ASSUME NEW c \in DOMAIN known[j], NEW h, h = known[j][c]
      PROVE  HeldFrom(j, c, h)'
  <2>1. c \in ClaimId /\ HeldFrom(j, c, h)
    BY <1>1 DEF OwnerInv, TypeOK, HeldOK, HeldSources
  <2> QED BY <2>1, HeldFromStays
<1>2. ASSUME NEW d, NEW g, HeldFrom(j, d, g)',
             \A c \in DOMAIN known'[j] : \/ c = d /\ known'[j][c] = g
                                         \/ c \in DOMAIN known[j] /\ known'[j][c] = known[j][c]
      PROVE  HeldSources(j)'
  <2>1. ASSUME NEW c \in DOMAIN known'[j], NEW h, h = known'[j][c]
        PROVE  HeldFrom(j, c, h)'
    BY <1>1, <1>2, <2>1
  <2> QED BY <2>1 DEF HeldSources, HeldFrom, MayStore, StoredAt
<1>3. CASE known' = known
  <2>1. ASSUME NEW c \in DOMAIN known'[j], NEW h, h = known'[j][c]
        PROVE  HeldFrom(j, c, h)'
    BY <1>1, <1>3, <2>1
  <2> QED BY <2>1 DEF HeldSources, HeldFrom, MayStore, StoredAt
<1>4. CASE Ends(j)
  BY <1>4 DEF HeldSources, Ends, OwnerInv, KnownIsTotal
<1>5. CASE Miss(j)
  <2>1. PICK n : n = Len(claims) + 1
    OBVIOUS
  <2>2. PICK ev \in Pools : Learn(j, n, ev, NotCached)
    BY <1>5, <2>1 DEF Miss
  <2>3. claims'[n].job = j
    <3>1. \E emb : claims' = Append(claims, [job |-> j, topic |-> Head(pending[j]), emb |-> emb,
                                             ev |-> <<>>, copy |-> 0])
      BY <1>5 DEF Miss
    <3> QED BY <2>1, <3>1 DEF OwnerInv, TypeOK, TablesOK
  <2>4. PICK g : g = [ev |-> ev, value |-> NotCached]
    OBVIOUS
  <2>5. HeldFrom(j, n, g)'
    BY <2>3 DEF HeldFrom, MayStore
  <2> QED BY <1>2, <2>2, <2>4, <2>5 DEF Learn, OwnerInv, KnownIsTotal
<1>6. CASE Hit(j)
  <2>1. PICK d \in Similar(j) :
          \E i \in NewestOn(d), ev \in Seq(Source) :
            Learn(j, d, ev, verdicts[i].value) /\ StoredAt(d, ev)
    BY <1>6, HitFinds
  <2>2. PICK i \in NewestOn(d), ev \in Seq(Source) :
          Learn(j, d, ev, verdicts[i].value) /\ StoredAt(d, ev)
    BY <2>1
  <2>3. d \in ClaimId
    BY DEF Similar
  <2>4. verdicts[i].value # NotCached
    BY VerdictRowTypes DEF NewestOn, RowsOn, OwnerInv, TypeOK, Values, ClaimValues,
       OverallValues, NotCached
  <2>5. PICK g : g = [ev |-> ev, value |-> verdicts[i].value]
    OBVIOUS
  <2>6. HeldFrom(j, d, g)
    BY <2>2, <2>4, <2>5 DEF HeldFrom, MayStore
  <2>7. HeldFrom(j, d, g)'
    BY <2>3, <2>6, HeldFromStays
  <2> QED BY <1>2, <2>2, <2>5, <2>7 DEF Learn, OwnerInv, KnownIsTotal
<1>7. CASE \/ Begin(j) \/ CopyBias(j) \/ CopyClaim(j) \/ CopySources(j) \/ CopyVerdict(j)
           \/ CopyOverall(j) \/ CopyStatus(j) \/ CloneFails(j) \/ Route(j)
  <2>1. known' = known
    BY <1>7 DEF Begin, CopyBias, CopyClaim, CopySources, CopyVerdict, CopyOverall, CopyStatus,
                CloneFails, Route, held, locals
  <2> QED BY <1>3, <2>1
<1>10. CASE \/ FastAnswer(j) \/ Extract(j) \/ FallBack(j) \/ Recover(j) \/ InsertBias(j)
            \/ InsertSource(j) \/ SourcesDone(j) \/ InsertVerdict(j) \/ InsertOverall(j)
  <2>1. known' = known
    BY <1>10 DEF FastAnswer, Extract, FallBack, Recover, InsertBias, InsertSource,
                 SourcesDone, InsertVerdict, InsertOverall, held, locals
  <2> QED BY <1>3, <2>1
<1>8. CASE FastConclude(j) \/ Judge(j) \/ JudgeFails(j) \/ AllCached(j)
  <2>1. known' = known
    BY <1>8 DEF FastConclude, Judge, JudgeFails, AllCached, Conclude
  <2> QED BY <1>3, <2>1
<1>9. CASE CopyAudit(j) \/ SetStatus(j) \/ Fail(j)
  BY <1>4, <1>9 DEF CopyAudit, SetStatus, Fail
<1> QED BY <1>5, <1>6, <1>7, <1>8, <1>9, <1>10 DEF Step

\* Rows with sources come before all others when a run concludes.
LEMMA SourceRowsFirst ==
  ASSUME NEW S, NEW a \in Seq(S), NEW b \in Seq(S),
         \A k \in DOMAIN b : b[k].kind # "sources",
         NEW i \in DOMAIN (a \o b), (a \o b)[i].kind = "sources"
  PROVE  i \in DOMAIN a /\ (a \o b)[i] = a[i]
BY ConcatElement

\* The rows that a run may conclude with are sequences.
LEMMA RowSequences ==
  ASSUME OwnerInv, NEW j \in Jobs, NEW evs, NEW m, NEW n \in Nat, DOMAIN m = 1 .. n,
         NEW q \in Listings(Cached(j))
  PROVE  /\ \E S : /\ SourcesOf(j, evs) \in Seq(S) /\ VerdictRows(m) \in Seq(S)
                   /\ FallbackRows(j, m) \in Seq(S) /\ CachedRows(j, q) \in Seq(S)
         /\ DOMAIN SourcesOf(j, evs) = DOMAIN mine[j]
         /\ \A k \in DOMAIN VerdictRows(m) : VerdictRows(m)[k].kind # "sources"
         /\ \A k \in DOMAIN FallbackRows(j, m) : FallbackRows(j, m)[k].kind # "sources"
         /\ \A k \in DOMAIN CachedRows(j, q) : CachedRows(j, q)[k].kind # "sources"
<1>1. Len(mine[j]) \in Nat /\ DOMAIN mine[j] = 1 .. Len(mine[j])
  BY LenProperties DEF OwnerInv, TypeOK, HeldOK
<1>2. Len(q) \in Nat /\ DOMAIN q = 1 .. Len(q)
  <2>1. Cached(j) \in SUBSET ClaimId
    BY DEF OwnerInv, TypeOK, HeldOK, Cached
  <2> QED BY <2>1, ListingsAreSequences, LenProperties DEF OwnerInv
<1> DEFINE A == {SourcesOf(j, evs)[k] : k \in 1 .. Len(mine[j])}
           B == {VerdictRows(m)[k] : k \in 1 .. n}
           C == {FallbackRows(j, m)[k] : k \in 1 .. n}
           D == {CachedRows(j, q)[k] : k \in 1 .. Len(q)}
           S == A \cup B \cup C \cup D
<1>3. SourcesOf(j, evs) \in [1 .. Len(mine[j]) -> S]
  BY <1>1 DEF SourcesOf
<1>4. VerdictRows(m) \in [1 .. n -> S]
  BY DEF VerdictRows
<1>5. FallbackRows(j, m) \in [1 .. n -> S]
  BY DEF FallbackRows
<1>6. CachedRows(j, q) \in [1 .. Len(q) -> S]
  BY <1>2 DEF CachedRows
<1> HIDE DEF S
<1>7. /\ SourcesOf(j, evs) \in Seq(S) /\ VerdictRows(m) \in Seq(S)
      /\ FallbackRows(j, m) \in Seq(S) /\ CachedRows(j, q) \in Seq(S)
  BY <1>1, <1>2, <1>3, <1>4, <1>5, <1>6
<1>8. /\ \A k \in DOMAIN VerdictRows(m) : VerdictRows(m)[k].kind # "sources"
      /\ \A k \in DOMAIN FallbackRows(j, m) : FallbackRows(j, m)[k].kind # "sources"
      /\ \A k \in DOMAIN CachedRows(j, q) : CachedRows(j, q)[k].kind # "sources"
  BY DEF VerdictRows, FallbackRows, CachedRows, VerdictRow
<1>9. DOMAIN SourcesOf(j, evs) = DOMAIN mine[j]
  BY DEF SourcesOf
<1> QED BY <1>7, <1>8, <1>9

\* The rows of an answer are numbered, and the cached claims can be listed.
LEMMA AnswerDomain ==
  ASSUME OwnerInv, NEW j \in Jobs, NEW a \in Answers(Missed(j))
  PROVE  \E n \in Nat : DOMAIN a = 1 .. n
<1>1. Missed(j) \in SUBSET ClaimId
  BY DEF OwnerInv, TypeOK, HeldOK, Missed
<1> QED BY <1>1, ListingsAreSequences DEF OwnerInv, Answers

LEMMA SomeListing ==
  ASSUME OwnerInv, NEW j \in Jobs
  PROVE  \E q : q \in Listings(Cached(j))
<1>1. IsFiniteSet(Cached(j))
  <2>1. Cached(j) \in SUBSET ClaimId
    BY DEF OwnerInv, TypeOK, HeldOK, Cached
  <2>2. Len(claims) \in Nat
    BY DEF OwnerInv, TypeOK, TablesOK
  <2>3. IsFiniteSet(ClaimId)
    BY <2>2, FS_Interval DEF ClaimId
  <2> QED BY <2>1, <2>3, FS_Subset
<1> DEFINE S == Cached(j)
<1> HIDE DEF S
<1>2. PICK n \in Nat : ExistsBijection(1 .. n, S)
  BY <1>1, FS_NatBijection DEF S
<1>3. Cardinality(S) = n
  BY <1>2, FS_CountingElements
<1>4. PICK q : q \in Bijection(1 .. n, S)
  BY <1>2 DEF ExistsBijection
<1>5. /\ q \in [1 .. n -> S]
      /\ \A a, b \in 1 .. n : q[a] = q[b] => a = b
  BY <1>4 DEF Bijection, Injection, IsInjective
<1>6. q \in Listings(S)
  BY <1>3, <1>5 DEF Listings
<1> QED BY <1>6 DEF S

\* When a run concludes, it is going to store the sources it holds, or those of
\* claims without a cached verdict with the stances the model has set.
LEMMA ConcludedSources ==
  ASSUME OwnerInv, NEW j \in Jobs, Concludes(j), NEW i \in DOMAIN todo'[j],
         todo'[j][i].kind = "sources"
  PROVE  \E evs : i \in DOMAIN mine[j] /\ todo'[j][i] = SourcesOf(j, evs)[i]
<1>a. todo \in [Jobs -> Seq(Row)]
  BY DEF OwnerInv, TypeOK, HeldOK
<1>1. ASSUME NEW evs, NEW m, NEW n \in Nat, DOMAIN m = 1 .. n, NEW q \in Listings(Cached(j)),
             NEW b, b \in {VerdictRows(m), FallbackRows(j, m)},
             \/ todo'[j] = SourcesOf(j, evs) \o b
             \/ todo'[j] = SourcesOf(j, evs) \o b \o CachedRows(j, q)
      PROVE  i \in DOMAIN mine[j] /\ todo'[j][i] = SourcesOf(j, evs)[i]
  <2>1. PICK a, c : a = SourcesOf(j, evs) /\ c = CachedRows(j, q)
    OBVIOUS
  <2>2. PICK S : a \in Seq(S) /\ b \in Seq(S) /\ c \in Seq(S)
    <3>1. \E S : /\ SourcesOf(j, evs) \in Seq(S) /\ VerdictRows(m) \in Seq(S)
                 /\ FallbackRows(j, m) \in Seq(S) /\ CachedRows(j, q) \in Seq(S)
      BY <1>1, RowSequences
    <3> QED BY <1>1, <2>1, <3>1
  <2>3. /\ DOMAIN a = DOMAIN mine[j]
        /\ \A k \in DOMAIN b : b[k].kind # "sources"
        /\ \A k \in DOMAIN c : c[k].kind # "sources"
    BY <1>1, <2>1, RowSequences
  <2>4. a \o b \in Seq(S)
    BY <2>2, ConcatProperties
  <2>5. CASE todo'[j] = a \o b
    BY <2>1, <2>2, <2>3, <2>5, SourceRowsFirst
  <2>6. CASE todo'[j] = (a \o b) \o c
    <3>1. i \in DOMAIN (a \o b) /\ ((a \o b) \o c)[i] = (a \o b)[i]
      BY <2>2, <2>3, <2>4, <2>6, SourceRowsFirst
    <3>2. (a \o b)[i].kind = "sources"
      BY <2>6, <3>1
    <3>3. i \in DOMAIN a /\ (a \o b)[i] = a[i]
      BY <2>2, <2>3, <3>1, <3>2, SourceRowsFirst
    <3> QED BY <2>1, <2>3, <2>6, <3>1, <3>3
  <2> QED BY <1>1, <2>1, <2>5, <2>6
<1>2. CASE FastConclude(j)
  <2>1. PICK a \in Answers(Missed(j)) :
          todo' = [todo EXCEPT ![j] = SourcesOf(j, AsFound(j)) \o VerdictRows(a)]
    BY <1>2 DEF FastConclude, Conclude
  <2>2. PICK n \in Nat : DOMAIN a = 1 .. n
    BY AnswerDomain
  <2>3. PICK q : q \in Listings(Cached(j))
    BY SomeListing
  <2> QED BY <1>a, <1>1, <2>1, <2>2, <2>3
<1>3. CASE Judge(j)
  <2>1. PICK a \in Answers(Missed(j)), q \in Listings(Cached(j)), evs \in Classified(j) :
          todo' = [todo EXCEPT ![j] = SourcesOf(j, evs) \o VerdictRows(a) \o CachedRows(j, q)]
    BY <1>3 DEF Judge, Conclude
  <2>2. PICK n \in Nat : DOMAIN a = 1 .. n
    BY AnswerDomain
  <2> QED BY <1>a, <1>1, <2>1, <2>2
<1>4. CASE JudgeFails(j)
  <2>1. PICK m \in Listings(Missed(j)), q \in Listings(Cached(j)) :
          todo' = [todo EXCEPT ![j] =
                     SourcesOf(j, AsFound(j)) \o FallbackRows(j, m) \o CachedRows(j, q)]
    BY <1>4 DEF JudgeFails, Conclude
  <2>2. Len(m) \in Nat /\ DOMAIN m = 1 .. Len(m)
    <3>1. Missed(j) \in SUBSET ClaimId
      BY DEF OwnerInv, TypeOK, HeldOK, Missed
    <3>2. m \in Seq(Missed(j))
      BY <3>1, ListingsAreSequences DEF OwnerInv
    <3> QED BY <3>2, LenProperties
  <2> QED BY <1>a, <1>1, <2>1, <2>2
<1>5. CASE AllCached(j)
  <2>1. PICK q \in Listings(Cached(j)) :
          todo' = [todo EXCEPT ![j] =
                     SourcesOf(j, <<>>) \o FallbackRows(j, mine[j]) \o CachedRows(j, q)]
    BY <1>5 DEF AllCached, Conclude
  <2>2. Len(mine[j]) \in Nat /\ DOMAIN mine[j] = 1 .. Len(mine[j])
    BY LenProperties DEF OwnerInv, TypeOK, HeldOK
  <2> QED BY <1>a, <1>1, <2>1, <2>2
<1> QED BY <1>2, <1>3, <1>4, <1>5 DEF Concludes

\* Before it concludes a run gets no sources to store but copies for its own claims;
\* later it only loses some.
LEMMA OldSourceRows ==
  ASSUME OwnerInv, NEW j \in Jobs, Step(j), ~Concludes(j), NEW i \in DOMAIN todo'[j],
         todo'[j][i].kind = "sources"
  PROVE  \/ \E m \in DOMAIN todo[j] : todo'[j][i] = todo[j][m]
         \/ todo'[j][i].claim \in ClaimId /\ claims[todo'[j][i].claim].job = j
         \/ /\ todo[j] # <<>> /\ Head(todo[j]).kind = "sources" /\ Head(todo[j]).ev # <<>>
            /\ todo'[j][i] = SourceRows(Head(todo[j]).claim, Tail(Head(todo[j]).ev))
<1>a. todo \in [Jobs -> Seq(Row)] /\ todo[j] \in Seq(Row)
  BY DEF OwnerInv, TypeOK, HeldOK
<1>b. ASSUME todo[j] # <<>>
      PROVE  /\ Tail(todo[j]) \in Seq(Row)
             /\ \A m \in DOMAIN Tail(todo[j]) : Tail(todo[j])[m] = todo[j][m + 1]
             /\ \A m \in DOMAIN Tail(todo[j]) : m + 1 \in DOMAIN todo[j]
  BY <1>a, <1>b
<1>e. CASE UNCHANGED todo
  BY <1>e
<1>f. CASE todo' = [todo EXCEPT ![j] = <<>>]
  BY <1>a, <1>f
<1>g. CASE todo[j] # <<>> /\ todo' = [todo EXCEPT ![j] = Tail(todo[j])]
  BY <1>a, <1>b, <1>g
<1>h. ASSUME todo[j] # <<>>, NEW r, todo'[j] = <<r>> \o Tail(todo[j])
      PROVE  todo'[j][i] = r \/ \E m \in DOMAIN todo[j] : todo'[j][i] = todo[j][m]
  <2>1. todo'[j][i] = r \/ (i - 1 \in DOMAIN Tail(todo[j]) /\ todo'[j][i] = Tail(todo[j])[i - 1])
    BY <1>b, <1>h
  <2> QED BY <1>b, <1>h, <2>1
<1>1. CASE Begin(j) \/ CopyOverall(j) \/ CopyStatus(j) \/ Route(j) \/ FastAnswer(j)
           \/ Extract(j) \/ FallBack(j) \/ Miss(j) \/ Hit(j) \/ Recover(j)
           \/ InsertBias(j) \/ InsertOverall(j)
  BY <1>1, <1>e
     DEF Begin, CopyOverall, CopyStatus, Route, FastAnswer, Extract, FallBack, Miss, Hit,
         Recover, InsertBias, InsertOverall
<1>2. CASE CloneFails(j) \/ CopyAudit(j) \/ SetStatus(j) \/ Fail(j)
  BY <1>2, <1>f DEF CloneFails, CopyAudit, SetStatus, Fail, Ends
<1>3. CASE CopyVerdict(j) \/ InsertVerdict(j) \/ SourcesDone(j)
  BY <1>3, <1>g DEF CopyVerdict, InsertVerdict, SourcesDone, Pops
<1>4. CASE CopyBias(j)
  <2>1. PICK q : todo' = [todo EXCEPT ![j] = [k \in DOMAIN q |-> Copy("claim", q[k])]]
    BY <1>4 DEF CopyBias
  <2> DEFINE rows == [k \in DOMAIN q |-> Copy("claim", q[k])]
  <2>2. \A k \in DOMAIN rows : rows[k].kind # "sources"
    BY DEF Copy
  <2>3. todo'[j] = rows
    BY <1>a, <2>1
  <2> HIDE DEF rows
  <2> QED BY <2>2, <2>3
<1>5. CASE CopyClaim(j)
  <2> DEFINE n == Len(claims) + 1
             rows == <<Copy("copySources", n), Copy("copyVerdict", n)>>
  <2>1. todo[j] # <<>> /\ todo'[j] = Tail(todo[j]) \o rows
    BY <1>5, <1>a DEF CopyClaim, Pops
  <2>2. rows \in Seq(Row) /\ \A k \in DOMAIN rows : rows[k].kind # "sources"
    <3>1. n \in Nat
      BY DEF OwnerInv, TypeOK, TablesOK
    <3>2. /\ Copy("copySources", n) \in Row /\ Copy("copySources", n).kind # "sources"
          /\ Copy("copyVerdict", n) \in Row /\ Copy("copyVerdict", n).kind # "sources"
      BY <3>1, EmptySeq DEF Copy, Row, RowKinds
    <3> QED BY <3>2
  <2> HIDE DEF rows
  <2>3. i \in DOMAIN Tail(todo[j]) /\ todo'[j][i] = Tail(todo[j])[i]
    BY <1>b, <2>1, <2>2, SourceRowsFirst
  <2> QED BY <1>b, <2>1, <2>3
<1>6. CASE CopySources(j)
  <2>1. Head(todo[j]) \in Allowed(j) /\ Head(todo[j]).kind = "copySources" /\ todo[j] # <<>>
    BY <1>6, HeadIsAllowed DEF CopySources, Pops
  <2>2. PICK n, ev : /\ n = Head(todo[j]).claim
                     /\ todo'[j] = <<SourceRows(n, ev)>> \o Tail(todo[j])
    BY <1>6, <1>a DEF CopySources
  <2>3. n \in ClaimId /\ claims[n].job = j
    BY <2>1, <2>2 DEF Allowed
  <2>4. PICK r : r = SourceRows(n, ev)
    OBVIOUS
  <2>5. r.claim = n /\ todo'[j] = <<r>> \o Tail(todo[j])
    BY <2>2, <2>4 DEF SourceRows
  <2> QED BY <1>h, <2>1, <2>3, <2>5
<1>7. CASE InsertSource(j)
  <2>1. PICK r : r = SourceRows(Head(todo[j]).claim, Tail(Head(todo[j]).ev))
    OBVIOUS
  <2>2. /\ todo[j] # <<>> /\ Head(todo[j]).kind = "sources" /\ Head(todo[j]).ev # <<>>
        /\ todo'[j] = <<r>> \o Tail(todo[j])
    BY <1>7, <1>a, <2>1 DEF InsertSource, Pops
  <2> QED BY <1>h, <2>1, <2>2
<1> QED BY <1>1, <1>2, <1>3, <1>4, <1>5, <1>6, <1>7 DEF Step, Concludes

LEMMA StepRowSources ==
  ASSUME OwnerInv, Growth, NEW j \in Jobs, Step(j), HeldSources(j), RowSources(j)
  PROVE  RowSources(j)'
<1> SUFFICES ASSUME NEW i \in DOMAIN todo'[j], todo'[j][i].kind = "sources",
                    NEW c, c = todo'[j][i].claim, NEW ev, ev = todo'[j][i].ev
             PROVE  MayStore(j, c, ev)'
  BY DEF RowSources, MayStore, StoredAt
<1>1. ASSUME c \in ClaimId, MayStore(j, c, ev)
      PROVE  MayStore(j, c, ev)'
  BY <1>1, StoredStays
<1>a. \A m \in DOMAIN todo[j] : todo[j][m].claim \in ClaimId
  <2>1. \A m \in DOMAIN todo[j] : todo[j][m] \in Allowed(j)
    BY ElementOfSeq DEF OwnerInv, TodoIsAllowed
  <2> QED BY <2>1 DEF Allowed
<1>2. CASE ~Concludes(j)
  <2>1. CASE \E m \in DOMAIN todo[j] : todo'[j][i] = todo[j][m]
    BY <1>1, <1>a, <2>1 DEF RowSources
  <2>2. CASE todo'[j][i].claim \in ClaimId /\ claims[todo'[j][i].claim].job = j
    BY <1>1, <2>2 DEF MayStore
  <2>3. CASE /\ todo[j] # <<>> /\ Head(todo[j]).kind = "sources" /\ Head(todo[j]).ev # <<>>
             /\ todo'[j][i] = SourceRows(Head(todo[j]).claim, Tail(Head(todo[j]).ev))
    <3>1. PICK row \in Row : row = Head(todo[j]) /\ row = todo[j][1] /\ 1 \in DOMAIN todo[j]
      BY <2>3, HeadTailProperties, ElementOfSeq DEF OwnerInv, TypeOK, HeldOK
    <3>2. c = row.claim /\ ev = Tail(row.ev) /\ row.ev \in Seq(Source) /\ row.ev # <<>>
      BY <2>3, <3>1 DEF SourceRows, Row
    <3>3. MayStore(j, c, row.ev) /\ c \in ClaimId
      BY <1>a, <2>3, <3>1, <3>2 DEF RowSources
    <3>4. \A k \in DOMAIN ev : k + 1 \in DOMAIN row.ev /\ ev[k] = row.ev[k + 1]
      <4>1. PICK s \in Seq(Source) : s = row.ev /\ s # <<>>
        BY <3>2
      <4>2. \A k \in DOMAIN Tail(s) : k + 1 \in DOMAIN s /\ Tail(s)[k] = s[k + 1]
        BY <4>1
      <4> QED BY <3>2, <4>1, <4>2
    <3>5. MayStore(j, c, ev)
      BY <3>3, <3>4 DEF MayStore, StoredAt
    <3> QED BY <1>1, <3>3, <3>5
  <2> QED BY <1>2, <2>1, <2>2, <2>3, OldSourceRows
<1>3. CASE Concludes(j)
  <2>1. PICK evs : i \in DOMAIN mine[j] /\ todo'[j][i] = SourcesOf(j, evs)[i]
    BY <1>3, ConcludedSources
  <2>2. mine[j][i] \in DOMAIN known[j] /\ mine[j][i] \in ClaimId
    BY <2>1 DEF OwnerInv, KnownIsOwned, TypeOK, HeldOK
  <2>3. /\ c = mine[j][i]
        /\ mine[j][i] \notin Missed(j) => ev = known[j][mine[j][i]].ev
    BY <2>1 DEF SourcesOf, SourceRows
  <2>4. MayStore(j, c, ev)
    <3>1. HeldFrom(j, c, known[j][c])
      BY <2>2, <2>3 DEF HeldSources
    <3> QED BY <2>2, <2>3, <3>1 DEF HeldFrom, MayStore, Missed
  <2> QED BY <1>1, <2>2, <2>3, <2>4
<1> QED BY <1>2, <1>3

LEMMA StepSources ==
  ASSUME OwnerInv, TablesOK', Growth, SourceInv, NEW j \in Jobs, Step(j)
  PROVE  SourceInv'
<1>1. ASSUME NEW k \in Jobs, k # j
      PROVE  HeldSources(k)' /\ RowSources(k)'
  <2>1. known'[k] = known[k] /\ todo'[k] = todo[k]
    BY <1>1, OthersHold
  <2>2. ASSUME NEW c \in DOMAIN known'[k], NEW h, h = known'[k][c]
        PROVE  HeldFrom(k, c, h)'
    <3>1. c \in ClaimId /\ HeldFrom(k, c, h)
      BY <2>1, <2>2 DEF SourceInv, HeldSources, OwnerInv, TypeOK, HeldOK
    <3> QED BY <3>1, HeldFromStays
  <2>3. ASSUME NEW i \in DOMAIN todo'[k], todo'[k][i].kind = "sources",
               NEW c, c = todo'[k][i].claim, NEW ev, ev = todo'[k][i].ev
        PROVE  MayStore(k, c, ev)'
    <3>1. todo[k][i] \in Allowed(k)
      BY <2>1, <2>3, ElementOfSeq DEF OwnerInv, TodoIsAllowed
    <3>2. c \in ClaimId /\ MayStore(k, c, ev)
      BY <2>1, <2>3, <3>1 DEF Allowed, SourceInv, RowSources
    <3> QED BY <3>2, StoredStays
  <2>4. HeldSources(k)'
    BY <2>2 DEF HeldSources, HeldFrom, MayStore, StoredAt
  <2>5. RowSources(k)'
    BY <2>3 DEF RowSources, MayStore, StoredAt
  <2> QED BY <2>4, <2>5
<1>2. HeldSources(j)' /\ RowSources(j)'
  BY StepHeldSources, StepRowSources DEF SourceInv
<1> QED BY <1>1, <1>2 DEF SourceInv

-------------------------------------------------------------------------------
(* What a run does to the results of its own job and of others *)

\* No run is over when it takes a step.
LEMMA StepsAreAlive ==
  ASSUME NEW j \in Jobs, Step(j)
  PROVE  pc[j] # "over"
<1> USE DEF At
<1>1. CASE \/ Begin(j) \/ CopyBias(j) \/ CopyClaim(j) \/ CopySources(j) \/ CopyVerdict(j)
           \/ CopyOverall(j) \/ CopyStatus(j) \/ CopyAudit(j) \/ CloneFails(j) \/ Route(j)
  BY <1>1 DEF Begin, CopyBias, CopyClaim, CopySources, CopyVerdict, CopyOverall, CopyStatus,
              CopyAudit, CloneFails, Route
<1>2. CASE \/ FastAnswer(j) \/ Extract(j) \/ FallBack(j) \/ Miss(j) \/ Hit(j)
           \/ FastConclude(j) \/ Judge(j) \/ JudgeFails(j) \/ AllCached(j) \/ Recover(j)
  BY <1>2 DEF FastAnswer, Extract, FallBack, Miss, Hit, FastConclude, Judge, JudgeFails,
              AllCached, Recover
<1>3. CASE \/ InsertBias(j) \/ InsertSource(j) \/ SourcesDone(j) \/ InsertVerdict(j)
           \/ InsertOverall(j) \/ SetStatus(j) \/ Fail(j)
  BY <1>3 DEF InsertBias, InsertSource, SourcesDone, InsertVerdict, InsertOverall, SetStatus,
              Fail
<1> QED BY <1>1, <1>2, <1>3 DEF Step

\* A run writes no article and no bias row of another job.
LEMMA OthersRows ==
  ASSUME TypeOK, NEW j \in Jobs, Step(j), NEW k \in Jobs, k # j
  PROVE  bias'[k] = bias[k] /\ (k \in linked' <=> k \in linked)
<1> USE DEF TypeOK, TablesOK, db
<1>1. CASE Begin(j) \/ CopyStatus(j) \/ CopyAudit(j) \/ CloneFails(j)
  BY <1>1 DEF Begin, CopyStatus, CopyAudit, CloneFails
<1>2. CASE CopyBias(j)
  <2>1. PICK n : bias' = [bias EXCEPT ![j] = n] /\ linked' = linked
    BY <1>2 DEF CopyBias
  <2> QED BY <2>1
<1>3. CASE CopyClaim(j) \/ CopySources(j) \/ CopyVerdict(j) \/ CopyOverall(j)
  <2>1. bias' = bias /\ linked' = linked
    BY <1>3 DEF CopyClaim, CopySources, CopyVerdict, CopyOverall
  <2> QED BY <2>1
<1>4. CASE Route(j) \/ FastAnswer(j) \/ Extract(j) \/ FallBack(j) \/ Miss(j) \/ Hit(j)
  BY <1>4 DEF Route, FastAnswer, Extract, FallBack, Miss, Hit
<1>5. CASE FastConclude(j) \/ Judge(j) \/ JudgeFails(j) \/ AllCached(j) \/ Recover(j)
  BY <1>5 DEF FastConclude, Judge, JudgeFails, AllCached, Conclude, Recover
<1>6. CASE \/ InsertBias(j) \/ InsertSource(j) \/ SourcesDone(j) \/ InsertVerdict(j)
           \/ InsertOverall(j) \/ SetStatus(j) \/ Fail(j)
  BY <1>6 DEF InsertBias, InsertSource, SourcesDone, InsertVerdict, InsertOverall, SetStatus,
              Fail
<1> QED BY <1>1, <1>2, <1>3, <1>4, <1>5, <1>6 DEF Step

\* Nor a verdict for it.
LEMMA OthersVerdicts ==
  ASSUME OwnerInv, NEW j \in Jobs, Step(j), NEW k \in Jobs, k # j
  PROVE  ResultOf(k).verdicts' = ResultOf(k).verdicts
<1>1. CASE verdicts' = verdicts
  BY <1>1 DEF ResultOf
<1>2. CASE verdicts' # verdicts
  <2>1. PICK c, v : verdicts' = Append(verdicts, [job |-> j, claim |-> c, value |-> v])
    BY <1>2, VerdictsGrow
  <2>2. {i \in DOMAIN verdicts' : verdicts'[i].job = k}
          = {i \in DOMAIN verdicts : verdicts[i].job = k}
    BY <2>1 DEF OwnerInv, TypeOK, TablesOK
  <2>3. \A i \in DOMAIN verdicts : verdicts'[i] = verdicts[i]
    BY <2>1 DEF OwnerInv, TypeOK, TablesOK
  <2> QED BY <2>2, <2>3 DEF ResultOf
<1> QED BY <1>1, <1>2

\* It adds no claim to another job, and its sources are repetitions.
LEMMA OthersClaims ==
  ASSUME OwnerInv, OwnerInv', SourceInv, Growth, NEW j \in Jobs, Step(j), NEW k \in Jobs, k # j
  PROVE  /\ ClaimsOf(k)' = ClaimsOf(k)
         /\ \A c \in ClaimsOf(k) : \A m \in DOMAIN claims'[c].ev :
              \E n \in DOMAIN claims[c].ev : claims'[c].ev[m] = claims[c].ev[n]
<1>a. claims \in Seq(Claim) /\ claims' \in Seq(Claim) /\ DOMAIN claims = ClaimId
  BY DEF OwnerInv, TypeOK, TablesOK, ClaimId
<1>1. CASE claims' = claims
  BY <1>1 DEF ClaimsOf, ClaimId
<1>2. ASSUME NEW x, claims' = Append(claims, x), x.job = j
      PROVE  /\ ClaimsOf(k)' = ClaimsOf(k)
             /\ \A c \in ClaimsOf(k) : claims'[c] = claims[c]
  BY <1>a, <1>2 DEF ClaimsOf, ClaimId
<1>3. CASE InsertSource(j)
  <2>1. PICK row \in Allowed(j) : /\ row = Head(todo[j]) /\ row.kind = "sources"
                                  /\ row.ev # <<>> /\ row.ev \in Seq(Source)
                                  /\ row = todo[j][1] /\ 1 \in DOMAIN todo[j]
    <3>1. Head(todo[j]) \in Allowed(j) /\ Head(todo[j]).kind = "sources" /\ todo[j] # <<>>
          /\ Head(todo[j]).ev # <<>>
      BY <1>3, HeadIsAllowed DEF InsertSource, Pops
    <3>2. Head(todo[j]) = todo[j][1] /\ 1 \in DOMAIN todo[j]
      BY <3>1, HeadTailProperties DEF OwnerInv, TypeOK, HeldOK
    <3> QED BY <3>1, <3>2 DEF Allowed, Row
  <2>2. row.claim \in ClaimId /\ MayStore(j, row.claim, row.ev)
    BY <2>1 DEF Allowed, SourceInv, RowSources
  <2>3. claims' = [claims EXCEPT ![row.claim].ev = Append(@, Head(row.ev))]
    BY <1>3, <2>1 DEF InsertSource
  <2>4. ClaimsOf(k)' = ClaimsOf(k)
    BY <1>a, <2>2, <2>3 DEF ClaimsOf, ClaimId
  <2>5. ASSUME NEW c \in ClaimsOf(k), NEW m \in DOMAIN claims'[c].ev
        PROVE  \E n \in DOMAIN claims[c].ev : claims'[c].ev[m] = claims[c].ev[n]
    <3>1. c \in ClaimId /\ claims[c].job = k /\ c \in DOMAIN claims /\ claims[c] \in Claim
      BY <1>a, ElementOfSeq DEF ClaimsOf
    <3>2. CASE c # row.claim
      BY <1>a, <2>3, <2>5, <3>1, <3>2
    <3>3. CASE c = row.claim
      <4>1. PICK s \in Seq(Source) : s = claims[c].ev
        BY <3>1 DEF Claim
      <4>2. PICK h : h = Head(row.ev) /\ h = row.ev[1] /\ 1 \in DOMAIN row.ev
        <5>1. PICK e \in Seq(Source) : e = row.ev /\ e # <<>>
          BY <2>1
        <5>2. Head(e) = e[1] /\ 1 \in DOMAIN e
          BY <5>1
        <5> QED BY <5>1, <5>2
      <4>3. claims'[c].ev = Append(s, h)
        BY <1>a, <2>3, <3>1, <3>3, <4>1, <4>2 DEF Claim
      <4>4. \E n \in DOMAIN s : s[n] = h
        BY <2>2, <3>1, <3>3, <4>1, <4>2 DEF MayStore, StoredAt
      <4>5. (m \in DOMAIN s /\ Append(s, h)[m] = s[m]) \/ Append(s, h)[m] = h
        BY <2>5, <4>1, <4>3
      <4> QED BY <4>1, <4>3, <4>4, <4>5
    <3> QED BY <3>2, <3>3
  <2> QED BY <2>4, <2>5
<1> QED BY <1>1, <1>2, <1>3, ClaimsChange

\* So the results of another job stay as they are.
LEMMA OthersResults ==
  ASSUME OwnerInv, OwnerInv', SourceInv, Growth, NEW j \in Jobs, Step(j), NEW k \in Jobs, k # j
  PROVE  ResultOf(k)' = ResultOf(k)
<1>1. linked' \cap {k} = linked \cap {k} /\ bias'[k] = bias[k]
  BY OthersRows DEF OwnerInv
<1>2. ClaimsOf(k)' = ClaimsOf(k)
  BY OthersClaims
<1>3. ResultOf(k).sources' = ResultOf(k).sources
  <2>1. ASSUME NEW c \in ClaimsOf(k)
        PROVE  {<<c, claims'[c].ev[m]>> : m \in DOMAIN claims'[c].ev}
                 = {<<c, claims[c].ev[m]>> : m \in DOMAIN claims[c].ev}
    <3>1. c \in ClaimId
      BY <2>1 DEF ClaimsOf
    <3>2. \A m \in DOMAIN claims[c].ev : m \in DOMAIN claims'[c].ev
                                          /\ claims'[c].ev[m] = claims[c].ev[m]
      BY <3>1, SourcesStay
    <3>3. \A m \in DOMAIN claims'[c].ev :
            \E n \in DOMAIN claims[c].ev : claims'[c].ev[m] = claims[c].ev[n]
      BY <2>1, OthersClaims
    <3> QED BY <3>2, <3>3
  <2> QED BY <1>2, <2>1 DEF ResultOf
<1>4. ResultOf(k).verdicts' = ResultOf(k).verdicts
  BY OthersVerdicts
<1> QED BY <1>1, <1>2, <1>3, <1>4 DEF ResultOf

\* And those of its own grow.
LEMMA OwnResults ==
  ASSUME OwnerInv, OwnerInv', Growth, NEW j \in Jobs, Step(j)
  PROVE  Results!Within(ResultOf(j), ResultOf(j)')
<1>1. linked \cap {j} \subseteq linked' \cap {j} /\ 1 .. bias[j] \subseteq 1 .. bias'[j]
  BY DEF Growth, OwnerInv, TypeOK, TablesOK
<1>2. ClaimsOf(j) \subseteq ClaimsOf(j)'
  BY DEF ClaimsOf, Growth
<1>3. ResultOf(j).sources \subseteq ResultOf(j)'.sources
  <2>1. \A c \in ClaimsOf(j) : \A m \in DOMAIN claims[c].ev :
          m \in DOMAIN claims'[c].ev /\ claims'[c].ev[m] = claims[c].ev[m]
    BY SourcesStay DEF ClaimsOf
  <2> QED BY <1>2, <2>1 DEF ResultOf
<1>4. ResultOf(j).verdicts \subseteq ResultOf(j)'.verdicts
  BY DEF ResultOf, Growth
<1> QED BY <1>1, <1>2, <1>3, <1>4 DEF ResultOf, Results!Within

-------------------------------------------------------------------------------
(* The column jobs.status *)

\* What the column may hold at the places of a run, and what the run is going to
\* write there.
ColumnInv ==
  \A j \in Jobs :
    /\ pc[j] = "queued" => status[j] = "PENDING"
    /\ pc[j] \notin {"queued", "over"} => status[j] \in {"PROCESSING", "COMPLETE"}
    /\ pc[j] \in {"bias", "write", "status"} => final[j].status \in {"COMPLETE", "PARTIAL"}

\* A run goes on with the status it has, or starts, or is a complete clone, or ends.
LEMMA StepColumn ==
  ASSUME TypeOK, ColumnInv, NEW j \in Jobs, Step(j)
  PROVE  /\ ColumnInv'
         /\ \E s \in Column!Values :
              /\ Column!MayFollow(status[j], s)
              /\ status' = [status EXCEPT ![j] = s]
<1> USE DEF At, Goto
<1>a. /\ status \in [Jobs -> {"PENDING", "PROCESSING", "COMPLETE", "PARTIAL", "FAILED"}]
      /\ pc \in [Jobs -> Places] /\ pc[j] # "over"
      /\ final \in [Jobs -> [value : OverallValues, status : {"COMPLETE", "PARTIAL", "FAILED"}]]
  BY StepsAreAlive DEF TypeOK, TablesOK, RunsOK
<1>1. ASSUME NEW s \in {"PROCESSING", "COMPLETE", "PARTIAL", "FAILED"},
             NEW p \in Places \ {"queued"}, NEW f,
             status' = [status EXCEPT ![j] = s],
             pc' = [pc EXCEPT ![j] = p], final' = [final EXCEPT ![j] = f],
             p # "over" => s \in {"PROCESSING", "COMPLETE"},
             p \in {"bias", "write", "status"} => f.status \in {"COMPLETE", "PARTIAL"}
      PROVE  ColumnInv'
  BY <1>a, <1>1 DEF ColumnInv
<1>2. ASSUME NEW p \in Places \ {"queued", "over"}, pc' = [pc EXCEPT ![j] = p],
             pc[j] # "queued", UNCHANGED status, UNCHANGED final,
             p \in {"bias", "write", "status"} => pc[j] \in {"bias", "write", "status"}
      PROVE  /\ ColumnInv'
             /\ \E s \in Column!Values :
                  /\ Column!MayFollow(status[j], s)
                  /\ status' = [status EXCEPT ![j] = s]
  <2>1. status[j] \in {"PROCESSING", "COMPLETE"} /\ status' = [status EXCEPT ![j] = status[j]]
        /\ final' = [final EXCEPT ![j] = final[j]]
    BY <1>a, <1>2 DEF ColumnInv
  <2>2. p \in {"bias", "write", "status"} => final[j].status \in {"COMPLETE", "PARTIAL"}
    BY <1>2 DEF ColumnInv
  <2>3. ColumnInv'
    BY <1>1, <1>2, <2>1, <2>2
  <2> QED BY <2>1, <2>3 DEF Column!Values, Column!MayFollow
<1>3. CASE Begin(j)
  <2>1. PICK p \in {"route", "copyBias"} :
          pc' = [pc EXCEPT ![j] = p] /\ pc[j] = "queued" /\ UNCHANGED final
          /\ status' = [status EXCEPT ![j] = "PROCESSING"]
    BY <1>3 DEF Begin, held, locals
  <2>2. status[j] = "PENDING" /\ final' = [final EXCEPT ![j] = final[j]]
    BY <1>a, <2>1 DEF ColumnInv
  <2>3. ColumnInv'
    BY <1>1, <2>1, <2>2 DEF Places
  <2> QED BY <2>1, <2>2, <2>3 DEF Column!Values, Column!MayFollow
<1>4. CASE CopyStatus(j)
  <2>1. /\ pc[j] = "copyStatus" /\ pc' = [pc EXCEPT ![j] = "copyAudit"] /\ UNCHANGED final
        /\ status' = [status EXCEPT ![j] = "COMPLETE"]
    BY <1>4 DEF CopyStatus, held, locals
  <2>2. status[j] \in {"PROCESSING", "COMPLETE"} /\ final' = [final EXCEPT ![j] = final[j]]
    BY <1>a, <2>1 DEF ColumnInv
  <2>3. ColumnInv'
    BY <1>1, <2>1, <2>2 DEF Places
  <2> QED BY <2>1, <2>2, <2>3 DEF Column!Values, Column!MayFollow, Column!Results
<1>5. CASE CopyAudit(j) \/ SetStatus(j) \/ Fail(j)
  <2>1. pc' = [pc EXCEPT ![j] = "over"] /\ final' = [final EXCEPT ![j] = NoResult]
    BY <1>5 DEF CopyAudit, SetStatus, Fail, Ends
  <2>2. pc[j] # "queued" /\ status[j] \in {"PROCESSING", "COMPLETE"}
    BY <1>a, <1>5 DEF CopyAudit, SetStatus, Fail, ColumnInv
  <2>3. PICK s \in {status[j], final[j].status, "FAILED"} :
          /\ status' = [status EXCEPT ![j] = s]
          /\ s = final[j].status => s \in {"COMPLETE", "PARTIAL"} \/ s = status[j] \/ s = "FAILED"
    BY <1>a, <1>5 DEF CopyAudit, SetStatus, Fail, ColumnInv, db
  <2>4. s \in {"PROCESSING", "COMPLETE", "PARTIAL", "FAILED"}
        /\ (s = "PROCESSING" => status[j] = "PROCESSING")
    BY <2>2, <2>3
  <2>5. ColumnInv'
    BY <1>1, <2>1, <2>3, <2>4 DEF Places
  <2> QED BY <2>2, <2>3, <2>4, <2>5 DEF Column!Values, Column!MayFollow, Column!Results
<1>6. CASE FastConclude(j) \/ Judge(j) \/ JudgeFails(j) \/ AllCached(j) \/ Recover(j)
  <2>1. PICK p \in {"bias", "write"} : pc' = [pc EXCEPT ![j] = p]
    BY <1>6 DEF FastConclude, Judge, JudgeFails, AllCached, Recover
  <2>2. (\E v : final' = [final EXCEPT ![j] = [value |-> v, status |-> "PARTIAL"]])
          \/ (\E v : final' = [final EXCEPT ![j] = [value |-> v, status |-> "COMPLETE"]])
    <3>1. CASE Recover(j)
      BY <3>1 DEF Recover
    <3>2. CASE FastConclude(j)
      BY <3>2 DEF FastConclude, Conclude
    <3>3. CASE Judge(j)
      BY <3>3 DEF Judge, Conclude
    <3>4. CASE JudgeFails(j) \/ AllCached(j)
      BY <3>4 DEF JudgeFails, AllCached, Conclude
    <3> QED BY <1>6, <3>1, <3>2, <3>3, <3>4
  <2>3. PICK v, s : /\ s \in {"COMPLETE", "PARTIAL"}
                    /\ final' = [final EXCEPT ![j] = [value |-> v, status |-> s]]
    BY <2>2
  <2>4. UNCHANGED status /\ pc[j] \in {"fast", "full", "recovery"}
    BY <1>6 DEF FastConclude, Judge, JudgeFails, AllCached, Conclude, Recover, db
  <2>5. status[j] \in {"PROCESSING", "COMPLETE"} /\ status' = [status EXCEPT ![j] = status[j]]
    BY <1>a, <2>4 DEF ColumnInv
  <2>6. ColumnInv'
    BY <1>1, <2>1, <2>3, <2>5 DEF Places
  <2> QED BY <2>5, <2>6 DEF Column!Values, Column!MayFollow
<1>7. CASE CopyBias(j) \/ CopyOverall(j) \/ CloneFails(j) \/ Route(j)
  <2>1. PICK p \in {"copy", "copyStatus", "route", "recovery", "fastAsk", "fullAsk"} :
          pc' = [pc EXCEPT ![j] = p]
    BY <1>7 DEF CopyBias, CopyOverall, CloneFails, Route
  <2>2. pc[j] # "queued" /\ UNCHANGED status /\ UNCHANGED final
    BY <1>7 DEF CopyBias, CopyOverall, CloneFails, Route, held, locals, db
  <2> QED BY <1>2, <2>1, <2>2 DEF Places
<1>8. CASE FastAnswer(j) \/ Extract(j) \/ FallBack(j) \/ InsertBias(j) \/ InsertOverall(j)
  <2>1. PICK p \in {"fast", "full", "recovery", "write", "status"} :
          /\ pc' = [pc EXCEPT ![j] = p]
          /\ p \in {"write", "status"} => pc[j] \in {"bias", "write"}
    BY <1>8 DEF FastAnswer, Extract, FallBack, InsertBias, InsertOverall
  <2>2. pc[j] # "queued" /\ UNCHANGED status /\ UNCHANGED final
    BY <1>8 DEF FastAnswer, Extract, FallBack, InsertBias, InsertOverall, held, locals, db
  <2> QED BY <1>2, <2>1, <2>2 DEF Places
<1>9. CASE \/ CopyClaim(j) \/ CopySources(j) \/ CopyVerdict(j) \/ Miss(j) \/ Hit(j)
           \/ InsertSource(j) \/ SourcesDone(j) \/ InsertVerdict(j)
  <2>1. UNCHANGED <<pc, status, final>> /\ pc[j] # "queued"
    BY <1>9 DEF CopyClaim, CopySources, CopyVerdict, Miss, Hit, InsertSource, SourcesDone,
                InsertVerdict, held, locals, db
  <2>2. pc' = [pc EXCEPT ![j] = pc[j]] /\ pc[j] \in Places \ {"queued", "over"}
    BY <1>a, <2>1
  <2> QED BY <1>2, <2>1, <2>2
<1> QED BY <1>3, <1>4, <1>5, <1>6, <1>7, <1>8, <1>9 DEF Step

-------------------------------------------------------------------------------
(* What a run says last about a claim with a cached verdict *)

VerdictAt(j, c, i) == todo[j][i].kind = "verdict" /\ todo[j][i].claim = c

\* The last thing j is going to write about c is the cached verdict v ...
Promised(j, c, v) ==
  \E i \in DOMAIN todo[j] :
    /\ VerdictAt(j, c, i) /\ todo[j][i].value = v
    /\ \A k \in DOMAIN todo[j] : VerdictAt(j, c, k) => k <= i

Quiet(j, c) == \A i \in DOMAIN todo[j] : ~VerdictAt(j, c, i)

\* ... or was the last thing it wrote.
Stands(j, c, v) ==
  \E i \in RowsOn(c) : /\ verdicts[i].job = j /\ verdicts[i].value = v
                      /\ \A k \in RowsOn(c) : verdicts[k].job = j => k <= i

Reuses(j, c, v) == Promised(j, c, v) \/ (Quiet(j, c) /\ Stands(j, c, v))

AllReused(j) == \A c \in Cached(j) : Reuses(j, c, known[j][c].value)

ReuseInv(j) ==
  /\ pc[j] \notin {"full", "bias", "write", "status"} => Cached(j) = {}
  /\ pc[j] \in {"bias", "write", "status"} => AllReused(j)
  /\ pc[j] = "status" => todo[j] = <<>>

AllReuseInv == \A j \in Jobs : ReuseInv(j)

\* Rows about another claim or of another job change nothing.
LEMMA StandsStill ==
  ASSUME TablesOK, NEW j \in Jobs, NEW k \in Jobs, NEW d, NEW w, NEW c, NEW v,
         Stands(k, c, v), d # c \/ j # k,
         verdicts' = Append(verdicts, [job |-> j, claim |-> d, value |-> w])
  PROVE  Stands(k, c, v)'
<1>1. PICK i \in RowsOn(c) : /\ verdicts[i].job = k /\ verdicts[i].value = v
                            /\ \A m \in RowsOn(c) : verdicts[m].job = k => m <= i
  BY DEF Stands
<1>2. i \in RowsOn(c)' /\ verdicts'[i] = verdicts[i]
  BY <1>1 DEF TablesOK, RowsOn
<1>3. ASSUME NEW m \in RowsOn(c)', verdicts'[m].job = k
      PROVE  m <= i
  <2>1. m \in RowsOn(c) /\ verdicts'[m] = verdicts[m]
    BY <1>3 DEF TablesOK, RowsOn
  <2> QED BY <1>1, <1>3, <2>1
<1> QED BY <1>1, <1>2, <1>3 DEF Stands

LEMMA StandsNow ==
  ASSUME TablesOK, NEW j \in Jobs, NEW c, NEW v,
         verdicts' = Append(verdicts, [job |-> j, claim |-> c, value |-> v])
  PROVE  Stands(j, c, v)'
<1> DEFINE n == Len(verdicts) + 1
<1>1. /\ n \in RowsOn(c)' /\ verdicts'[n].job = j /\ verdicts'[n].value = v
      /\ \A m \in RowsOn(c)' : m <= n
  BY DEF TablesOK, RowsOn
<1> QED BY <1>1 DEF Stands

\* The first row is written.
LEMMA PromiseMovesUp ==
  ASSUME OwnerInv, NEW j \in Jobs, NEW c, NEW v, todo[j] # <<>>, ~VerdictAt(j, c, 1),
         todo' = [todo EXCEPT ![j] = Tail(todo[j])]
  PROVE  /\ Promised(j, c, v) => Promised(j, c, v)'
         /\ Quiet(j, c) => Quiet(j, c)'
<1>1. todo[j] \in Seq(Row) /\ todo'[j] = Tail(todo[j])
  BY DEF OwnerInv, TypeOK, HeldOK
<1>2. /\ Len(todo[j]) \in Nat /\ DOMAIN todo[j] = 1 .. Len(todo[j])
      /\ DOMAIN todo'[j] = 1 .. Len(todo[j]) - 1
      /\ \A i \in DOMAIN todo'[j] : todo'[j][i] = todo[j][i + 1]
  <2>1. PICK r \in Seq(Row) : r = todo[j] /\ r # <<>>
    BY <1>1
  <2>2. /\ Len(r) \in Nat /\ DOMAIN r = 1 .. Len(r) /\ DOMAIN Tail(r) = 1 .. Len(r) - 1
        /\ \A i \in 1 .. Len(r) - 1 : Tail(r)[i] = r[i + 1]
    BY <2>1
  <2> QED BY <1>1, <2>1, <2>2
<1>3. ASSUME Quiet(j, c)
      PROVE  Quiet(j, c)'
  <2>1. ASSUME NEW i \in DOMAIN todo'[j]
        PROVE  ~VerdictAt(j, c, i)'
    <3>1. i + 1 \in DOMAIN todo[j] /\ todo'[j][i] = todo[j][i + 1]
      BY <1>2
    <3> QED BY <1>3, <3>1 DEF Quiet, VerdictAt
  <2> QED BY <2>1 DEF Quiet
<1>4. ASSUME Promised(j, c, v)
      PROVE  Promised(j, c, v)'
  <2>1. PICK i \in DOMAIN todo[j] :
          /\ VerdictAt(j, c, i) /\ todo[j][i].value = v
          /\ \A k \in DOMAIN todo[j] : VerdictAt(j, c, k) => k <= i
    BY <1>4 DEF Promised
  <2>2. i # 1 /\ i - 1 \in DOMAIN todo'[j] /\ todo'[j][i - 1] = todo[j][i]
    BY <1>2, <2>1
  <2>3. ASSUME NEW k \in DOMAIN todo'[j], VerdictAt(j, c, k)'
        PROVE  k <= i - 1
    <3>1. VerdictAt(j, c, k + 1) /\ k + 1 \in DOMAIN todo[j] /\ k \in Int /\ i \in Int
      BY <1>2, <2>3 DEF VerdictAt
    <3>2. k + 1 <= i
      BY <2>1, <3>1
    <3> QED BY <3>1, <3>2
  <2> QED BY <2>1, <2>2, <2>3 DEF Promised, VerdictAt
<1> QED BY <1>3, <1>4

\* A source is written: the rows stay where they are.
LEMMA PromiseStays ==
  ASSUME OwnerInv, NEW j \in Jobs, NEW c, NEW v, NEW d, NEW ev, Pops(j, "sources"),
         todo' = [todo EXCEPT ![j] = <<SourceRows(d, ev)>> \o Tail(todo[j])]
  PROVE  /\ Promised(j, c, v) => Promised(j, c, v)'
         /\ Quiet(j, c) => Quiet(j, c)'
<1>1. PICK s : s = SourceRows(d, ev)
  OBVIOUS
<1>2. /\ todo[j] \in Seq(Row) /\ todo'[j] = <<s>> \o Tail(todo[j]) /\ todo[j] # <<>>
      /\ s.kind # "verdict" /\ todo[j][1].kind # "verdict"
  BY <1>1 DEF OwnerInv, TypeOK, HeldOK, Pops, SourceRows
<1>3. /\ DOMAIN todo'[j] = DOMAIN todo[j] /\ todo'[j][1] = s
      /\ \A i \in DOMAIN todo[j] : i # 1 => todo'[j][i] = todo[j][i]
  BY <1>2
<1>4. ASSUME NEW i \in DOMAIN todo[j]
      PROVE  /\ VerdictAt(j, c, i)' <=> VerdictAt(j, c, i)
             /\ VerdictAt(j, c, i) => todo'[j][i] = todo[j][i]
  <2>1. CASE i = 1
    BY <1>2, <1>3, <2>1 DEF VerdictAt
  <2>2. CASE i # 1
    BY <1>3, <2>2 DEF VerdictAt
  <2> QED BY <2>1, <2>2
<1> QED BY <1>3, <1>4 DEF Promised, Quiet

\* The cached verdicts come last, one for each claim.
LEMMA CachedLast ==
  ASSUME OwnerInv, NEW j \in Jobs, NEW q \in Listings(Cached(j)), NEW S, NEW s \in Seq(S),
         todo'[j] = s \o CachedRows(j, q), known' = known, NEW c \in Cached(j)
  PROVE  Promised(j, c, known[j][c].value)'
<1>1. Cached(j) \in SUBSET ClaimId
  BY DEF OwnerInv, TypeOK, HeldOK, Cached
<1>2. IsFiniteSet(Cached(j))
  <2>1. Len(claims) \in Nat
    BY DEF OwnerInv, TypeOK, TablesOK
  <2>2. IsFiniteSet(ClaimId)
    BY <2>1, FS_Interval DEF ClaimId
  <2> QED BY <1>1, <2>2, FS_Subset
<1>3. PICK n \in Nat : n = Cardinality(Cached(j))
  BY <1>2, FS_CardinalityType
<1>4. /\ q \in [1 .. n -> Cached(j)]
      /\ \A i, k \in 1 .. n : q[i] = q[k] => i = k
  BY <1>3 DEF Listings
<1>5. PICK m \in 1 .. n : q[m] = c
  <2>1. q \in Injection(1 .. n, Cached(j))
    BY <1>4 DEF Injection, IsInjective
  <2>2. Cardinality(1 .. n) = Cardinality(Cached(j))
    BY <1>3, FS_Interval
  <2>3. q \in Surjection(1 .. n, Cached(j))
    BY <1>2, <2>1, <2>2, FS_Injection
  <2> QED BY <2>3 DEF Surjection
<1> DEFINE t == CachedRows(j, q)
           T == {VerdictRow(q[i], known[j][q[i]].value) : i \in 1 .. n}
<1>6. t = [i \in 1 .. n |-> VerdictRow(q[i], known[j][q[i]].value)]
  BY <1>4 DEF CachedRows
<1>7. t \in Seq(T)
  <2>1. t \in [1 .. n -> T]
    BY <1>6
  <2> HIDE DEF t, T
  <2> QED BY <2>1
<1>8. \A i \in 1 .. n : t[i].kind = "verdict" /\ t[i].claim = q[i]
                        /\ t[i].value = known[j][q[i]].value
  BY <1>6 DEF VerdictRow
<1>9. Len(t) = n /\ DOMAIN t = 1 .. n
  BY <1>6
<1> HIDE DEF t, T
<1>10. /\ Len(s) \in Nat /\ DOMAIN (s \o t) = 1 .. Len(s) + n
       /\ \A i \in 1 .. n : (s \o t)[Len(s) + i] = t[i]
  <2>1. PICK U : s \in Seq(U) /\ t \in Seq(U)
    <3>1. s \in Seq(S \cup T) /\ t \in Seq(S \cup T)
      BY <1>7, SeqMonotonic
    <3> QED BY <3>1
  <2>2. Len(s) \in Nat /\ Len(s \o t) = Len(s) + n /\ s \o t \in Seq(U)
    <3>1. Len(s \o t) = Len(s) + Len(t) /\ s \o t \in Seq(U)
      BY <2>1, ConcatProperties
    <3>2. Len(s) \in Nat
      BY <2>1
    <3> QED BY <1>9, <3>1, <3>2
  <2>3. \A i \in 1 .. n : (s \o t)[Len(s) + i] = t[i]
    BY <1>9, <2>1, <2>2
  <2> QED BY <2>2, <2>3
<1>11. todo'[j] = s \o t
  BY DEF t
<1> DEFINE p == Len(s) + m
<1>12. p \in DOMAIN todo'[j] /\ todo'[j][p] = t[m]
  BY <1>10, <1>11
<1>13. VerdictAt(j, c, p)' /\ todo'[j][p].value = known'[j][c].value
  BY <1>5, <1>8, <1>12 DEF VerdictAt
<1>14. ASSUME NEW k \in DOMAIN todo'[j], VerdictAt(j, c, k)'
       PROVE  k <= p
  <2>1. k \in 1 .. Len(s) + n
    BY <1>10, <1>11
  <2>2. CASE k > Len(s)
    <3>1. PICK i \in 1 .. n : k = Len(s) + i
      <4>1. k - Len(s) \in 1 .. n /\ k = Len(s) + (k - Len(s))
        BY <1>10, <2>1, <2>2
      <4> QED BY <4>1
    <3>2. q[i] = c
      BY <1>8, <1>10, <1>11, <1>14, <3>1 DEF VerdictAt
    <3>3. i = m
      BY <1>4, <1>5, <3>2
    <3> QED BY <3>1, <3>3
  <2> QED BY <1>10, <2>1, <2>2
<1> QED BY <1>12, <1>13, <1>14 DEF Promised

\* The rows of a model's answer make a sequence.
LEMMA AnswerSequence ==
  ASSUME OwnerInv, NEW j \in Jobs, NEW evs, NEW a \in Answers(Missed(j)),
         NEW q \in Listings(Cached(j))
  PROVE  \E S : /\ SourcesOf(j, evs) \o VerdictRows(a) \in Seq(S)
<1>1. Missed(j) \in SUBSET ClaimId
  BY DEF OwnerInv, TypeOK, HeldOK, Missed
<1>2. PICK n \in Nat : a \in [1 .. n -> Missed(j) \X Judgements]
  BY <1>1, ListingsAreSequences DEF OwnerInv, Answers
<1> DEFINE A == {SourcesOf(j, evs)[k] : k \in 1 .. Len(mine[j])}
           B == {VerdictRows(a)[k] : k \in 1 .. n}
           S == A \cup B
<1>3. Len(mine[j]) \in Nat /\ DOMAIN mine[j] = 1 .. Len(mine[j])
  BY LenProperties DEF OwnerInv, TypeOK, HeldOK
<1>4. SourcesOf(j, evs) \in [1 .. Len(mine[j]) -> S]
  BY <1>3 DEF SourcesOf
<1>5. VerdictRows(a) \in [1 .. n -> S]
  BY <1>2 DEF VerdictRows
<1> HIDE DEF S
<1>6. SourcesOf(j, evs) \in Seq(S) /\ VerdictRows(a) \in Seq(S)
  BY <1>3, <1>4, <1>5
<1> QED BY <1>6, ConcatProperties

\* The same of the rows of a run without an answer.
LEMMA ComputedSequence ==
  ASSUME OwnerInv, NEW j \in Jobs, NEW evs, NEW m, NEW n \in Nat, DOMAIN m = 1 .. n
  PROVE  \E S : SourcesOf(j, evs) \o FallbackRows(j, m) \in Seq(S)
<1> DEFINE A == {SourcesOf(j, evs)[k] : k \in 1 .. Len(mine[j])}
           B == {FallbackRows(j, m)[k] : k \in 1 .. n}
           S == A \cup B
<1>3. Len(mine[j]) \in Nat /\ DOMAIN mine[j] = 1 .. Len(mine[j])
  BY LenProperties DEF OwnerInv, TypeOK, HeldOK
<1>4. SourcesOf(j, evs) \in [1 .. Len(mine[j]) -> S]
  BY <1>3 DEF SourcesOf
<1>5. FallbackRows(j, m) \in [1 .. n -> S]
  BY DEF FallbackRows
<1> HIDE DEF S
<1>6. SourcesOf(j, evs) \in Seq(S) /\ FallbackRows(j, m) \in Seq(S)
  BY <1>3, <1>4, <1>5
<1> QED BY <1>6, ConcatProperties

LEMMA ConcludeReuse ==
  ASSUME NEW j \in Jobs, OwnerInv, ReuseInv(j), Concludes(j)
  PROVE  AllReused(j)'
<1>a. todo \in [Jobs -> Seq(Row)]
  BY DEF OwnerInv, TypeOK, HeldOK
<1>b. known' = known /\ Cached(j)' = Cached(j)
  BY DEF Concludes, FastConclude, Judge, JudgeFails, AllCached, Conclude, Cached
<1>1. ASSUME NEW S, NEW s \in Seq(S), NEW q \in Listings(Cached(j)),
             todo' = [todo EXCEPT ![j] = s \o CachedRows(j, q)]
      PROVE  AllReused(j)'
  <2>1. todo'[j] = s \o CachedRows(j, q)
    BY <1>a, <1>1
  <2>2. ASSUME NEW c \in Cached(j)
        PROVE  Promised(j, c, known[j][c].value)'
    BY <1>b, <2>1, CachedLast
  <2>3. ASSUME NEW c \in Cached(j)
        PROVE  Reuses(j, c, known[j][c].value)'
    BY <2>2 DEF Reuses
  <2> QED BY <1>b, <2>3 DEF AllReused
<1>2. CASE FastConclude(j)
  <2>1. Cached(j) = {}
    BY <1>2 DEF ReuseInv, FastConclude, At
  <2> QED BY <1>b, <2>1 DEF AllReused
<1>3. CASE Judge(j)
  <2>1. PICK a \in Answers(Missed(j)), q \in Listings(Cached(j)),
             evs \in Classified(j) :
          todo' = [todo EXCEPT ![j] = SourcesOf(j, evs) \o VerdictRows(a) \o CachedRows(j, q)]
    BY <1>3 DEF Judge, Conclude
  <2>2. PICK s : s = SourcesOf(j, evs) \o VerdictRows(a)
    OBVIOUS
  <2>3. PICK S : s \in Seq(S)
    BY <2>2, AnswerSequence
  <2> QED BY <1>1, <2>1, <2>2, <2>3
<1>4. CASE JudgeFails(j)
  <2>1. PICK m \in Listings(Missed(j)), q \in Listings(Cached(j)) :
          todo' = [todo EXCEPT ![j] =
                     SourcesOf(j, AsFound(j)) \o FallbackRows(j, m) \o CachedRows(j, q)]
    BY <1>4 DEF JudgeFails, Conclude
  <2>2. PICK s : s = SourcesOf(j, AsFound(j)) \o FallbackRows(j, m)
    OBVIOUS
  <2>3. PICK S : s \in Seq(S)
    <3>1. Missed(j) \in SUBSET ClaimId
      BY DEF OwnerInv, TypeOK, HeldOK, Missed
    <3>2. m \in Seq(Missed(j))
      BY <3>1, ListingsAreSequences DEF OwnerInv
    <3>3. Len(m) \in Nat /\ DOMAIN m = 1 .. Len(m)
      BY <3>2, LenProperties
    <3> QED BY <2>2, <3>3, ComputedSequence
  <2> QED BY <1>1, <2>1, <2>2, <2>3
<1>5. CASE AllCached(j)
  <2>1. PICK q \in Listings(Cached(j)) :
          todo' = [todo EXCEPT ![j] =
                     SourcesOf(j, <<>>) \o FallbackRows(j, mine[j]) \o CachedRows(j, q)]
    BY <1>5 DEF AllCached, Conclude
  <2>2. PICK s : s = SourcesOf(j, <<>>) \o FallbackRows(j, mine[j])
    OBVIOUS
  <2>3. PICK S : s \in Seq(S)
    <3>1. Len(mine[j]) \in Nat /\ DOMAIN mine[j] = 1 .. Len(mine[j])
      BY LenProperties DEF OwnerInv, TypeOK, HeldOK
    <3> QED BY <2>2, <3>1, ComputedSequence
  <2> QED BY <1>1, <2>1, <2>2, <2>3
<1> QED BY <1>2, <1>3, <1>4, <1>5 DEF Concludes

\* While a run writes, each promise is kept or fulfilled.
LEMMA WriteReuse ==
  ASSUME NEW j \in Jobs, OwnerInv, NEW c \in Cached(j), NEW v, Reuses(j, c, v),
         \/ InsertBias(j) \/ InsertSource(j) \/ SourcesDone(j) \/ InsertVerdict(j)
         \/ InsertOverall(j)
  PROVE  Reuses(j, c, v)'
<1>a. TablesOK /\ todo \in [Jobs -> Seq(Row)]
  BY DEF OwnerInv, TypeOK, HeldOK
<1>b. c # Overall
  BY DEF OwnerInv, TypeOK, HeldOK, Cached, ClaimId, Overall
<1>1. CASE InsertBias(j)
  BY <1>1 DEF InsertBias, Reuses, Promised, Quiet, VerdictAt, Stands, RowsOn
<1>2. CASE InsertSource(j)
  <2>1. PICK d, ev : todo' = [todo EXCEPT ![j] = <<SourceRows(d, ev)>> \o Tail(todo[j])]
    BY <1>2 DEF InsertSource
  <2>2. Pops(j, "sources") /\ verdicts' = verdicts
    BY <1>2 DEF InsertSource
  <2>3. /\ Promised(j, c, v) => Promised(j, c, v)'
        /\ Quiet(j, c) => Quiet(j, c)'
    BY <2>1, <2>2, PromiseStays
  <2> QED BY <2>2, <2>3 DEF Reuses, Stands, RowsOn
<1>3. CASE SourcesDone(j)
  <2>1. /\ Pops(j, "sources") /\ verdicts' = verdicts
        /\ todo' = [todo EXCEPT ![j] = Tail(todo[j])]
    BY <1>3 DEF SourcesDone, db
  <2>2. todo[j] # <<>> /\ ~VerdictAt(j, c, 1)
    BY <1>a, <2>1 DEF Pops, VerdictAt
  <2>3. /\ Promised(j, c, v) => Promised(j, c, v)'
        /\ Quiet(j, c) => Quiet(j, c)'
    BY <2>1, <2>2, PromiseMovesUp
  <2> QED BY <2>1, <2>3 DEF Reuses, Stands, RowsOn
<1>4. CASE InsertVerdict(j)
  <2>0. PICK d, w : d = Head(todo[j]).claim /\ w = Head(todo[j]).value
    OBVIOUS
  <2>1. /\ Pops(j, "verdict") /\ todo' = [todo EXCEPT ![j] = Tail(todo[j])]
        /\ verdicts' = Append(verdicts, [job |-> j, claim |-> d, value |-> w])
    BY <1>4, <2>0 DEF InsertVerdict
  <2>2. /\ todo[j] # <<>> /\ 1 \in DOMAIN todo[j]
        /\ todo[j][1].kind = "verdict" /\ todo[j][1].claim = d /\ todo[j][1].value = w
    BY <1>a, <2>0, <2>1 DEF Pops
  <2>3. CASE d # c
    <3>1. ~VerdictAt(j, c, 1)
      BY <2>2, <2>3 DEF VerdictAt
    <3>2. /\ Promised(j, c, v) => Promised(j, c, v)'
          /\ Quiet(j, c) => Quiet(j, c)'
      BY <2>1, <2>2, <3>1, PromiseMovesUp
    <3>3. Stands(j, c, v) => Stands(j, c, v)'
      BY <1>a, <2>1, <2>3, StandsStill
    <3> QED BY <3>2, <3>3 DEF Reuses
  <2>4. CASE d = c
    <3>1. VerdictAt(j, c, 1)
      BY <2>2, <2>4 DEF VerdictAt
    <3>2. PICK i \in DOMAIN todo[j] :
            /\ VerdictAt(j, c, i) /\ todo[j][i].value = v
            /\ \A k \in DOMAIN todo[j] : VerdictAt(j, c, k) => k <= i
      BY <2>2, <3>1 DEF Reuses, Quiet, Promised
    <3>3. PICK r \in Seq(Row) : r = todo[j] /\ r # <<>> /\ todo'[j] = Tail(r)
      BY <1>a, <2>1, <2>2
    <3>4. /\ Len(r) \in Nat /\ DOMAIN r = 1 .. Len(r) /\ DOMAIN todo'[j] = 1 .. Len(r) - 1
          /\ \A k \in 1 .. Len(r) - 1 : todo'[j][k] = todo[j][k + 1]
      BY <3>3
    <3>5. CASE i = 1
      <4>1. Stands(j, c, v)'
        BY <1>a, <2>1, <2>2, <2>4, <3>2, <3>5, StandsNow
      <4>2. ASSUME NEW k \in DOMAIN todo'[j]
            PROVE  ~VerdictAt(j, c, k)'
        <5>1. k + 1 \in DOMAIN todo[j] /\ ~(k + 1 <= 1)
          BY <3>3, <3>4
        <5>2. ~VerdictAt(j, c, k + 1)
          BY <3>2, <3>5, <5>1
        <5> QED BY <3>4, <5>2 DEF VerdictAt
      <4> QED BY <4>1, <4>2 DEF Reuses, Quiet
    <3>6. CASE i # 1
      <4>1. i - 1 \in DOMAIN todo'[j] /\ todo'[j][i - 1] = todo[j][i]
        BY <3>3, <3>4, <3>6
      <4>2. ASSUME NEW k \in DOMAIN todo'[j], VerdictAt(j, c, k)'
            PROVE  k <= i - 1
        <5>1. k + 1 \in DOMAIN todo[j] /\ VerdictAt(j, c, k + 1) /\ k \in Int /\ i \in Int
          BY <3>3, <3>4, <4>2 DEF VerdictAt
        <5>2. k + 1 <= i
          BY <3>2, <5>1
        <5> QED BY <5>1, <5>2
      <4>3. VerdictAt(j, c, i - 1)' /\ todo'[j][i - 1].value = v
        BY <3>2, <4>1 DEF VerdictAt
      <4>4. Promised(j, c, v)'
        BY <4>1, <4>2, <4>3 DEF Promised
      <4> QED BY <4>4 DEF Reuses
    <3> QED BY <3>5, <3>6
  <2> QED BY <2>3, <2>4
<1>5. CASE InsertOverall(j)
  <2>1. /\ todo' = todo
        /\ verdicts' = Append(verdicts, [job |-> j, claim |-> Overall,
                                         value |-> final[j].value])
    BY <1>5 DEF InsertOverall
  <2>2. Stands(j, c, v) => Stands(j, c, v)'
    BY <1>a, <1>b, <2>1, StandsStill
  <2> QED BY <2>1, <2>2 DEF Reuses, Promised, Quiet, VerdictAt
<1> QED BY <1>1, <1>2, <1>3, <1>4, <1>5

LEMMA StepReuse ==
  ASSUME OwnerInv, TablesOK', Growth, AllReuseInv, NEW j \in Jobs, Step(j)
  PROVE  AllReuseInv'
<1>a. TypeOK /\ TablesOK /\ pc \in [Jobs -> Places] /\ ReuseInv(j)
  BY DEF OwnerInv, TypeOK, RunsOK, AllReuseInv
<1>1. ASSUME NEW k \in Jobs, k # j
      PROVE  ReuseInv(k)'
  <2>1. known'[k] = known[k] /\ todo'[k] = todo[k] /\ pc'[k] = pc[k]
    BY <1>1, <1>a, OthersHold, OthersStay
  <2>2. Cached(k)' = Cached(k)
    BY <2>1 DEF Cached
  <2>3. ASSUME NEW c, NEW v, Stands(k, c, v)
        PROVE  Stands(k, c, v)'
    <3>1. CASE verdicts' = verdicts
      BY <2>3, <3>1 DEF Stands, RowsOn
    <3>2. CASE verdicts' # verdicts
      <4>1. PICK d, w :
              d \in Nat /\ verdicts' = Append(verdicts, [job |-> j, claim |-> d, value |-> w])
        BY <3>2, VerdictsGrow
      <4> QED BY <1>1, <1>a, <2>3, <4>1, StandsStill
    <3> QED BY <3>1, <3>2
  <2>4. ASSUME NEW c, NEW v, Reuses(k, c, v)
        PROVE  Reuses(k, c, v)'
    BY <2>1, <2>3, <2>4 DEF Reuses, Promised, Quiet, VerdictAt
  <2>5. AllReused(k) => AllReused(k)'
    BY <2>1, <2>2, <2>4 DEF AllReused
  <2>6. ReuseInv(k)
    BY DEF AllReuseInv
  <2> QED BY <2>1, <2>2, <2>5, <2>6 DEF ReuseInv
<1>m. SUFFICES ReuseInv(j)'
  BY <1>1 DEF AllReuseInv
<1>2. CASE Concludes(j)
  <2>1. AllReused(j)'
    BY <1>a, <1>2, ConcludeReuse
  <2>2. pc'[j] \in {"bias", "write"}
    BY <1>a, <1>2 DEF Concludes, FastConclude, Judge, JudgeFails, AllCached, Goto
  <2> QED BY <2>1, <2>2 DEF ReuseInv
<1>3. CASE \/ InsertBias(j) \/ InsertSource(j) \/ SourcesDone(j) \/ InsertVerdict(j)
           \/ InsertOverall(j)
  <2>1. known' = known /\ Cached(j)' = Cached(j)
    BY <1>3 DEF InsertBias, InsertSource, SourcesDone, InsertVerdict, InsertOverall, held,
                locals, Cached
  <2>2. /\ pc[j] \in {"copy", "bias", "write"}
        /\ \/ pc'[j] \in {"write", "status"} /\ pc[j] \in {"bias", "write"}
           \/ pc' = pc
        /\ pc'[j] = "status" => todo'[j] = <<>>
    BY <1>3, <1>a DEF InsertBias, InsertSource, SourcesDone, InsertVerdict, InsertOverall,
                Goto, At
  <2>3. ASSUME pc[j] \in {"bias", "write"}
        PROVE  AllReused(j)'
    <3>1. ASSUME NEW c \in Cached(j), NEW v, v = known[j][c].value
          PROVE  Reuses(j, c, v)'
      BY <1>3, <1>a, <2>3, <3>1, WriteReuse DEF ReuseInv, AllReused
    <3>2. ASSUME NEW c \in Cached(j)
          PROVE  Reuses(j, c, known[j][c].value)'
      BY <2>1, <3>1 DEF Reuses, Promised, Stands
    <3> QED BY <2>1, <3>2 DEF AllReused
  <2> QED BY <1>a, <2>1, <2>2, <2>3 DEF ReuseInv
<1>4. CASE Ends(j)
  <2>1. known'[j] = <<>> /\ pc'[j] = "over"
    BY <1>4, <1>a DEF Ends, Goto, OwnerInv, KnownIsTotal
  <2>2. Cached(j)' = {}
    BY <2>1 DEF Cached
  <2> QED BY <2>1, <2>2 DEF ReuseInv
<1>5. CASE Miss(j)
  <2>1. pc[j] \in {"fast", "full"} /\ pc' = pc
    BY <1>5 DEF Miss
  <2>2. CASE pc[j] = "full"
    BY <1>1, <2>1, <2>2 DEF ReuseInv
  <2>3. CASE pc[j] = "fast"
    <3>1. Cached(j) = {}
      BY <1>a, <2>3 DEF ReuseInv
    <3>2. PICK n, ev : Learn(j, n, ev, NotCached)
      BY <1>5 DEF Miss
    <3>3. Cached(j)' = {}
      BY <3>1, <3>2 DEF Cached, Learn, OwnerInv, KnownIsTotal
    <3> QED BY <2>1, <2>3, <3>3 DEF ReuseInv
  <2> QED BY <2>1, <2>2, <2>3
<1>6. CASE Hit(j)
  <2>1. pc[j] = "full" /\ pc' = pc
    BY <1>6 DEF Hit, At
  <2> QED BY <2>1 DEF ReuseInv
<1>7. CASE \/ Begin(j) \/ CopyBias(j) \/ CopyClaim(j) \/ CopySources(j) \/ CopyVerdict(j)
           \/ CopyOverall(j) \/ CopyStatus(j) \/ CloneFails(j) \/ Route(j) \/ FastAnswer(j)
           \/ Extract(j) \/ FallBack(j) \/ Recover(j)
  <2>1. known' = known /\ Cached(j)' = Cached(j)
    BY <1>7 DEF Begin, CopyBias, CopyClaim, CopySources, CopyVerdict, CopyOverall, CopyStatus,
                CloneFails, Route, FastAnswer, Extract, FallBack, Recover, held, locals, Cached
  <2>2. /\ pc[j] \notin {"full", "bias", "write", "status"}
        /\ pc'[j] \notin {"write", "status"}
    <3>1. \/ pc' = pc
          \/ \E p \in Places \ {"write", "status"} : pc' = [pc EXCEPT ![j] = p]
      BY <1>7 DEF Begin, CopyBias, CopyClaim, CopySources, CopyVerdict, CopyOverall,
                  CopyStatus, CloneFails, Route, FastAnswer, Extract, FallBack, Recover,
                  Goto, Places
    <3>2. pc[j] \notin {"full", "bias", "write", "status"}
      BY <1>7 DEF Begin, CopyBias, CopyClaim, CopySources, CopyVerdict, CopyOverall,
                  CopyStatus, CloneFails, Route, FastAnswer, Extract, FallBack, Recover, At
    <3> QED BY <1>a, <3>1, <3>2
  <2>3. Cached(j)' = {}
    BY <1>a, <2>1, <2>2 DEF ReuseInv
  <2> QED BY <2>2, <2>3 DEF ReuseInv, AllReused
<1> QED
  BY <1>2, <1>3, <1>4, <1>5, <1>6, <1>7 DEF Step, Concludes, CopyAudit, SetStatus, Fail
-------------------------------------------------------------------------------
(* The theorems *)

LEMMA InitInvariants == ASSUME Init PROVE OwnerInv /\ ProgressInv
<1>1. TypeOK
  <2>1. TablesOK
    BY EmptySeq DEF Init, TablesOK
  <2>2. /\ <<>> \in Seq(Topics) /\ <<>> \in Seq(Row) /\ <<>> \in Seq(ClaimId)
        /\ NoResult \in [value : OverallValues, status : {"COMPLETE", "PARTIAL", "FAILED"}]
    BY EmptySeq DEF NoResult, OverallValues
  <2>3. RunsOK
    BY <2>2 DEF Init, RunsOK, Places
  <2>4. HeldOK
    BY <2>2 DEF Init, HeldOK
  <2> QED BY <2>1, <2>3, <2>4 DEF TypeOK
<1>2. OwnerInv
  <2>1. \A j \in Jobs : <<>> \in Seq(Allowed(j))
    BY EmptySeq
  <2>2. KnownIsTotal /\ TodoIsAllowed /\ KnownIsOwned
    BY <2>1 DEF Init, KnownIsTotal, TodoIsAllowed, KnownIsOwned
  <2>3. VerdictsRefer /\ FirstVerdictIsOwners /\ CloneCopiesVerdicts
    BY DEF Init, VerdictsRefer, FirstVerdictIsOwners, CloneCopiesVerdicts
  <2>4. QueuedIsIdle /\ CopiesAreNotFound
    BY DEF Init, QueuedIsIdle, CopiesAreNotFound, ClaimId
  <2> QED BY <1>1, <2>2, <2>3, <2>4 DEF OwnerInv
<1>3. ProgressInv
  BY <1>1, JobAssumption DEF Init, ProgressInv, Progress
<1> QED BY <1>2, <1>3

LEMMA NextInvariants ==
  ASSUME OwnerInv, ProgressInv, [Next]_vars
  PROVE  OwnerInv' /\ ProgressInv'
<1>1. ASSUME NEW j \in Jobs, Step(j)
      PROVE  OwnerInv' /\ ProgressInv'
  <2>1. Growth
    BY <1>1, StepGrowth DEF OwnerInv
  <2>2. TablesOK' /\ RunsOK'
    BY <1>1, StepTables, StepRuns
  <2>3. HeldOK' /\ KnownIsTotal' /\ TodoIsAllowed' /\ KnownIsOwned'
    BY <1>1, <2>1, <2>2, StepHeld
  <2>4. VerdictsRefer' /\ FirstVerdictIsOwners' /\ CloneCopiesVerdicts'
    BY <1>1, <2>1, StepOwner
  <2>4a. QueuedIsIdle' /\ CopiesAreNotFound'
    BY <1>1, <2>1, <2>2, StepIdle
  <2>5. TypeOK'
    BY <2>2, <2>3 DEF TypeOK
  <2>6. \A k \in Jobs : Progress(k)'
    BY <1>1, <2>1, <2>5, StepProgress
  <2> QED BY <2>3, <2>4, <2>4a, <2>5, <2>6 DEF OwnerInv, ProgressInv
<1>2. CASE UNCHANGED vars
  <2> USE <1>2 DEF vars, db, held, locals
  <2>1. TypeOK'
    <3>1. TablesOK'
      BY DEF OwnerInv, TypeOK, TablesOK
    <3>2. RunsOK'
      BY DEF OwnerInv, TypeOK, RunsOK
    <3>3. HeldOK'
      BY DEF OwnerInv, TypeOK, HeldOK, ClaimId
    <3> QED BY <3>1, <3>2, <3>3 DEF TypeOK
  <2>2. KnownIsTotal' /\ KnownIsOwned'
    BY DEF OwnerInv, KnownIsTotal, KnownIsOwned, Usable, Owned, Judged, RowsOn, ClaimId
  <2>3. TodoIsAllowed'
    <3>1. \A j \in Jobs : Allowed(j)' = Allowed(j)
      BY DEF Allowed, Usable, Owned, Judged, RowsOn, ClaimId
    <3> QED BY <3>1 DEF OwnerInv, TodoIsAllowed
  <2>4. VerdictsRefer' /\ FirstVerdictIsOwners' /\ CloneCopiesVerdicts'
    BY DEF OwnerInv, VerdictsRefer, FirstVerdictIsOwners, CloneCopiesVerdicts, RowsOn,
           ClaimId, Overall
  <2>4a. QueuedIsIdle' /\ CopiesAreNotFound'
    BY DEF OwnerInv, QueuedIsIdle, CopiesAreNotFound, ClaimId
  <2>5. Concluded' = Concluded /\ Readable' = Readable
    BY DEF Concluded, Readable, OverallRows, RowsOn, Overall
  <2>6. \A j \in Jobs : Progress(j)'
    BY <2>5 DEF ProgressInv, Progress
  <2> QED BY <2>1, <2>2, <2>3, <2>4, <2>4a, <2>6 DEF OwnerInv, ProgressInv
<1> QED BY <1>1, <1>2 DEF Next

LEMMA Invariants == Spec => [](OwnerInv /\ ProgressInv)
BY InitInvariants, NextInvariants, PTL DEF Spec

Further == CountInv /\ AllJudgeInv /\ AllReuseInv /\ SourceInv

LEMMA InitFurther == ASSUME Init PROVE Further
<1>1. CountInv
  <2>1. \A j \in Jobs : OverallRows(j) = {} /\ Budget(j) = 0
    BY DEF Init, OverallRows, RowsOn, Budget
  <2> QED BY <2>1, FS_EmptySet DEF CountInv, Counted
<1>2. AllJudgeInv
  BY DEF Init, AllJudgeInv, JudgeInv, HeldOnes, ToSay, Said
<1>3. AllReuseInv
  BY DEF Init, AllReuseInv, ReuseInv, AllReused, Cached
<1>4. SourceInv
  BY DEF Init, SourceInv, HeldSources, RowSources
<1> QED BY <1>1, <1>2, <1>3, <1>4 DEF Further

LEMMA NextFurther ==
  ASSUME OwnerInv, OwnerInv', ProgressInv, Further, [Next]_vars
  PROVE  Further'
<1>1. ASSUME NEW j \in Jobs, Step(j)
      PROVE  Further'
  <2>1. Growth
    BY <1>1, StepGrowth DEF OwnerInv
  <2>2. TablesOK' /\ RunsOK'
    BY <1>1, StepTables, StepRuns
  <2> QED BY <1>1, <2>1, <2>2, StepCount, StepJudge, StepReuse, StepSources DEF Further
<1>2. CASE UNCHANGED vars
  <2> USE <1>2 DEF vars, db, held, locals, Further
  <2>1. CountInv'
    BY DEF CountInv, Counted, Budget, OverallRows, RowsOn, Overall
  <2>2. AllJudgeInv'
    BY DEF AllJudgeInv, JudgeInv, HeldOnes, HeldFor, ToSay, Said, Sayable, Extracted, Overall
  <2>3. AllReuseInv'
    BY DEF AllReuseInv, ReuseInv, AllReused, Reuses, Promised, Quiet, Stands, VerdictAt,
           RowsOn, Cached
  <2>4. SourceInv'
    BY DEF SourceInv, HeldSources, RowSources, HeldFrom, MayStore, StoredAt
  <2> QED BY <2>1, <2>2, <2>3, <2>4 DEF Further
<1> QED BY <1>1, <1>2 DEF Next

LEMMA FurtherInvariants == Spec => []Further
<1>1. (OwnerInv /\ ProgressInv) /\ (OwnerInv /\ ProgressInv)'
        /\ Further /\ [Next]_vars
        => Further'
  BY NextFurther
<1> QED BY <1>1, InitFurther, Invariants, PTL DEF Spec

\* The rows and the variables of all runs have their types (the INSERTs of
\* db/queries.py get what the columns hold).
THEOREM TypeCorrect == Spec => []TypeOK
<1>1. OwnerInv => TypeOK
  BY DEF OwnerInv
<1> QED BY <1>1, Invariants, PTL

\* For any number of jobs, runs at the same time, claims and answers: every claim
\* is judged first by the run that extracted it, so the semantic cache never
\* hands out a verdict that goes back to another one it handed out.
THEOREM OwnersJudgeFirst == Spec => []FirstVerdictIsOwners
<1>1. OwnerInv => FirstVerdictIsOwners
  BY DEF OwnerInv
<1> QED BY <1>1, Invariants, PTL

\* What a clone says about a claim, the job it copied had said of the original
\* (pipeline_router.py:134), for clones of clones and clones that break off too: a
\* verdict never moves to another claim or job on the way.
THEOREM ClonesCopyVerdicts == Spec => []CloneCopiesVerdicts
<1>1. OwnerInv => CloneCopiesVerdicts
  BY DEF OwnerInv
<1> QED BY <1>1, Invariants, PTL

\* A job is COMPLETE only with an article, a bias row and an overall verdict,
\* whichever way its results came about, clones of clones included.
THEOREM CompleteJobsAreReadable == Spec => []CompleteIsReadable
<1>1. ProgressInv => CompleteIsReadable
  BY DEF ProgressInv, Progress, Readable, Concluded, CompleteIsReadable
<1> QED BY <1>1, Invariants, PTL

\* However many runs there are and wherever they break off, a second overall
\* verdict comes from a clone that was given up after it had copied one
\* (pipeline_router.py:178), and there is never a third.
THEOREM OverallsCounted == Spec => []SecondOverallFromClone
<1>1. OwnerInv /\ CountInv => SecondOverallFromClone
  <2> SUFFICES ASSUME CountInv, NEW j \in Jobs
               PROVE  Cardinality(OverallRows(j)) <= IF old[j] = NoJob THEN 1 ELSE 2
    BY DEF SecondOverallFromClone
  <2>1. IsFiniteSet(OverallRows(j)) /\ Cardinality(OverallRows(j)) <= Budget(j)
    BY DEF CountInv, Counted
  <2>2. Cardinality(OverallRows(j)) \in Nat
    BY <2>1, FS_CardinalityType
  <2>3. Budget(j) \in Nat /\ Budget(j) <= IF old[j] = NoJob THEN 1 ELSE 2
    BY DEF Budget
  <2> QED BY <2>1, <2>2, <2>3
<1> QED BY <1>1, Invariants, FurtherInvariants, PTL DEF Further

\* For any answers and sources: a run whose judge gave no answer says UNVERIFIABLE
\* of every claim it extracted (compressed_judge.py:143), because nobody has set
\* the stances it computes with, and what it reuses is about claims of others.
THEOREM UnjudgedStaysOpen == Spec => []UnjudgedIsUnverifiable
<1>1. AllJudgeInv => UnjudgedIsUnverifiable
  BY DEF AllJudgeInv, JudgeInv, Said, Sayable, Extracted, UnjudgedIsUnverifiable
<1> QED BY <1>1, FurtherInvariants, PTL DEF Further

\* Whatever order the rows of a run come in and whoever writes about the same
\* claim meanwhile, the last thing a run says of a claim with a cached verdict is
\* that verdict (standard.py:326).
THEOREM ReuseIsLastWord == Spec => []ReusedVerdictStands
<1>1. AllReuseInv => ReusedVerdictStands
  <2> SUFFICES ASSUME AllReuseInv, NEW j \in Jobs, pc[j] = "status", NEW c \in Cached(j)
               PROVE  Stands(j, c, known[j][c].value)
    BY DEF ReusedVerdictStands, Stands
  <2>1. Reuses(j, c, known[j][c].value) /\ todo[j] = <<>>
    BY DEF AllReuseInv, ReuseInv, AllReused
  <2> QED BY <2>1 DEF Reuses, Promised
<1> QED BY <1>1, FurtherInvariants, PTL DEF Further

\* What a run stores again for a claim of another job is in the table already,
\* though it may have read it while the other run was still storing, and though
\* rows go on being added in any order (standard.py:176, standard.py:294).
THEOREM ReuseBringsNoSources == Spec => []ReusedSourcesAreStored
<1>1. SourceInv => ReusedSourcesAreStored
  BY DEF SourceInv, RowSources, MayStore, StoredAt, ReusedSourcesAreStored
<1> QED BY <1>1, FurtherInvariants, PTL DEF Further

\* Whatever runs, clones and failures follow one another, the statements of the
\* runs take jobs.status only through the steps of JobStatus (pipeline_router.py:171,
\* standard.py:362).
THEOREM StatusKeepsOrder == Spec => StatusInOrder
<1>1. Init => ColumnInv
  BY DEF Init, ColumnInv
<1>2. TypeOK /\ ColumnInv /\ [Next]_vars => ColumnInv' /\ [Column!Next]_status
  <2> SUFFICES ASSUME TypeOK, ColumnInv, [Next]_vars
               PROVE  ColumnInv' /\ [Column!Next]_status
    OBVIOUS
  <2>1. ASSUME NEW j \in Jobs, Step(j)
        PROVE  ColumnInv' /\ Column!Next
    <3>1. PICK s \in Column!Values : /\ Column!MayFollow(status[j], s)
                                     /\ status' = [status EXCEPT ![j] = s]
      BY <2>1, StepColumn
    <3>2. status' \in [Jobs -> Column!Values]
      BY <3>1 DEF TypeOK, TablesOK, Column!Values
    <3>3. \A k \in Jobs : Column!MayFollow(status[k], status'[k])
      BY <3>1 DEF TypeOK, TablesOK, Column!MayFollow
    <3> QED BY <2>1, <3>2, <3>3, StepColumn DEF Column!Next
  <2>2. CASE UNCHANGED vars
    BY <2>2 DEF vars, db, held, locals, ColumnInv
  <2> QED BY <2>1, <2>2 DEF Next
<1> QED BY <1>1, <1>2, TypeCorrect, PTL DEF Spec, StatusInOrder

\* For any number of jobs whose runs clone, find, judge and repeat what belongs to
\* others: each adds to the results of its own job only, those of a finished job
\* stand, and a complete job is readable (JobResultService.java:32, standard.py:176,
\* standard.py:294).
THEOREM PipelinesRefineResults == Spec => ImplementsJobResults
<1> DEFINE results == [j \in Jobs |-> ResultOf(j)]
           done == {j \in Jobs : pc[j] = "over"}
<1>1. Init => Results!Init
  <2> SUFFICES ASSUME Init
               PROVE  Results!Init
    OBVIOUS
  <2>1. ASSUME NEW j \in Jobs
        PROVE  ResultOf(j) = Results!Nothing
    <3>1. ClaimsOf(j) = {} /\ linked \cap {j} = {} /\ 1 .. bias[j] = {}
      BY DEF Init, ClaimsOf, ClaimId
    <3>2. {i \in DOMAIN verdicts : verdicts[i].job = j} = {}
      BY DEF Init
    <3>3. ResultOf(j).sources = {}
      BY <3>1 DEF ResultOf
    <3>4. ResultOf(j).verdicts = {}
      BY <3>2 DEF ResultOf
    <3> QED BY <3>1, <3>3, <3>4 DEF ResultOf, Results!Nothing
  <2>2. done = {} /\ status = [j \in Jobs |-> "PENDING"]
    BY DEF Init
  <2> QED BY <2>1, <2>2 DEF Results!Init
<1>2. ASSUME OwnerInv, OwnerInv', ProgressInv', SourceInv, NEW j \in Jobs, Step(j)
      PROVE  Results!Write(j)
  <2>1. Growth
    BY <1>2, StepGrowth DEF OwnerInv
  <2>2. j \notin done /\ done' \in {done, done \cup {j}}
    <3>1. \A k \in Jobs \ {j} : pc'[k] = pc[k]
      BY <1>2, OthersStay DEF OwnerInv
    <3> QED BY <1>2, <3>1, StepsAreAlive
  <2>3. Results!Within(results[j], results'[j])
    BY <1>2, <2>1, OwnResults
  <2>4. ASSUME status'[j] = "COMPLETE"
        PROVE  Results!Readable(results'[j])
    <3>1. j \in linked' /\ bias'[j] > 0 /\ OverallRows(j)' # {} /\ bias'[j] \in Nat
      BY <1>2, <2>4 DEF ProgressInv, Progress, Readable, Concluded, TypeOK, TablesOK
    <3>2. PICK i \in DOMAIN verdicts' : verdicts'[i].job = j /\ verdicts'[i].claim = 0
      BY <3>1 DEF OverallRows, RowsOn, Overall
    <3>3. [id |-> i, claim |-> 0, value |-> verdicts'[i].value] \in ResultOf(j)'.verdicts
      BY <3>2 DEF ResultOf
    <3>4. j \in ResultOf(j)'.articles /\ 1 \in ResultOf(j)'.bias
      BY <3>1 DEF ResultOf
    <3> QED BY <3>3, <3>4 DEF Results!Readable
  <2>5. \A k \in Jobs \ {j} : results'[k] = results[k] /\ status'[k] = status[k]
    BY <1>2, <2>1, OthersResults, OthersStay DEF OwnerInv
  <2> QED BY <2>2, <2>3, <2>4, <2>5 DEF Results!Write
<1>3. UNCHANGED vars => UNCHANGED <<status, done, results>>
  BY DEF vars, db, ResultOf, ClaimsOf, ClaimId
<1>4. OwnerInv /\ OwnerInv' /\ ProgressInv' /\ SourceInv /\ [Next]_vars
        => [Results!Next]_<<status, done, results>>
  BY <1>2, <1>3 DEF Next, Results!Next
<1> QED
  BY <1>1, <1>4, Invariants, FurtherInvariants, PTL
     DEF Spec, Further, ImplementsJobResults, Results!Spec, Results!vars
===============================================================================
