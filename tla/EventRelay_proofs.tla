-------------------------- MODULE EventRelay_proofs ---------------------------
(***************************************************************************)
(* Proofs about EventRelay, for every set of pages and cuts and every      *)
(* bound: type correctness, that what a page shows of the job did happen,  *)
(* that streams that come one after another leave nothing behind, and what *)
(* the two liveness properties rest on: an emitter in the map is live, or  *)
(* about to be removed, or one whose registration failed, and the verdict  *)
(* of a page that nothing disturbs is always on its way to it.             *)
(*                                                                         *)
(* ShownOutcomeHappened is not inductive.  What a page shows comes from an *)
(* event or from a status that was read, so the invariant adds that those  *)
(* are true of the job (LogIsTrue, ReadingIsTrue), and that the job never  *)
(* loses what they tell of (JobIsOrdered): a verdict stays, and a FAILED   *)
(* that goes is remembered as missed.                                      *)
(***************************************************************************)
EXTENDS EventRelay, TLAPS

\* The job has failed, or its failure was overwritten or could not be written.
Excused == row = "FAILED" \/ missed

\* How far the task and the cuts have come decides what the row and the verdict
\* may be.
JobIsOrdered ==
  /\ pc \in {"judged", "told", "saved", "announced"} => judged
  /\ row = "COMPLETE" => judged
  /\ pc = "failed" => Excused
  /\ \A c \in Cuts : cut[c] = "failed" => Excused

LogIsTrue ==
  \A i \in 1..Len(log) :
    /\ log[i] \in {"verdict", "completed"} => judged
    /\ log[i] = "error" => Excused

ReadingIsTrue ==
  \A p \in Pages :
    /\ seen[p] = "COMPLETE" => judged
    /\ seen[p] = "FAILED" => Excused

IInv ==
  TypeOK /\ JobIsOrdered /\ LogIsTrue /\ ReadingIsTrue /\ ShownOutcomeHappened

\* A view that tells nothing of the job but what has happened.
True(v) ==
  /\ v.verdict => judged
  /\ v.stage = "completed" => judged \/ v.error = "connection"
  /\ v.error = "job" => Excused

Actions == {"queued", "completed", "verdict", "error", "lost", "done"}

-----------------------------------------------------------------------------
(* The reducer.                                                            *)

\* What each action does to a view.
LEMMA Reduced ==
  ASSUME NEW v \in Views
  PROVE  /\ Reduce(v, "queued") = [v EXCEPT !.stage = "queued"]
         /\ Reduce(v, "completed") = [v EXCEPT !.stage = "completed"]
         /\ Reduce(v, "verdict") = [v EXCEPT !.stage = "completed", !.verdict = TRUE]
         /\ Reduce(v, "error") = [v EXCEPT !.stage = "failed", !.error = "job"]
         /\ Reduce(v, "lost") = [v EXCEPT !.stage = "failed", !.error = "connection"]
         /\ Reduce(v, "done") = v
  BY DEF Reduce, Views

\* An action whose message is true keeps a view true.
LEMMA ReduceKeepsTrue ==
  ASSUME NEW v \in Views, NEW e \in Actions,
         True(v), e \in {"verdict", "completed"} => judged, e = "error" => Excused
  PROVE  Reduce(v, e) \in Views /\ True(Reduce(v, e))
<1>1. CASE e = "queued"
  <2>1. /\ Reduce(v, "queued") \in Views /\ Reduce(v, "queued").verdict = v.verdict
        /\ Reduce(v, "queued").stage = "queued" /\ Reduce(v, "queued").error = v.error
    BY Reduced DEF Views
  <2> QED
    BY <1>1, <2>1 DEF True
<1>2. CASE e = "completed"
  <2>1. judged
    BY <1>2
  <2>2. /\ Reduce(v, "completed") \in Views /\ Reduce(v, "completed").verdict = v.verdict
        /\ Reduce(v, "completed").error = v.error
    BY Reduced DEF Views
  <2> QED
    BY <1>2, <2>1, <2>2 DEF True
<1>3. CASE e = "verdict"
  <2>1. judged
    BY <1>3
  <2>2. Reduce(v, "verdict").error = v.error
    BY Reduced DEF Views
  <2>3. Reduce(v, "verdict") \in Views
    BY Reduced DEF Views
  <2> QED
    BY <1>3, <2>1, <2>2, <2>3 DEF True
<1>4. CASE e = "error"
  <2>1. Excused
    BY <1>4
  <2>2. /\ Reduce(v, "error") \in Views /\ Reduce(v, "error").verdict = v.verdict
        /\ Reduce(v, "error").stage = "failed"
    BY Reduced DEF Views
  <2> QED
    BY <1>4, <2>1, <2>2 DEF True
<1>5. CASE e = "lost"
  <2>1. /\ Reduce(v, "lost") \in Views /\ Reduce(v, "lost").verdict = v.verdict
        /\ Reduce(v, "lost").error = "connection"
    BY Reduced DEF Views
  <2> QED
    BY <1>5, <2>1 DEF True
<1>6. CASE e = "done"
  BY <1>6, Reduced
<1> QED
  BY <1>1, <1>2, <1>3, <1>4, <1>5, <1>6 DEF Actions

\* What a page shows when its stream is refused: completed, with an error.
LEMMA RefusedIsTrue ==
  ASSUME NEW v \in Views, True(v)
  PROVE  /\ Reduce(Reduce(v, "lost"), "completed") \in Views
         /\ True(Reduce(Reduce(v, "lost"), "completed"))
<1> DEFINE w == [v EXCEPT !.stage = "failed", !.error = "connection"]
<1>1. w = Reduce(v, "lost") /\ w \in Views /\ w.verdict = v.verdict /\ w.error = "connection"
  BY Reduced DEF Views
<1> HIDE DEF w
<1>2. /\ Reduce(w, "completed") \in Views /\ Reduce(w, "completed").verdict = w.verdict
      /\ Reduce(w, "completed").error = w.error
  BY <1>1, Reduced DEF Views
<1> QED
  BY <1>1, <1>2 DEF True

-----------------------------------------------------------------------------
(* The parts of a step that change what a page shows.                      *)

\* A page shows an action whose message is true.
LEMMA ShowKeeps ==
  ASSUME IInv, NEW p \in Pages, NEW e \in Actions, Show(p, e),
         e \in {"verdict", "completed"} => judged, e = "error" => Excused
  PROVE  view' \in [Pages -> Views] /\ \A q \in Pages : True(view'[q])
<1>1. /\ view \in [Pages -> Views] /\ True(view[p])
      /\ \A q \in Pages : True(view[q])
  BY DEF IInv, TypeOK, ShownOutcomeHappened, True, Excused
<1>2. Reduce(view[p], e) \in Views /\ True(Reduce(view[p], e))
  BY <1>1, ReduceKeepsTrue
<1> QED
  BY <1>1, <1>2 DEF Show

\* A page that loses its stream.
LEMMA LoseStreamKeeps ==
  ASSUME IInv, NEW p \in Pages, LoseStream(p)
  PROVE  /\ view' \in [Pages -> Views] /\ \A q \in Pages : True(view'[q])
         /\ net' \in [Pages -> Nets] /\ conn' \in [Pages -> {0} \cup Streams]
<1>1. view' \in [Pages -> Views] /\ \A q \in Pages : True(view'[q])
  BY ShowKeeps, "lost" \in Actions DEF LoseStream, Actions
<1>2. net' \in [Pages -> Nets] /\ conn' \in [Pages -> {0} \cup Streams]
  BY DEF IInv, TypeOK, LoseStream, Goes, Nets
<1> QED
  BY <1>1, <1>2

\* A stream that ends, with or without a page.
LEMMA EndStreamKeeps ==
  ASSUME IInv, NEW r \in Streams, EndStream(r)
  PROVE  /\ view' \in [Pages -> Views] /\ \A q \in Pages : True(view'[q])
         /\ net' \in [Pages -> Nets] /\ conn' \in [Pages -> {0} \cup Streams]
         /\ stream' \in [Streams -> {"unused", "open", "ended"}]
         /\ seen' = seen
<1>1. stream' \in [Streams -> {"unused", "open", "ended"}] /\ seen' = seen
  BY DEF IInv, TypeOK, EndStream, browser
<1>2. CASE \E p \in Pages : Listens(p, r) /\ LoseStream(p) /\ UNCHANGED seen
  BY <1>1, <1>2, LoseStreamKeeps
<1>3. CASE UNCHANGED browser
  BY <1>1, <1>3 DEF IInv, TypeOK, ShownOutcomeHappened, True, Excused, browser
<1> QED
  BY <1>2, <1>3 DEF EndStream

\* A step of the pages and the gateway: the job stands still.
LEMMA BystanderKeeps ==
  ASSUME IInv, TypeOK', UNCHANGED worker, UNCHANGED seen,
         \A q \in Pages : True(view'[q])
  PROVE  IInv'
<1>1. /\ judged' = judged /\ row' = row /\ missed' = missed /\ cut' = cut
      /\ pc' = pc /\ log' = log /\ seen' = seen
  BY DEF worker, rows
<1>2. JobIsOrdered' /\ LogIsTrue' /\ ReadingIsTrue'
  BY <1>1 DEF IInv, JobIsOrdered, LogIsTrue, ReadingIsTrue, Excused
<1>3. ShownOutcomeHappened'
  BY <1>1 DEF ShownOutcomeHappened, True, Excused
<1> QED
  BY <1>2, <1>3 DEF IInv

\* A loss is counted.
LEMMA LoseKeeps ==
  ASSUME IInv, Lose
  PROVE  drops' \in 0..MaxDrops
  BY RelayAssumption DEF IInv, TypeOK, Lose

-----------------------------------------------------------------------------
(* The steps of a page.                                                    *)

LEMMA OpenKeeps ==
  ASSUME IInv, NEW p \in Pages, Open(p)
  PROVE  IInv'
<1>1. TypeOK'
  BY DEF IInv, TypeOK, Open, Nets, worker, rows, maps, server, clean, history
<1>2. ReadingIsTrue'
  BY DEF IInv, TypeOK, Open, ReadingIsTrue, JobIsOrdered, Excused, worker, rows
<1> QED
  BY <1>1, <1>2
  DEF IInv, Open, JobIsOrdered, LogIsTrue, ShownOutcomeHappened, Excused, worker, rows

\* The page is filled with what was read.
LEMMA FillKeeps ==
  ASSUME IInv, NEW p \in Pages, NEW known \in BOOLEAN, known => judged,
         Fill(p, known), UNCHANGED worker
  PROVE  /\ view' \in [Pages -> Views] /\ \A q \in Pages : True(view'[q])
         /\ net' \in [Pages -> Nets] /\ seen' \in [Pages -> Statuses]
         /\ JobIsOrdered' /\ LogIsTrue' /\ ReadingIsTrue' /\ ShownOutcomeHappened'
<1> DEFINE filled == [stage   |-> IF seen[p] = "COMPLETE" \/ (seen[p] = "PROCESSING" /\ known)
                                  THEN "completed" ELSE "working",
                      verdict |-> known,
                      error   |-> "none"]
<1>1. /\ view \in [Pages -> Views] /\ judged \in BOOLEAN
      /\ \A q \in Pages : True(view[q])
  BY DEF IInv, TypeOK, ShownOutcomeHappened, True, Excused
<1>2. seen[p] = "FAILED" => Reduce(view[p], "error") \in Views /\ True(Reduce(view[p], "error"))
  BY <1>1, ReduceKeepsTrue DEF IInv, ReadingIsTrue, Actions
<1>3. filled \in Views
  BY DEF Views
<1>4. seen[p] = "COMPLETE" => judged
  BY DEF IInv, ReadingIsTrue
<1>5. True(filled)
  BY <1>4 DEF True
<1>6. view' = [view EXCEPT ![p] = IF seen[p] = "FAILED" THEN Reduce(view[p], "error") ELSE filled]
  BY DEF Fill
<1> HIDE DEF filled
<1>7. view' \in [Pages -> Views] /\ \A q \in Pages : True(view'[q])
  BY <1>1, <1>2, <1>3, <1>5, <1>6
<1>8. /\ judged' = judged /\ row' = row /\ missed' = missed /\ cut' = cut
      /\ pc' = pc /\ log' = log /\ seen' = [seen EXCEPT ![p] = "PENDING"]
  BY DEF Fill, worker, rows
<1>9. net' \in [Pages -> Nets] /\ seen' \in [Pages -> Statuses]
  BY <1>8 DEF IInv, TypeOK, Fill, Nets, Statuses
<1>10. JobIsOrdered' /\ LogIsTrue' /\ ReadingIsTrue'
  BY <1>8 DEF IInv, TypeOK, JobIsOrdered, LogIsTrue, ReadingIsTrue, Excused
<1>11. ShownOutcomeHappened'
  BY <1>7, <1>8 DEF ShownOutcomeHappened, True, Excused
<1> QED
  BY <1>7, <1>9, <1>10, <1>11

LEMMA HydrateKeeps ==
  ASSUME IInv, NEW p \in Pages, Hydrate(p) \/ HydrateBare(p)
  PROVE  IInv'
<1>1. PICK known \in BOOLEAN : Fill(p, known) /\ (known => judged)
  BY DEF Hydrate, HydrateBare, IInv, TypeOK
<1>2. UNCHANGED worker
  BY DEF Hydrate, HydrateBare
<1>3. drops' \in 0..MaxDrops /\ tangled' = tangled /\ overtaken' = overtaken
  BY LoseKeeps DEF Hydrate, HydrateBare, history, IInv, TypeOK
<1>4. TypeOK'
  BY <1>1, <1>2, <1>3, FillKeeps
  DEF IInv, TypeOK, Hydrate, HydrateBare, worker, rows, maps, server, clean, history
<1> QED
  BY <1>1, <1>2, <1>4, FillKeeps DEF IInv

LEMMA HydrateFailsKeeps ==
  ASSUME IInv, NEW p \in Pages, HydrateFails(p)
  PROVE  IInv'
<1>1. TypeOK'
  BY RelayAssumption DEF IInv, TypeOK, HydrateFails, Lose, Nets, worker, rows, maps, server, clean
<1>2. UNCHANGED worker /\ UNCHANGED seen /\ \A q \in Pages : True(view'[q])
  BY DEF IInv, HydrateFails, ShownOutcomeHappened, True, Excused
<1> QED
  BY <1>1, <1>2, BystanderKeeps

LEMMA DropKeeps ==
  ASSUME IInv, NEW p \in Pages, Drop(p)
  PROVE  IInv'
<1>1. /\ view' \in [Pages -> Views] /\ \A q \in Pages : True(view'[q])
      /\ net' \in [Pages -> Nets] /\ conn' \in [Pages -> {0} \cup Streams]
  BY LoseStreamKeeps DEF Drop
<1>2. TypeOK'
  BY <1>1, RelayAssumption DEF IInv, TypeOK, Drop, Lose, worker, rows, maps, server, clean
<1> QED
  BY <1>1, <1>2, BystanderKeeps DEF Drop

\* A page that gives its stream up.
LEMMA GiveUpKeeps ==
  ASSUME IInv, NEW p \in Pages, GiveUp(p)
  PROVE  /\ view' \in [Pages -> Views] /\ \A q \in Pages : True(view'[q])
         /\ net' \in [Pages -> Nets] /\ conn' \in [Pages -> {0} \cup Streams]
<1> DEFINE w == Reduce(Reduce(view[p], "lost"), "completed")
<1>1. view \in [Pages -> Views] /\ \A q \in Pages : True(view[q])
  BY DEF IInv, TypeOK, ShownOutcomeHappened, True, Excused
<1>2. w \in Views /\ True(w)
  BY <1>1, RefusedIsTrue
<1>3. view' = [view EXCEPT ![p] = w]
  BY DEF GiveUp
<1> HIDE DEF w
<1>4. view' \in [Pages -> Views] /\ \A q \in Pages : True(view'[q])
  BY <1>1, <1>2, <1>3
<1>5. net' \in [Pages -> Nets] /\ conn' \in [Pages -> {0} \cup Streams]
  BY DEF IInv, TypeOK, GiveUp, Goes, Nets
<1> QED
  BY <1>4, <1>5

LEMMA RefuseKeeps ==
  ASSUME IInv, NEW p \in Pages, Refuse(p)
  PROVE  IInv'
<1>1. TypeOK'
  BY GiveUpKeeps, RelayAssumption
  DEF IInv, TypeOK, Refuse, Lose, worker, rows, maps, server, clean
<1> QED
  BY <1>1, GiveUpKeeps, BystanderKeeps DEF Refuse

LEMMA LeavePageKeeps ==
  ASSUME IInv, NEW p \in Pages, LeavePage(p)
  PROVE  IInv'
<1>1. TypeOK'
  BY DEF IInv, TypeOK, LeavePage, Goes, Nets, Views, Blank, worker, rows, maps, server, clean, history
<1>2. view \in [Pages -> Views] /\ view' = [view EXCEPT ![p] = Blank]
  BY DEF IInv, TypeOK, LeavePage
<1>3. True(Blank) /\ \A q \in Pages : True(view[q])
  BY DEF IInv, ShownOutcomeHappened, True, Excused, Blank
<1>4. \A q \in Pages : True(view'[q])
  BY <1>2, <1>3
<1> QED
  BY <1>1, <1>4, BystanderKeeps DEF LeavePage

-----------------------------------------------------------------------------
(* The steps of the gateway.                                               *)

\* A step that nobody sees.
LEMMA UnseenKeeps ==
  ASSUME IInv, TypeOK', UNCHANGED worker, UNCHANGED <<seen, view>>
  PROVE  IInv'
  BY BystanderKeeps DEF IInv, ShownOutcomeHappened, True, Excused

LEMMA AdmitKeeps ==
  ASSUME IInv, NEW p \in Pages, Admit(p)
  PROVE  IInv'
<1>1. TypeOK'
  BY DEF IInv, TypeOK, Admit, Nets, Registering, worker, rows, clean
<1> QED
  BY <1>1, UnseenKeeps DEF Admit

LEMMA RegisterKeeps ==
  ASSUME IInv, NEW r \in Streams, HoldListener(r) \/ Subscribe(r) \/ ServeFails(r)
  PROVE  IInv'
<1>1. TypeOK'
  BY DEF IInv, TypeOK, HoldListener, Subscribe, ServeFails, Registering, worker, rows,
     browser, maps, clean, history
<1> QED
  BY <1>1, UnseenKeeps DEF HoldListener, Subscribe, ServeFails, browser

LEMMA SubscribeFailsKeeps ==
  ASSUME IInv, NEW r \in Streams, SubscribeFails(r)
  PROVE  IInv'
<1>1. /\ view' \in [Pages -> Views] /\ \A q \in Pages : True(view'[q])
      /\ net' \in [Pages -> Nets] /\ conn' \in [Pages -> {0} \cup Streams]
  <2>1. CASE \E p \in Pages : GiveUp(p)
    BY <2>1, GiveUpKeeps
  <2>2. CASE UNCHANGED <<view, net, conn>>
    BY <2>2 DEF IInv, TypeOK, ShownOutcomeHappened, True, Excused
  <2> QED
    BY <2>1, <2>2 DEF SubscribeFails
<1>2. TypeOK'
  BY <1>1, RelayAssumption
  DEF IInv, TypeOK, SubscribeFails, Lose, Registering, worker, rows, clean
<1> QED
  BY <1>1, <1>2, BystanderKeeps DEF SubscribeFails

LEMMA GreetKeeps ==
  ASSUME IInv, NEW r \in Streams, Greet(r)
  PROVE  IInv'
<1>1. view' \in [Pages -> Views] /\ \A q \in Pages : True(view'[q])
  <2>1. CASE \E p \in Pages : Show(p, "queued")
    BY <2>1, ShowKeeps, "queued" \in Actions DEF Actions
  <2>2. CASE UNCHANGED view
    BY <2>2 DEF IInv, TypeOK, ShownOutcomeHappened, True, Excused
  <2> QED
    BY <2>1, <2>2 DEF Greet
<1>2. TypeOK'
  BY <1>1 DEF IInv, TypeOK, Greet, Registering, worker, rows, maps, clean, history
<1> QED
  BY <1>1, <1>2, BystanderKeeps DEF Greet

LEMMA ServeKeeps ==
  ASSUME IInv, NEW r \in Streams, Serve(r)
  PROVE  IInv'
<1>1. /\ view' \in [Pages -> Views] /\ \A q \in Pages : True(view'[q])
      /\ net' \in [Pages -> Nets] /\ conn' \in [Pages -> {0} \cup Streams]
      /\ stream' \in [Streams -> {"unused", "open", "ended"}]
      /\ seen' = seen
  <2>1. CASE EndStream(r)
    BY <2>1, EndStreamKeeps
  <2>2. CASE UNCHANGED <<stream, browser>>
    BY <2>2 DEF IInv, TypeOK, ShownOutcomeHappened, True, Excused, browser
  <2> QED
    BY <2>1, <2>2 DEF Serve
<1>2. TypeOK'
  BY <1>1 DEF IInv, TypeOK, Serve, worker, rows, maps, clean, history
<1> QED
  BY <1>1, <1>2, BystanderKeeps DEF Serve

\* A thread takes its message: what is left is of the same kind.
LEMMA TakeThreadKeeps ==
  ASSUME IInv, NEW l, NEW i, TakeThread(l, i)
  PROVE  /\ threads' \subseteq Streams \X (1..Len(log))
         /\ overtaken' \in BOOLEAN
         /\ i \in 1..Len(log) /\ log[i] \in Events
  BY DEF IInv, TypeOK, TakeThread

\* What is published is true, and the page may show it.
LEMMA RelayedIsTrue ==
  ASSUME IInv, NEW i \in 1..Len(log)
  PROVE  /\ log[i] \in Actions
         /\ log[i] \in {"verdict", "completed"} => judged
         /\ log[i] = "error" => Excused
  BY DEF IInv, TypeOK, LogIsTrue, Events, Actions

LEMMA IgnoreKeeps ==
  ASSUME IInv, NEW l, NEW i, Ignore(l, i)
  PROVE  IInv'
<1>1. /\ threads' \subseteq Streams \X (1..Len(log)) /\ overtaken' \in BOOLEAN
  BY TakeThreadKeeps DEF Ignore
<1>2. TypeOK'
  BY <1>1 DEF IInv, TypeOK, Ignore, worker, rows, browser, maps, server, clean
<1> QED
  BY <1>2, UnseenKeeps DEF Ignore, browser

LEMMA RelayKeeps ==
  ASSUME IInv, NEW l, NEW i, Relay(l, i)
  PROVE  IInv'
<1>1. /\ threads' \subseteq Streams \X (1..Len(log)) /\ overtaken' \in BOOLEAN
      /\ i \in 1..Len(log) /\ emitter \in Streams
  BY TakeThreadKeeps DEF Relay, IInv, TypeOK
<1>2. /\ view' \in [Pages -> Views] /\ \A q \in Pages : True(view'[q])
      /\ net' \in [Pages -> Nets] /\ conn' \in [Pages -> {0} \cup Streams]
  <2>1. CASE \E p \in Pages :
               /\ Show(p, log[i])
               /\ IF log[i] = "done" THEN Goes(p, "closed") ELSE UNCHANGED <<net, conn>>
    <3>1. PICK p \in Pages :
               /\ Show(p, log[i])
               /\ IF log[i] = "done" THEN Goes(p, "closed") ELSE UNCHANGED <<net, conn>>
      BY <2>1
    <3>2. view' \in [Pages -> Views] /\ \A q \in Pages : True(view'[q])
      BY <1>1, <3>1, RelayedIsTrue, ShowKeeps
    <3>3. net' \in [Pages -> Nets] /\ conn' \in [Pages -> {0} \cup Streams]
      BY <3>1 DEF IInv, TypeOK, Goes, Nets
    <3> QED
      BY <3>2, <3>3
  <2>2. CASE UNCHANGED <<view, net, conn>>
    BY <2>2 DEF IInv, TypeOK, ShownOutcomeHappened, True, Excused
  <2> QED
    BY <2>1, <2>2 DEF Relay
<1>3. ending' \subseteq Streams \X (1..Len(log))
  BY <1>1 DEF IInv, TypeOK, Relay
<1>4. TypeOK'
  BY <1>1, <1>2, <1>3 DEF IInv, TypeOK, Relay, worker, rows, maps, clean
<1> QED
  BY <1>2, <1>4, BystanderKeeps DEF Relay

LEMMA RelayFailsKeeps ==
  ASSUME IInv, NEW l, NEW i, RelayFails(l, i)
  PROVE  IInv'
<1>1. /\ threads' \subseteq Streams \X (1..Len(log)) /\ overtaken' \in BOOLEAN
      /\ emitter \in Streams
  BY TakeThreadKeeps DEF RelayFails, IInv, TypeOK
<1>2. flagged' \subseteq Streams
  BY <1>1 DEF IInv, TypeOK, RelayFails
<1>3. sweeps' \in Nat /\ unhears' \in Nat
  <2>1. Sweep(1) \/ Sweep(2) \/ Sweep(3)
    BY DEF RelayFails
  <2> QED
    BY <2>1 DEF IInv, TypeOK, Sweep
<1>4. TypeOK'
  BY <1>1, <1>2, <1>3 DEF IInv, TypeOK, RelayFails, worker, rows, browser
<1> QED
  BY <1>4, UnseenKeeps DEF RelayFails, browser

LEMMA CompleteKeeps ==
  ASSUME IInv, NEW r \in Streams, NEW i, Complete(r, i)
  PROVE  IInv'
<1>1. /\ view' \in [Pages -> Views] /\ \A q \in Pages : True(view'[q])
      /\ net' \in [Pages -> Nets] /\ conn' \in [Pages -> {0} \cup Streams]
      /\ stream' \in [Streams -> {"unused", "open", "ended"}]
      /\ seen' = seen /\ sweeps' \in Nat /\ unhears' \in Nat
  <2>1. CASE UNCHANGED browser /\ Sweep(1)
              /\ (stream' = stream \/ stream' = [stream EXCEPT ![r] = "ended"])
    BY <2>1 DEF IInv, TypeOK, ShownOutcomeHappened, True, Excused, browser, Sweep
  <2>2. CASE Sweep(2) /\ EndStream(r)
    BY <2>2, EndStreamKeeps DEF IInv, TypeOK, Sweep
  <2> QED
    BY <2>1, <2>2 DEF Complete
<1>2. TypeOK'
  BY <1>1 DEF IInv, TypeOK, Complete, worker, rows, history
<1> QED
  BY <1>1, <1>2, BystanderKeeps DEF Complete

LEMMA TimeoutKeeps ==
  ASSUME IInv, NEW r \in Streams, Timeout(r)
  PROVE  IInv'
<1>1. /\ view' \in [Pages -> Views] /\ \A q \in Pages : True(view'[q])
      /\ net' \in [Pages -> Nets] /\ conn' \in [Pages -> {0} \cup Streams]
      /\ stream' \in [Streams -> {"unused", "open", "ended"}]
      /\ seen' = seen
  BY EndStreamKeeps DEF Timeout
<1>2. TypeOK'
  BY <1>1 DEF IInv, TypeOK, Timeout, Sweep, worker, rows, maps, history
<1> QED
  BY <1>1, <1>2, BystanderKeeps DEF Timeout

LEMMA CleanupKeeps ==
  ASSUME IInv, DropEmitter \/ DropListener \/ DropListenerFails
  PROVE  IInv'
<1>1. drops' \in 0..MaxDrops /\ overtaken' \in BOOLEAN /\ tangled' \in BOOLEAN
  BY LoseKeeps DEF DropEmitter, DropListener, DropListenerFails, history, IInv, TypeOK
<1>2. TypeOK'
  BY <1>1 DEF IInv, TypeOK, DropEmitter, DropListener, DropListenerFails, worker, rows,
     browser, server
<1> QED
  BY <1>2, UnseenKeeps DEF DropEmitter, DropListener, DropListenerFails, browser

-----------------------------------------------------------------------------
(* The steps of the job, and of those who end it.                          *)

\* What is published or not published leaves the rest as it is.
LEMMA PublishKeeps ==
  ASSUME IInv, NEW e \in Events, Publish(e)
  PROVE  /\ log' = Append(log, e) /\ log' \in Seq(Events)
         /\ threads' \subseteq Streams \X (1..Len(log'))
         /\ ending \subseteq Streams \X (1..Len(log'))
         /\ drops' \in 0..MaxDrops
<1>1. log' = Append(log, e) /\ log' \in Seq(Events) /\ Len(log') = Len(log) + 1
      /\ Len(log) \in Nat
  BY DEF IInv, TypeOK, Publish
<1>2. threads' \subseteq threads \cup {<<l, Len(log) + 1>> : l \in container}
  BY DEF Publish
<1>3. threads' \subseteq Streams \X (1..Len(log')) /\ ending \subseteq Streams \X (1..Len(log'))
  <2>1. /\ threads \subseteq Streams \X (1..Len(log)) /\ ending \subseteq Streams \X (1..Len(log))
        /\ container \subseteq Streams
    BY DEF IInv, TypeOK
  <2>2. 1..Len(log) \subseteq 1..Len(log') /\ Len(log) + 1 \in 1..Len(log')
    BY <1>1
  <2> QED
    BY <1>2, <2>1, <2>2
<1>4. drops' \in 0..MaxDrops
  BY RelayAssumption DEF IInv, TypeOK, Publish, Lose
<1> QED
  BY <1>1, <1>3, <1>4

\* The log stays true when a true event is appended.
LEMMA LogStaysTrue ==
  ASSUME IInv, NEW e \in Events, log' = Append(log, e), UNCHANGED <<row, missed, judged>>,
         e \in {"verdict", "completed"} => judged, e = "error" => Excused
  PROVE  LogIsTrue'
<1>1. log \in Seq(Events)
  BY DEF IInv, TypeOK
<1>2. \A i \in 1..Len(log') : (i \in 1..Len(log) /\ log'[i] = log[i]) \/ log'[i] = e
  BY <1>1
<1> QED
  BY <1>2 DEF IInv, LogIsTrue, Excused

Cuttings == [Cuts -> {"idle", "struck", "failed", "accused", "over"}]

\* A step that publishes e.
LEMMA TellKeeps ==
  ASSUME IInv, NEW e \in Events, Beside, Publish(e), UNCHANGED <<row, missed, judged>>,
         pc' \in PCs, cut' \in Cuttings,
         e \in {"verdict", "completed"} => judged, e = "error" => Excused,
         JobIsOrdered'
  PROVE  IInv'
<1>1. TypeOK'
  BY PublishKeeps DEF IInv, TypeOK, Beside, Cuttings, browser, maps, server, clean
<1>2. LogIsTrue'
  BY LogStaysTrue DEF Publish
<1>3. ReadingIsTrue' /\ ShownOutcomeHappened'
  BY DEF IInv, Beside, ReadingIsTrue, ShownOutcomeHappened, Excused, browser
<1> QED
  BY <1>1, <1>2, <1>3 DEF IInv

\* A step that publishes nothing: what has happened stays so.
LEMMA SilentKeeps ==
  ASSUME IInv, Beside, UNCHANGED <<log, threads>>, UNCHANGED drops \/ Lose,
         pc' \in PCs, cut' \in Cuttings, row' \in Statuses, judged' \in BOOLEAN,
         missed' \in BOOLEAN, judged => judged', Excused => Excused', JobIsOrdered'
  PROVE  IInv'
<1>1. TypeOK'
  <2>1. drops' \in 0..MaxDrops
    BY RelayAssumption DEF IInv, TypeOK, Lose
  <2> QED
    BY <2>1 DEF IInv, TypeOK, Beside, Cuttings, browser, maps, server, clean
<1>2. LogIsTrue' /\ ReadingIsTrue' /\ ShownOutcomeHappened'
  <2>1. /\ row = "FAILED" \/ missed => row' = "FAILED" \/ missed'
        /\ seen' = seen /\ view' = view /\ log' = log
    BY DEF Excused, Beside, browser
  <2> QED
    BY <2>1 DEF IInv, LogIsTrue, ReadingIsTrue, ShownOutcomeHappened, Excused
<1> QED
  BY <1>1, <1>2 DEF IInv

\* A FAILED that is overwritten is missed.
LEMMA RowToKeeps ==
  ASSUME IInv, NEW s \in Statuses, RowTo(s)
  PROVE  /\ row' = s /\ row' \in Statuses /\ missed' \in BOOLEAN
         /\ Excused => Excused'
         /\ s = "FAILED" => Excused'
  BY DEF IInv, TypeOK, RowTo, Excused

LEMMA JobStepKeeps ==
  ASSUME IInv, JobStep
  PROVE  IInv'
<1> USE DEF PCs
<1>1. /\ row \in Statuses /\ judged \in BOOLEAN /\ missed \in BOOLEAN /\ cut \in Cuttings
      /\ JobIsOrdered
  BY DEF IInv, TypeOK, Cuttings
<1>2. CASE Start
  <2>1. RowTo("PROCESSING") /\ "PROCESSING" \in Statuses
    BY <1>2 DEF Start, Statuses
  <2> QED
    BY <1>1, <1>2, <2>1, RowToKeeps, SilentKeeps DEF Start, JobGoes, Keep, JobIsOrdered
<1>3. CASE Judge
  BY <1>1, <1>3, SilentKeeps DEF Judge, JobGoes, Keep, SameRow, JobIsOrdered, Excused
<1>4. CASE Tell
  BY <1>1, <1>4, TellKeeps, "verdict" \in Events
  DEF Tell, JobGoes, SameRow, JobIsOrdered, Excused, Events
<1>5. CASE Save
  <2>1. RowTo("COMPLETE") /\ "COMPLETE" \in Statuses
    BY <1>5 DEF Save, Statuses
  <2> QED
    BY <1>1, <1>5, <2>1, RowToKeeps, SilentKeeps DEF Save, JobGoes, Keep, JobIsOrdered
<1>6. CASE Announce
  BY <1>1, <1>6, TellKeeps, "completed" \in Events
  DEF Announce, JobGoes, SameRow, JobIsOrdered, Excused, Events
<1>7. CASE Fail
  <2>1. RowTo("FAILED") /\ "FAILED" \in Statuses /\ pc' = "failed" /\ cut' = cut /\ Beside
    BY <1>7 DEF Fail, JobGoes, Statuses
  <2> QED
    BY <1>1, <1>7, <2>1, RowToKeeps, SilentKeeps DEF Fail, Keep, JobIsOrdered
<1>8. CASE FailUnsaved
  <2>1. PICK p \in Running : /\ JobGoes(p, "failed")
                             /\ row' \in {row} \cup (IF p = "told" THEN {"COMPLETE"} ELSE {})
    BY <1>8 DEF FailUnsaved
  <2>2. row' \in Statuses /\ (row' = "COMPLETE" => judged) /\ missed' = TRUE /\ judged' = judged
    BY <1>1, <1>8, <2>1 DEF FailUnsaved, JobGoes, JobIsOrdered, Statuses
  <2>3. Excused' /\ JobIsOrdered'
    BY <2>1, <2>2 DEF JobGoes, JobIsOrdered, Excused
  <2> QED
    BY <1>1, <1>8, <2>1, <2>2, <2>3, SilentKeeps DEF FailUnsaved, JobGoes
<1>9. CASE Report
  BY <1>1, <1>9, TellKeeps, "error" \in Events
  DEF Report, JobGoes, SameRow, JobIsOrdered, Excused, Events
<1>10. CASE Finish
  BY <1>1, <1>10, TellKeeps, "done" \in Events
  DEF Finish, JobGoes, SameRow, JobIsOrdered, Excused, Events
<1> QED
  BY <1>2, <1>3, <1>4, <1>5, <1>6, <1>7, <1>8, <1>9, <1>10 DEF JobStep

LEMMA StopKeeps ==
  ASSUME IInv, Die \/ Restart
  PROVE  IInv'
<1>1. /\ row \in Statuses /\ judged \in BOOLEAN /\ missed \in BOOLEAN /\ cut \in Cuttings
      /\ JobIsOrdered
  BY DEF IInv, TypeOK, Cuttings
<1>2. CASE Die
  <2>1. pc' = "over" /\ cut' = cut /\ Beside /\ pc' \in PCs
    BY <1>2 DEF Die, JobGoes, PCs
  <2> QED
    BY <1>1, <1>2, <2>1, SilentKeeps DEF Die, Keep, SameRow, JobIsOrdered, Excused
<1>3. CASE Restart
  <2>1. pc' \in {"over", "accepted"} /\ cut' = cut /\ Beside /\ pc' \in PCs
    BY <1>3 DEF Restart, JobGoes, PCs
  <2> DEFINE s == IF row \in Active THEN "FAILED" ELSE row
  <2>2. s \in Statuses /\ RowTo(s) /\ (s = "COMPLETE" => row = "COMPLETE")
    BY <1>1, <1>3 DEF Restart, Statuses
  <2>3. row' = s /\ row' \in Statuses /\ missed' \in BOOLEAN /\ (Excused => Excused')
    BY <2>2, RowToKeeps
  <2>4. JobIsOrdered'
    BY <1>1, <1>3, <2>1, <2>2, <2>3 DEF Restart, JobIsOrdered
  <2> QED
    BY <1>1, <1>3, <2>1, <2>3, <2>4, SilentKeeps DEF Restart, Keep
<1> QED
  BY <1>2, <1>3

LEMMA CutKeeps ==
  ASSUME IInv, NEW c \in Cuts, Cut(c)
  PROVE  IInv'
<1>1. /\ row \in Statuses /\ judged \in BOOLEAN /\ missed \in BOOLEAN /\ cut \in Cuttings
      /\ pc \in PCs /\ JobIsOrdered
  BY DEF IInv, TypeOK, Cuttings
<1>2. Beside /\ pc' = pc /\ judged' = judged
  BY DEF Cut, Strike, Overrule, OverruleUnsaved, Accuse, Close, Desist, CutGoes
<1>3. CASE Strike(c)
  <2>1. cut' = [cut EXCEPT ![c] = "struck"] /\ SameRow /\ Keep
    BY <1>3 DEF Strike, CutGoes
  <2>2. cut' \in Cuttings /\ JobIsOrdered'
    BY <1>1, <1>2, <2>1 DEF Cuttings, JobIsOrdered, SameRow, Excused
  <2> QED
    BY <1>1, <1>2, <2>1, <2>2, SilentKeeps DEF SameRow, Keep, Excused
<1>4. CASE Overrule(c)
  <2>1. cut' = [cut EXCEPT ![c] = "failed"] /\ RowTo("FAILED") /\ Keep /\ "FAILED" \in Statuses
    BY <1>4 DEF Overrule, CutGoes, Statuses
  <2>2. row' = "FAILED" /\ row' \in Statuses /\ missed' \in BOOLEAN /\ Excused'
    BY <2>1, RowToKeeps
  <2>3. cut' \in Cuttings /\ JobIsOrdered'
    BY <1>1, <1>2, <2>1, <2>2 DEF Cuttings, JobIsOrdered
  <2> QED
    BY <1>1, <1>2, <2>1, <2>2, <2>3, SilentKeeps DEF Keep
<1>5. CASE OverruleUnsaved(c)
  <2>1. /\ cut' = [cut EXCEPT ![c] = "failed"] /\ Lose /\ missed' = TRUE
        /\ UNCHANGED <<row, log, threads>>
    BY <1>5 DEF OverruleUnsaved, CutGoes
  <2>2. Excused'
    BY <2>1 DEF Excused
  <2>3. cut' \in Cuttings /\ JobIsOrdered'
    BY <1>1, <1>2, <2>1, <2>2 DEF Cuttings, JobIsOrdered
  <2> QED
    BY <1>1, <1>2, <2>1, <2>2, <2>3, SilentKeeps
<1>6. CASE Accuse(c)
  <2>1. cut[c] = "failed" /\ cut' = [cut EXCEPT ![c] = "accused"] /\ SameRow /\ Publish("error")
    BY <1>6 DEF Accuse, CutGoes
  <2>2. Excused /\ cut' \in Cuttings /\ JobIsOrdered'
    BY <1>1, <1>2, <2>1 DEF Cuttings, JobIsOrdered, SameRow, Excused
  <2> QED
    BY <1>1, <1>2, <2>1, <2>2, TellKeeps, "error" \in Events DEF SameRow, Events
<1>7. CASE Close(c)
  <2>1. cut' = [cut EXCEPT ![c] = "over"] /\ SameRow /\ (Publish("done") \/ Keep)
    BY <1>7 DEF Close, CutGoes
  <2>2. cut' \in Cuttings /\ JobIsOrdered'
    BY <1>1, <1>2, <2>1 DEF Cuttings, JobIsOrdered, SameRow, Excused
  <2>3. CASE Publish("done")
    BY <1>1, <1>2, <2>1, <2>2, <2>3, TellKeeps, "done" \in Events DEF SameRow, Events
  <2>4. CASE Keep
    BY <1>1, <1>2, <2>1, <2>2, <2>4, SilentKeeps DEF SameRow, Keep, Excused
  <2> QED
    BY <2>1, <2>3, <2>4
<1>8. CASE Desist(c)
  <2>1. cut' = [cut EXCEPT ![c] = "over"] /\ Lose /\ SameRow /\ UNCHANGED <<log, threads>>
    BY <1>8 DEF Desist, CutGoes
  <2>2. cut' \in Cuttings /\ JobIsOrdered'
    BY <1>1, <1>2, <2>1 DEF Cuttings, JobIsOrdered, SameRow, Excused
  <2> QED
    BY <1>1, <1>2, <2>1, <2>2, SilentKeeps DEF SameRow, Excused
<1> QED
  BY <1>3, <1>4, <1>5, <1>6, <1>7, <1>8 DEF Cut

-----------------------------------------------------------------------------
(* The invariant.                                                          *)

LEMMA InitIInv == Init => IInv
<1> SUFFICES ASSUME Init PROVE IInv
  OBVIOUS
<1>1. Blank \in Views
  BY DEF Blank, Views
<1>2. view \in [Pages -> Views]
  BY <1>1 DEF Init
<1>3. pc \in PCs /\ row \in Statuses
  BY DEF Init, PCs, Statuses
<1>4. log \in Seq(Events)
  BY DEF Init
<1>5. /\ net \in [Pages -> Nets] /\ conn \in [Pages -> {0} \cup Streams]
      /\ seen \in [Pages -> Statuses]
  BY DEF Init, Nets, Statuses
<1>6. /\ judged \in BOOLEAN /\ overtaken \in BOOLEAN /\ missed \in BOOLEAN
      /\ tangled \in BOOLEAN
      /\ cut \in [Cuts -> {"idle", "struck", "failed", "accused", "over"}]
  BY DEF Init
<1>7. drops \in 0..MaxDrops
  BY RelayAssumption DEF Init
<1>8. /\ stream \in [Streams -> {"unused", "open", "ended"}]
      /\ setup \in [Streams -> {"none", "ready", "refused"} \cup Registering]
  BY DEF Init
<1>9. /\ emitter \in {0} \cup Streams /\ listener \in {0} \cup Streams
      /\ container \subseteq Streams /\ flagged \subseteq Streams
      /\ ending \subseteq Streams \X (1..Len(log)) /\ threads \subseteq Streams \X (1..Len(log))
      /\ sweeps \in Nat /\ unhears \in Nat
  BY DEF Init
<1>10. TypeOK
  BY <1>2, <1>3, <1>4, <1>5, <1>6, <1>7, <1>8, <1>9 DEF TypeOK
<1> QED
  BY <1>10 DEF Init, IInv, JobIsOrdered, LogIsTrue, ReadingIsTrue, ShownOutcomeHappened,
     Blank, Excused

LEMMA Invariance == IInv /\ [Next]_vars => IInv'
<1> SUFFICES ASSUME IInv, [Next]_vars PROVE IInv'
  OBVIOUS
<1>1. CASE JobStep \/ Die \/ Restart \/ \E c \in Cuts : Cut(c)
  BY <1>1, JobStepKeeps, StopKeeps, CutKeeps
<1>2. CASE \E p \in Pages : Open(p) \/ PageStep(p) \/ LeavePage(p)
  BY <1>2, OpenKeeps, HydrateKeeps, AdmitKeeps, LeavePageKeeps DEF PageStep
<1>3. CASE \E p \in Pages : HydrateBare(p) \/ HydrateFails(p) \/ Drop(p) \/ Refuse(p)
  BY <1>3, HydrateKeeps, HydrateFailsKeeps, DropKeeps, RefuseKeeps
<1>4. CASE \E r \in Streams : Register(r) \/ SubscribeFails(r) \/ ServeFails(r) \/ Timeout(r)
  BY <1>4, RegisterKeeps, SubscribeFailsKeeps, GreetKeeps, ServeKeeps, TimeoutKeeps
     DEF Register
<1>5. CASE \E r \in Streams, i \in 1..Len(log) : Handle(r, i) \/ Complete(r, i)
  BY <1>5, IgnoreKeeps, RelayKeeps, RelayFailsKeeps, CompleteKeeps DEF Handle
<1>6. CASE DropEmitter \/ DropListener \/ DropListenerFails
  BY <1>6, CleanupKeeps
<1>7. CASE UNCHANGED vars
  BY <1>7 DEF vars, IInv, TypeOK, JobIsOrdered, LogIsTrue, ReadingIsTrue,
     ShownOutcomeHappened, Excused, worker, rows, browser, maps, server, clean, history
<1> QED
  BY <1>1, <1>2, <1>3, <1>4, <1>5, <1>6, <1>7 DEF Next

-----------------------------------------------------------------------------
(* What the steps of the job and of a page leave alone.                    *)

WorkerStep == JobStep \/ Die \/ Restart \/ \E c \in Cuts : Cut(c)

LEMMA WorkerAlone ==
  ASSUME WorkerStep
  PROVE  /\ UNCHANGED <<net, conn, seen, view, emitter, listener, container, flagged,
                        stream, setup, ending, sweeps, unhears, overtaken, tangled>>
         /\ UNCHANGED <<log, threads>> \/ \E e \in Events : Publish(e)
         /\ drops' = drops \/ Lose
<1>1. Beside
  BY DEF WorkerStep, JobStep, Start, Judge, Tell, Save, Announce, Fail, FailUnsaved, Report,
     Finish, Die, Restart, Cut, Strike, Overrule, OverruleUnsaved, Accuse, Close, Desist,
     JobGoes, CutGoes
<1>2. \/ UNCHANGED <<log, threads>> /\ (drops' = drops \/ Lose)
      \/ \E e \in Events : Publish(e)
  <2>1. CASE JobStep
    BY <2>1 DEF JobStep, Start, Judge, Tell, Save, Announce, Fail, FailUnsaved, Report,
       Finish, Keep, Events
  <2>2. CASE Die \/ Restart
    BY <2>2 DEF Die, Restart, Keep
  <2>3. CASE \E c \in Cuts : Cut(c)
    BY <2>3 DEF Cut, Strike, Overrule, OverruleUnsaved, Accuse, Close, Desist, Keep, Events
  <2> QED
    BY <2>1, <2>2, <2>3 DEF WorkerStep
<1>3. drops' = drops \/ Lose
  BY <1>2 DEF Publish
<1> QED
  BY <1>1, <1>2, <1>3 DEF Beside, browser, maps, server, clean

\* A step of a page that has nothing to do with the gateway.
Alone(p) ==
  \/ Open(p) \/ Hydrate(p) \/ HydrateBare(p) \/ HydrateFails(p)
  \/ Drop(p) \/ Refuse(p) \/ LeavePage(p)

LEMMA PageAlone ==
  ASSUME NEW p \in Pages, Alone(p)
  PROVE  /\ UNCHANGED <<pc, row, cut, missed, judged, log, emitter, listener, container,
                        flagged, stream, setup, ending, threads, sweeps, unhears,
                        overtaken, tangled>>
         /\ drops' = drops \/ Lose
  BY DEF Alone, Open, Hydrate, HydrateBare, HydrateFails, Drop, Refuse, LeavePage, worker,
     rows, maps, server, clean, history

LEMMA NextSplits ==
  ASSUME [Next]_vars
  PROVE  \/ WorkerStep
         \/ \E p \in Pages : Alone(p) \/ Admit(p)
         \/ \E r \in Streams : \/ Register(r) \/ SubscribeFails(r) \/ ServeFails(r)
                               \/ Timeout(r)
         \/ \E r \in Streams, i \in 1..Len(log) : Handle(r, i) \/ Complete(r, i)
         \/ DropEmitter \/ DropListener \/ DropListenerFails
         \/ UNCHANGED vars
  BY DEF Next, WorkerStep, Alone, PageStep

-----------------------------------------------------------------------------
(* Streams that come one after another.  SoleStreamIsForgotten is not      *)
(* inductive: a listener may be subscribed after the cleanup that would    *)
(* have found it.  But as long as registrations have met no remains of     *)
(* another stream (~tangled), a stream that is not subscribed yet is alone *)
(* in the gateway (Fresh), and for what is left of one that has ended a    *)
(* cleanup is due (Due).                                                   *)

Used == {r \in Streams : stream[r] # "unused"}

\* What the gateway refers to has been registered.
Referred ==
  /\ emitter \in {0} \cup Used /\ listener \in {0} \cup Used /\ container \subseteq Used
  /\ \A t \in threads \cup ending : t[1] \in Used
  /\ \A r \in Streams : setup[r] # "none" <=> r \in Used

\* Until it is subscribed, nothing but its registration goes on.
Fresh(r) ==
  setup[r] \in {"mapped", "held"} =>
    /\ stream[r] = "open" /\ container = {} /\ threads = {} /\ ending = {}
    /\ sweeps = 0 /\ unhears = 0 /\ listener = IF setup[r] = "mapped" THEN 0 ELSE r
    /\ \A q \in Streams \ {r} : stream[q] # "open" /\ setup[q] \notin Registering

\* A cleanup is due for all that is left of a stream that has ended.
Due(r) ==
  stream[r] = "ended" =>
    /\ emitter = r => sweeps > 0
    /\ listener = r => sweeps > 0 \/ unhears > 0

Sole ==
  /\ container \subseteq {listener}
  /\ \A r \in Streams : setup[r] # "refused" /\ Fresh(r) /\ Due(r)

SoleInv == Referred /\ (~tangled => Sole)

NoneFresh == \A r \in Streams : setup[r] \notin {"mapped", "held"}

\* Where anything else is going on no stream is fresh.
LEMMA Busy ==
  ASSUME TypeOK, Sole,
         \/ threads # {} \/ ending # {} \/ sweeps > 0 \/ unhears > 0
         \/ \E s \in Streams : /\ setup[s] \notin {"mapped", "held"}
                               /\ stream[s] = "open" \/ setup[s] \in Registering
  PROVE  NoneFresh
<1> SUFFICES ASSUME NEW r \in Streams, setup[r] \in {"mapped", "held"}
             PROVE  FALSE
  BY DEF NoneFresh
<1>1. Fresh(r)
  BY DEF Sole
<1> QED
  BY <1>1 DEF Fresh, TypeOK

\* A step that registers nothing and ends no stream; threads may be taken.
LEMMA CalmKeepsSole ==
  ASSUME TypeOK, TypeOK', SoleInv,
         UNCHANGED <<stream, setup, emitter, listener, container, sweeps, unhears>>,
         ending' \subseteq ending, threads' \subseteq threads, tangled => tangled'
  PROVE  SoleInv'
<1>1. Used' = Used
  BY DEF Used
<1>2. Referred'
  BY <1>1 DEF SoleInv, Referred
<1>3. ~tangled' => Sole'
  BY DEF SoleInv, Sole, Fresh, Due
<1> QED
  BY <1>2, <1>3 DEF SoleInv

\* A stream comes to its end, or is told to, and a cleanup begins.
LEMMA EndKeepsSole ==
  ASSUME TypeOK, TypeOK', SoleInv, NEW s \in Streams, s \in Used,
         ~tangled => NoneFresh,
         stream' = stream \/ stream' = [stream EXCEPT ![s] = "ended"],
         UNCHANGED <<setup, emitter, listener, container, unhears, tangled>>,
         ending' \subseteq ending, threads' \subseteq threads, sweeps' >= sweeps + 1
  PROVE  SoleInv'
<1>1. Used' = Used
  BY DEF Used, TypeOK
<1>2. Referred'
  BY <1>1 DEF SoleInv, Referred
<1>3. sweeps' > 0
  BY DEF TypeOK
<1>4. ~tangled' => Sole'
  BY <1>3 DEF SoleInv, Sole, Fresh, Due, NoneFresh
<1> QED
  BY <1>2, <1>4 DEF SoleInv

LEMMA AdmitKeepsSole ==
  ASSUME TypeOK, TypeOK', SoleInv, NEW p \in Pages, Admit(p)
  PROVE  SoleInv'
<1>1. PICK s \in Streams :
        /\ emitter' = s
        /\ stream' = [stream EXCEPT ![s] = "open"] /\ setup' = [setup EXCEPT ![s] = "mapped"]
  BY DEF Admit
<1>2. UNCHANGED <<listener, container, ending, threads, sweeps, unhears>>
  BY DEF Admit, clean
<1>3. Used' = Used \cup {s}
  BY <1>1 DEF Used, TypeOK
<1>4. Referred'
  BY <1>1, <1>2, <1>3 DEF SoleInv, Referred, TypeOK
<1>5. ASSUME ~tangled'
      PROVE  Sole'
  <2>1. ~tangled /\ Clear /\ Sole
    BY <1>5 DEF Admit, SoleInv, TypeOK
  <2>2. sweeps = 0 /\ unhears = 0
    BY <2>1 DEF Clear, TypeOK
  <2>3. \A q \in Streams : /\ stream[q] # "open"
                           /\ setup[q] \notin Registering /\ setup[q] # "refused"
    BY <2>1 DEF Clear, Sole
  <2>4. listener = 0 /\ container = {} /\ threads = {} /\ ending = {}
    BY <2>1 DEF Clear
  <2>5. \A r \in Streams : Fresh(r)'
    BY <1>1, <1>2, <2>2, <2>3, <2>4 DEF Fresh, Registering, TypeOK
  <2>6. \A r \in Streams : Due(r)' /\ setup'[r] # "refused"
    BY <1>1, <1>2, <2>1, <2>3, <2>4 DEF Sole, Due, TypeOK, Streams
  <2> QED
    BY <1>2, <2>1, <2>5, <2>6 DEF Sole
<1> QED
  BY <1>4, <1>5 DEF SoleInv

LEMMA RegisterKeepsSole ==
  ASSUME TypeOK, TypeOK', SoleInv, NEW s \in Streams, Register(s)
  PROVE  SoleInv'
<1>1. s \in Used /\ setup[s] \in Registering
  BY DEF Register, HoldListener, Subscribe, Greet, Serve, SoleInv, Referred, Registering
<1>2. CASE HoldListener(s)
  <2>1. /\ setup[s] = "mapped" /\ setup' = [setup EXCEPT ![s] = "held"] /\ listener' = s
        /\ UNCHANGED <<emitter, container, stream, ending, threads, sweeps, unhears, tangled>>
    BY <1>2 DEF HoldListener, clean, history
  <2>2. Used' = Used
    BY <2>1 DEF Used
  <2>3. Referred'
    BY <1>1, <2>1, <2>2 DEF SoleInv, Referred, TypeOK
  <2>4. ASSUME ~tangled'
        PROVE  Sole'
    <3>1. Sole /\ Fresh(s)
      BY <2>1, <2>4 DEF SoleInv, Sole
    <3>2. Fresh(s)'
      BY <2>1, <3>1 DEF Fresh, TypeOK, Registering
    <3>3. \A r \in Streams \ {s} : Fresh(r)'
      BY <2>1, <3>1 DEF Fresh, TypeOK, Registering
    <3>4. \A r \in Streams : Due(r)' /\ setup'[r] # "refused"
      BY <2>1, <3>1 DEF Sole, Fresh, Due, TypeOK
    <3>5. container' = {}
      BY <2>1, <3>1 DEF Fresh
    <3> QED
      BY <3>2, <3>3, <3>4, <3>5 DEF Sole
  <2> QED
    BY <2>3, <2>4 DEF SoleInv
<1>3. CASE Subscribe(s)
  <2>1. /\ setup[s] = "held" /\ setup' = [setup EXCEPT ![s] = "heard"]
        /\ container' = container \cup {s}
        /\ UNCHANGED <<emitter, listener, stream, ending, threads, sweeps, unhears, tangled>>
    BY <1>3 DEF Subscribe, clean, history
  <2>2. Used' = Used
    BY <2>1 DEF Used
  <2>3. Referred'
    BY <1>1, <2>1, <2>2 DEF SoleInv, Referred, TypeOK
  <2>4. ASSUME ~tangled'
        PROVE  Sole'
    <3>1. Sole /\ Fresh(s)
      BY <2>1, <2>4 DEF SoleInv, Sole
    <3>2. container' \subseteq {listener'}
      BY <2>1, <3>1 DEF Fresh
    <3>3. \A r \in Streams : Fresh(r)'
      BY <2>1, <3>1 DEF Fresh, TypeOK, Registering
    <3>4. \A r \in Streams : Due(r)' /\ setup'[r] # "refused"
      BY <2>1, <3>1 DEF Sole, Due, TypeOK
    <3> QED
      BY <3>2, <3>3, <3>4 DEF Sole
  <2> QED
    BY <2>3, <2>4 DEF SoleInv
<1>4. CASE Greet(s) \/ Serve(s)
  <2>1. /\ setup[s] \in {"heard", "greeted"}
        /\ \E x \in {"greeted", "ready"} : setup' = [setup EXCEPT ![s] = x]
        /\ stream' = stream \/ (stream[s] = "ended" /\ stream' = [stream EXCEPT ![s] = "ended"])
        /\ UNCHANGED <<emitter, listener, container, ending, threads, sweeps, unhears, tangled>>
    BY <1>4 DEF Greet, Serve, EndStream, maps, clean, history
  <2>2. stream' = stream
    BY <2>1 DEF TypeOK
  <2>3. Used' = Used
    BY <2>2 DEF Used
  <2>4. Referred'
    BY <1>1, <2>1, <2>2, <2>3 DEF SoleInv, Referred, TypeOK
  <2>5. ASSUME ~tangled'
        PROVE  Sole'
    <3>1. Sole
      BY <2>1, <2>5 DEF SoleInv
    <3>2. NoneFresh
      BY <1>1, <2>1, <3>1, Busy
    <3>3. \A r \in Streams : Fresh(r)'
      BY <2>1, <3>2 DEF Fresh, NoneFresh, TypeOK
    <3>4. \A r \in Streams : Due(r)' /\ setup'[r] # "refused"
      BY <2>1, <2>2, <3>1 DEF Sole, Due, TypeOK
    <3> QED
      BY <2>1, <3>1, <3>3, <3>4 DEF Sole
  <2> QED
    BY <2>4, <2>5 DEF SoleInv
<1> QED
  BY <1>2, <1>3, <1>4 DEF Register

\* A registration that fails is remembered.
LEMMA FailureKeepsSole ==
  ASSUME TypeOK, TypeOK', SoleInv, NEW s \in Streams, SubscribeFails(s) \/ ServeFails(s)
  PROVE  SoleInv'
<1>1. /\ setup[s] # "none" /\ setup' = [setup EXCEPT ![s] = "refused"] /\ tangled'
      /\ UNCHANGED <<emitter, listener, stream, ending, threads>>
      /\ container' \subseteq container \cup {s}
  BY DEF SubscribeFails, ServeFails, maps
<1>2. Used' = Used
  BY <1>1 DEF Used
<1>3. Referred'
  BY <1>1, <1>2 DEF SoleInv, Referred, TypeOK
<1> QED
  BY <1>1, <1>3 DEF SoleInv

LEMMA HandleKeepsSole ==
  ASSUME TypeOK, TypeOK', SoleInv, NEW l \in Streams, NEW i \in 1..Len(log), Handle(l, i)
  PROVE  SoleInv'
<1>1. <<l, i>> \in threads /\ threads' \subseteq threads /\ tangled' = tangled
  BY DEF Handle, Ignore, Relay, RelayFails, TakeThread
<1>2. ~tangled => NoneFresh
  BY <1>1, Busy DEF SoleInv
<1>3. CASE Ignore(l, i)
  BY <1>1, <1>3, CalmKeepsSole DEF Ignore, maps, server, clean
<1>4. CASE Relay(l, i)
  <2>1. /\ UNCHANGED <<stream, setup, emitter, listener, container, sweeps, unhears>>
        /\ emitter # 0 /\ ending' \subseteq ending \cup {<<emitter, i>>}
    BY <1>4 DEF Relay, maps, clean
  <2>2. Used' = Used
    BY <2>1 DEF Used
  <2>3. Referred'
    BY <1>1, <2>1, <2>2 DEF SoleInv, Referred
  <2>4. ~tangled' => Sole'
    BY <1>1, <1>2, <2>1 DEF SoleInv, Sole, Fresh, Due, NoneFresh
  <2> QED
    BY <2>3, <2>4 DEF SoleInv
<1>5. CASE RelayFails(l, i)
  <2>1. emitter \in Streams /\ emitter \in Used
    BY <1>5 DEF RelayFails, SoleInv, Referred, TypeOK
  <2>2. /\ stream' = [stream EXCEPT ![emitter] = "ended"]
        /\ UNCHANGED <<setup, emitter, listener, container, ending>>
    BY <1>5 DEF RelayFails
  <2>3. sweeps' >= sweeps + 1 /\ unhears' = unhears
    <3>1. Sweep(1) \/ Sweep(2) \/ Sweep(3)
      BY <1>5 DEF RelayFails
    <3> QED
      BY <3>1 DEF Sweep, TypeOK
  <2> QED
    BY <1>1, <1>2, <2>1, <2>2, <2>3, EndKeepsSole
<1> QED
  BY <1>3, <1>4, <1>5 DEF Handle

LEMMA StopKeepsSole ==
  ASSUME TypeOK, TypeOK', SoleInv, NEW s \in Streams, NEW i,
         Complete(s, i) \/ Timeout(s)
  PROVE  SoleInv'
<1>1. s \in Used
  BY DEF Complete, Timeout, SoleInv, Referred, Used
<1>2. ~tangled => NoneFresh
  <2>1. ending # {} \/ (stream[s] = "open" /\ setup[s] = "ready")
    BY DEF Complete, Timeout
  <2> QED
    BY <2>1, Busy DEF SoleInv
<1>3. /\ UNCHANGED <<setup, emitter, listener, container, threads, tangled>>
      /\ ending' \subseteq ending
  BY DEF Complete, Timeout, maps, history
<1>4. stream' = stream \/ stream' = [stream EXCEPT ![s] = "ended"]
  BY DEF Complete, Timeout, EndStream
<1>5. sweeps' >= sweeps + 1 /\ unhears' = unhears
  <2>1. Sweep(1) \/ Sweep(2)
    BY DEF Complete, Timeout
  <2> QED
    BY <2>1 DEF Sweep, TypeOK
<1> QED
  BY <1>1, <1>2, <1>3, <1>4, <1>5, EndKeepsSole

LEMMA CleanupKeepsSole ==
  ASSUME TypeOK, TypeOK', SoleInv, DropEmitter \/ DropListener \/ DropListenerFails
  PROVE  SoleInv'
<1>1. UNCHANGED <<stream, setup, ending, threads>> /\ Used' = Used
  BY DEF DropEmitter, DropListener, DropListenerFails, server, Used
<1>2. ~tangled => NoneFresh
  BY Busy DEF DropEmitter, DropListener, DropListenerFails, SoleInv
<1>3. CASE DropEmitter
  <2>1. /\ emitter' = 0 /\ sweeps' = sweeps - 1 /\ unhears' = unhears + 1 /\ sweeps > 0
        /\ UNCHANGED <<listener, container, tangled>>
    BY <1>3 DEF DropEmitter, history
  <2>2. Referred'
    BY <1>1, <2>1 DEF SoleInv, Referred
  <2>3. unhears' > 0 /\ \A r \in Streams : r # 0
    BY <2>1 DEF TypeOK, Streams
  <2>4. ~tangled' => Sole'
    BY <1>1, <1>2, <2>1, <2>3 DEF SoleInv, Sole, Fresh, Due, NoneFresh
  <2> QED
    BY <2>2, <2>4 DEF SoleInv
<1>4. CASE DropListener
  <2>1. /\ listener' = 0 /\ container' = container \ {listener}
        /\ UNCHANGED <<emitter, sweeps, tangled>>
    BY <1>4 DEF DropListener, history
  <2>2. Referred'
    BY <1>1, <2>1 DEF SoleInv, Referred
  <2>3. \A r \in Streams : r # 0
    BY DEF Streams
  <2>4. ~tangled' => Sole'
    BY <1>1, <1>2, <2>1, <2>3 DEF SoleInv, Sole, Fresh, Due, NoneFresh
  <2> QED
    BY <2>2, <2>4 DEF SoleInv
<1>5. CASE DropListenerFails
  <2>1. listener' = 0 /\ UNCHANGED <<emitter, container>> /\ tangled'
    BY <1>5 DEF DropListenerFails
  <2>2. Referred'
    BY <1>1, <2>1 DEF SoleInv, Referred
  <2> QED
    BY <2>1, <2>2 DEF SoleInv
<1> QED
  BY <1>3, <1>4, <1>5

\* The job and its cuts only add threads for the listeners that are subscribed.
LEMMA WorkerKeepsSole ==
  ASSUME TypeOK, TypeOK', SoleInv, WorkerStep
  PROVE  SoleInv'
<1>1. UNCHANGED <<stream, setup, emitter, listener, container, ending, sweeps, unhears, tangled>>
  BY WorkerAlone
<1>2. threads' \subseteq threads \cup {<<l, Len(log) + 1>> : l \in container}
  BY WorkerAlone DEF Publish
<1>3. /\ \A t \in threads' : t \in threads \/ t[1] \in container
      /\ container = {} /\ threads = {} => threads' = {}
  BY <1>2
<1>4. Used' = Used
  BY <1>1 DEF Used
<1>5. Referred'
  BY <1>1, <1>3, <1>4 DEF SoleInv, Referred
<1>6. ~tangled' => Sole'
  BY <1>1, <1>3 DEF SoleInv, Sole, Fresh, Due
<1> QED
  BY <1>5, <1>6 DEF SoleInv

LEMMA SoleInvariance == IInv /\ IInv' /\ SoleInv /\ [Next]_vars => SoleInv'
<1> SUFFICES ASSUME TypeOK, TypeOK', SoleInv, [Next]_vars PROVE SoleInv'
  BY DEF IInv
<1>1. CASE WorkerStep
  BY <1>1, WorkerKeepsSole
<1>2. ASSUME NEW p \in Pages, Alone(p)
      PROVE  SoleInv'
  BY <1>2, PageAlone, CalmKeepsSole
<1>3. ASSUME NEW p \in Pages, Admit(p)
      PROVE  SoleInv'
  BY <1>3, AdmitKeepsSole
<1>4. ASSUME NEW r \in Streams, Register(r) \/ SubscribeFails(r) \/ ServeFails(r)
      PROVE  SoleInv'
  BY <1>4, RegisterKeepsSole, FailureKeepsSole
<1>5. ASSUME NEW r \in Streams, NEW i, Complete(r, i) \/ Timeout(r)
      PROVE  SoleInv'
  BY <1>5, StopKeepsSole
<1>6. ASSUME NEW r \in Streams, NEW i \in 1..Len(log), Handle(r, i)
      PROVE  SoleInv'
  BY <1>6, HandleKeepsSole
<1>7. CASE DropEmitter \/ DropListener \/ DropListenerFails
  BY <1>7, CleanupKeepsSole
<1>8. CASE UNCHANGED vars
  BY <1>8, CalmKeepsSole DEF vars, maps, server, clean, history
<1> QED
  BY <1>1, <1>2, <1>3, <1>4, <1>5, <1>6, <1>7, <1>8, NextSplits

-----------------------------------------------------------------------------
(* No emitter is left without an end: what holds without fairness of       *)
(* EmitterIsReleased, for any number of streams.                           *)

\* An emitter that delivers, or comes to: its stream is open, nobody has taken it
\* for completed, and it is being registered or Spring watches it.
Live(r) ==
  stream[r] = "open" /\ r \notin flagged /\ setup[r] \in Registering \cup {"ready"}

\* The emitter in the map is live, or a cleanup that will remove it is under way,
\* or it is what a failed registration has left behind.
EmitterHasAnEnd ==
  emitter # 0 => Live(emitter) \/ sweeps > 0 \/ setup[emitter] = "refused"

\* Without regard to its registration.
Unswept ==
  emitter # 0 /\ sweeps = 0 => stream[emitter] = "open" /\ emitter \notin flagged

LEMMA NextUnswept ==
  ASSUME TypeOK, TypeOK', Unswept, [Next]_vars
  PROVE  Unswept'
<1> USE DEF Unswept
<1>1. ASSUME UNCHANGED <<emitter, stream, flagged, sweeps>>
      PROVE  Unswept'
  BY <1>1
<1>2. CASE WorkerStep
  BY <1>1, <1>2, WorkerAlone
<1>3. ASSUME NEW p \in Pages, Alone(p)
      PROVE  Unswept'
  BY <1>1, <1>3, PageAlone
<1>4. ASSUME NEW p \in Pages, Admit(p)
      PROVE  Unswept'
  <2>1. PICK r \in Streams : /\ emitter' = r /\ flagged' = flagged \ {r}
                             /\ stream' = [stream EXCEPT ![r] = "open"]
    BY <1>4 DEF Admit
  <2>2. stream'[emitter'] = "open" /\ emitter' \notin flagged'
    BY <2>1 DEF TypeOK
  <2> QED
    BY <2>2
<1>5. ASSUME NEW r \in Streams, HoldListener(r) \/ Subscribe(r) \/ Greet(r)
      PROVE  Unswept'
  BY <1>1, <1>5 DEF HoldListener, Subscribe, Greet, maps, clean
<1>6. ASSUME NEW r \in Streams, Serve(r)
      PROVE  Unswept'
  <2>1. stream' = stream
    BY <1>6 DEF Serve, EndStream, TypeOK
  <2> QED
    BY <1>1, <1>6, <2>1 DEF Serve, maps, clean
<1>7. ASSUME NEW r \in Streams, SubscribeFails(r) \/ ServeFails(r)
      PROVE  Unswept'
  BY <1>1, <1>7 DEF SubscribeFails, ServeFails, maps, clean
<1>8. ASSUME NEW n \in 1..3, Sweep(n)
      PROVE  Unswept'
  BY <1>8 DEF Sweep, TypeOK
<1>9. ASSUME NEW r \in Streams, NEW i, Complete(r, i) \/ Timeout(r) \/ RelayFails(r, i)
      PROVE  Unswept'
  BY <1>8, <1>9 DEF Complete, Timeout, RelayFails
<1>10. ASSUME NEW r \in Streams, NEW i, Ignore(r, i) \/ Relay(r, i)
       PROVE  Unswept'
  BY <1>1, <1>10 DEF Ignore, Relay, maps, server, clean
<1>11. CASE DropEmitter
  BY <1>11 DEF DropEmitter
<1>12. CASE DropListener \/ DropListenerFails
  BY <1>1, <1>12 DEF DropListener, DropListenerFails, server
<1>13. CASE UNCHANGED vars
  BY <1>1, <1>13 DEF vars, maps, server, clean
<1> QED
  BY <1>2, <1>3, <1>4, <1>5, <1>6, <1>7, <1>9, <1>10, <1>11, <1>12, <1>13, NextSplits
     DEF Register, Handle

-----------------------------------------------------------------------------
(* The verdict on its way to an undisturbed page: what holds without       *)
(* fairness of CalmPageSeesVerdict, for any pages and bounds.              *)

\* Nothing has been lost, and nobody has ended the job from outside.
Calm == drops = 0 /\ \A c \in Cuts : cut[c] = "idle"

\* The events are in step with the row and the task: the verdict is the first but
\* for the failure of the job, and a failure that was told of is final.
CalmJob ==
  /\ pc \in {"accepted", "working", "judged"} => log = <<>>
  /\ row = "COMPLETE" => pc \in {"saved", "announced", "over"}
  /\ row = "FAILED" => pc \in {"accepted", "failed", "reported", "over"}
  /\ pc \in {"failed", "reported"} => row = "FAILED"
  /\ (\E i \in 1..Len(log) : log[i] = "error") => row = "FAILED" /\ pc \in {"reported", "over"}

\* A page is on a stream exactly while its EventSource is open, and no two
\* pages are on the same one.
Connected ==
  /\ \A p \in Pages : net[p] = "open" <=> conn[p] # 0
  /\ \A p, q \in Pages : conn[p] = conn[q] /\ conn[p] # 0 => p = q

\* A page's stream is being registered, or Spring has it and it has not ended.
Flowing ==
  \A p \in Pages : net[p] = "open" =>
    \/ setup[conn[p]] \in Registering
    \/ setup[conn[p]] = "ready" /\ stream[conn[p]] = "open"

\* A page that has not read the job yet shows nothing of it.
Unread == \A p \in Pages : net[p] \in {"off", "reading"} => view[p] = Blank

\* The stream r has the gateway to itself.
InUse(r) ==
  /\ stream[r] = "open" /\ emitter = r /\ r \notin flagged
  /\ sweeps = 0 /\ unhears = 0
  /\ \/ setup[r] = "mapped" /\ listener = 0 /\ container = {}
     \/ setup[r] = "held" /\ listener = r /\ container = {}
     \/ setup[r] \in {"heard", "greeted", "ready"} /\ listener = r /\ container = {r}

\* As long as nothing was published and no stream has met the remains of another,
\* so has every stream that is open or being registered.
Orderly ==
  log = <<>> /\ ~tangled =>
    \A r \in Streams : stream[r] = "open" \/ setup[r] \in Registering => InUse(r)

\* The page is on the emitter's stream, which is as register has left it.
OnStream(p) ==
  /\ net[p] = "open" /\ conn[p] = emitter /\ emitter # 0 /\ emitter \notin flagged
  /\ listener = emitter /\ container = {emitter}
  /\ stream[emitter] = "open" /\ setup[emitter] = "ready"
  /\ sweeps = 0 /\ unhears = 0 /\ ending = {}
  /\ \A q \in Streams \ {emitter} : stream[q] # "open" /\ setup[q] \notin Registering

\* The verdict is still to be published, or a thread has it, as the first event.
VerdictToCome ==
  \/ pc \in {"working", "judged"}
  \/ Len(log) > 0 /\ log[1] = "verdict" /\ \E t \in threads : t[2] = 1

OnItsWay(p) ==
  pc # "accepted" /\ (HasOutcome(p) \/ Disturbed(p) \/ (OnStream(p) /\ VerdictToCome))

\* What has been published stays the first event.
LEMMA Appended ==
  ASSUME NEW s \in Seq(Events), NEW e \in Events
  PROVE  /\ Append(s, e) # <<>> /\ Len(Append(s, e)) = Len(s) + 1 /\ Len(s) \in Nat
         /\ \A i \in 1..Len(Append(s, e)) :
              (i \in 1..Len(s) /\ Append(s, e)[i] = s[i]) \/ Append(s, e)[i] = e
         /\ Len(s) > 0 => Append(s, e)[1] = s[1]
         /\ s = <<>> => Append(s, e)[1] = e
<1>1. Len(Append(s, e)) = Len(s) + 1 /\ Len(s) \in Nat /\ Len(<<>>) = 0
  OBVIOUS
<1>2. \A i \in 1..Len(Append(s, e)) :
        (i \in 1..Len(s) /\ Append(s, e)[i] = s[i]) \/ Append(s, e)[i] = e
  BY <1>1
<1>3. Len(s) > 0 => Append(s, e)[1] = s[1]
  OBVIOUS
<1>4. s = <<>> => Append(s, e)[1] = e
  OBVIOUS
<1>5. Append(s, e) # <<>>
  BY <1>1
<1> QED
  BY <1>1, <1>2, <1>3, <1>4, <1>5

\* What was lost, overtaken, entangled or struck stays so.
LEMMA DisturbanceStays ==
  ASSUME TypeOK, [Next]_vars
  PROVE  /\ drops' = drops \/ drops' = drops + 1
         /\ overtaken => overtaken'
         /\ tangled => tangled'
         /\ \A c \in Cuts : cut[c] # "idle" => cut'[c] # "idle"
<1>1. drops' = drops \/ Lose
  <2>1. ASSUME NEW p \in Pages, Admit(p)
        PROVE  drops' = drops
    BY <2>1 DEF Admit
  <2>2. ASSUME NEW r \in Streams,
               Register(r) \/ SubscribeFails(r) \/ ServeFails(r) \/ Timeout(r)
        PROVE  drops' = drops \/ Lose
    BY <2>2 DEF Register, HoldListener, Subscribe, SubscribeFails, Greet, Serve, ServeFails,
       Timeout, history
  <2>3. ASSUME NEW r \in Streams, NEW i, Handle(r, i) \/ Complete(r, i)
        PROVE  drops' = drops
    BY <2>3 DEF Handle, Ignore, Relay, RelayFails, Complete, history
  <2>4. CASE DropEmitter \/ DropListener \/ DropListenerFails \/ UNCHANGED vars
    BY <2>4 DEF DropEmitter, DropListener, DropListenerFails, vars, history
  <2> QED
    BY <2>1, <2>2, <2>3, <2>4, WorkerAlone, PageAlone, NextSplits
<1>2. (overtaken => overtaken') /\ (tangled => tangled')
  <2>1. ASSUME NEW p \in Pages, Admit(p)
        PROVE  (overtaken => overtaken') /\ (tangled => tangled')
    BY <2>1 DEF Admit
  <2>2. ASSUME NEW r \in Streams,
               Register(r) \/ SubscribeFails(r) \/ ServeFails(r) \/ Timeout(r)
        PROVE  (overtaken => overtaken') /\ (tangled => tangled')
    BY <2>2 DEF Register, HoldListener, Subscribe, SubscribeFails, Greet, Serve, ServeFails,
       Timeout, history
  <2>3. ASSUME NEW r \in Streams, NEW i, Handle(r, i) \/ Complete(r, i)
        PROVE  (overtaken => overtaken') /\ (tangled => tangled')
    <3>1. UNCHANGED <<overtaken, tangled>> \/ (TakeThread(r, i) /\ tangled' = tangled)
      BY <2>3 DEF Handle, Ignore, Relay, RelayFails, Complete, history
    <3>2. ASSUME NEW late \in BOOLEAN, overtaken' = (overtaken \/ late)
          PROVE  overtaken => overtaken'
      BY <3>2 DEF TypeOK
    <3>3. (\E t \in threads : t[2] < i) \in BOOLEAN
      OBVIOUS
    <3>4. TakeThread(r, i) => (overtaken => overtaken')
      BY <3>2, <3>3 DEF TakeThread
    <3> QED
      BY <3>1, <3>4
  <2>4. CASE DropEmitter \/ DropListener \/ DropListenerFails \/ UNCHANGED vars
    BY <2>4 DEF DropEmitter, DropListener, DropListenerFails, vars, history
  <2> QED
    BY <2>1, <2>2, <2>3, <2>4, WorkerAlone, PageAlone, NextSplits
<1>3. cut' = cut \/ \E c \in Cuts, x \in {"struck", "failed", "accused", "over"} :
                      cut' = [cut EXCEPT ![c] = x]
  <2>1. CASE JobStep \/ Die \/ Restart
    BY <2>1 DEF JobStep, Start, Judge, Tell, Save, Announce, Fail, FailUnsaved, Report, Finish,
       Die, Restart, JobGoes
  <2>2. CASE \E c \in Cuts : Cut(c)
    BY <2>2 DEF Cut, Strike, Overrule, OverruleUnsaved, Accuse, Close, Desist, CutGoes
  <2>3. ASSUME UNCHANGED worker
        PROVE  cut' = cut
    BY <2>3 DEF worker, rows
  <2>4. ASSUME NEW p \in Pages, Admit(p)
        PROVE  cut' = cut
    BY <2>3, <2>4 DEF Admit
  <2>5. ASSUME NEW r \in Streams,
               Register(r) \/ SubscribeFails(r) \/ ServeFails(r) \/ Timeout(r)
        PROVE  cut' = cut
    BY <2>3, <2>5 DEF Register, HoldListener, Subscribe, SubscribeFails, Greet, Serve,
       ServeFails, Timeout
  <2>6. ASSUME NEW r \in Streams, NEW i, Handle(r, i) \/ Complete(r, i)
        PROVE  cut' = cut
    BY <2>3, <2>6 DEF Handle, Ignore, Relay, RelayFails, Complete
  <2>7. CASE DropEmitter \/ DropListener \/ DropListenerFails \/ UNCHANGED vars
    BY <2>3, <2>7 DEF DropEmitter, DropListener, DropListenerFails, vars
  <2> QED
    BY <2>1, <2>2, <2>4, <2>5, <2>6, <2>7, PageAlone, NextSplits DEF WorkerStep
<1> QED
  BY <1>1, <1>2, <1>3 DEF TypeOK, Lose

\* A calm state comes from a calm one.
LEMMA CalmBefore ==
  ASSUME TypeOK, [Next]_vars, Calm'
  PROVE  Calm
  BY DisturbanceStays DEF Calm, TypeOK

\* The gateway's and the pages' steps leave the job alone.
LEMMA OthersSpareJob ==
  ASSUME [Next]_vars, ~WorkerStep
  PROVE  UNCHANGED <<pc, row, log>>
<1>1. ASSUME UNCHANGED worker
      PROVE  UNCHANGED <<pc, row, log>>
  BY <1>1 DEF worker, rows
<1>2. ASSUME NEW p \in Pages, Admit(p)
      PROVE  UNCHANGED worker
  BY <1>2 DEF Admit
<1>3. ASSUME NEW r \in Streams,
             Register(r) \/ SubscribeFails(r) \/ ServeFails(r) \/ Timeout(r)
      PROVE  UNCHANGED worker
  BY <1>3 DEF Register, HoldListener, Subscribe, SubscribeFails, Greet, Serve, ServeFails,
     Timeout
<1>4. ASSUME NEW r \in Streams, NEW i, Handle(r, i) \/ Complete(r, i)
      PROVE  UNCHANGED worker
  BY <1>4 DEF Handle, Ignore, Relay, RelayFails, Complete
<1>5. CASE DropEmitter \/ DropListener \/ DropListenerFails \/ UNCHANGED vars
  BY <1>1, <1>5 DEF DropEmitter, DropListener, DropListenerFails, vars
<1> QED
  BY <1>1, <1>2, <1>3, <1>4, <1>5, PageAlone, NextSplits

\* In a calm state neither a cut nor a kill takes place, and nothing is lost.
LEMMA CalmWorker ==
  ASSUME TypeOK, WorkerStep, Calm, Calm'
  PROVE  Start \/ Judge \/ Tell \/ Save \/ Announce \/ Fail \/ Report \/ Finish \/ Restart
<1>1. ~Die /\ ~Lose
  BY DEF Die, Lose, Calm, TypeOK
<1>2. ~FailUnsaved
  BY <1>1 DEF FailUnsaved
<1>3. ASSUME NEW c \in Cuts, Cut(c)
      PROVE  FALSE
  <2>1. cut[c] = "idle" /\ Strike(c)
    BY <1>3 DEF Cut, Strike, Overrule, OverruleUnsaved, Accuse, Close, Desist, CutGoes, Calm
  <2>2. cut'[c] = "struck"
    BY <2>1 DEF Strike, CutGoes, TypeOK
  <2> QED
    BY <2>2 DEF Calm
<1> QED
  BY <1>1, <1>2, <1>3 DEF WorkerStep, JobStep

LEMMA NextCalmJob ==
  ASSUME TypeOK, TypeOK', Calm => CalmJob, [Next]_vars
  PROVE  Calm' => CalmJob'
<1> SUFFICES ASSUME Calm', Calm, CalmJob
             PROVE  CalmJob'
  BY CalmBefore
<1>1. CASE ~WorkerStep
  BY <1>1, OthersSpareJob DEF CalmJob
<1>2. ASSUME NEW e \in Events, Publish(e)
      PROVE  /\ log' # <<>>
             /\ \A i \in 1..Len(log') : log'[i] = "error" =>
                  e = "error" \/ \E j \in 1..Len(log) : log[j] = "error"
  <2>1. log \in Seq(Events) /\ log' = Append(log, e)
    BY <1>2 DEF TypeOK, Publish
  <2> QED
    BY <2>1, Appended
<1>3. CASE Start
  BY <1>3 DEF Start, JobGoes, RowTo, Keep, CalmJob
<1>4. CASE Judge
  BY <1>4 DEF Judge, JobGoes, SameRow, Keep, CalmJob
<1>5. CASE Save
  BY <1>5 DEF Save, JobGoes, RowTo, Keep, CalmJob
<1>6. CASE Fail
  <2>1. /\ pc \in Running /\ pc' = "failed" /\ row' = "FAILED" /\ log' = log
    BY <1>6 DEF Fail, JobGoes, RowTo, Keep
  <2> QED
    BY <2>1 DEF CalmJob, Running
<1>7. CASE Restart
  <2>1. /\ log' = log /\ (pc' = "over" \/ (pc = "accepted" /\ pc' = "accepted"))
        /\ row' = IF row \in Active THEN "FAILED" ELSE row
    BY <1>7 DEF Restart, JobGoes, RowTo, Keep
  <2>2. row' \in {"FAILED", row}
    BY <2>1
  <2>3. pc = "accepted" => row # "COMPLETE"
    BY DEF CalmJob
  <2>4. row = "FAILED" => row' = "FAILED"
    BY <2>1
  <2> QED
    BY <2>1, <2>2, <2>3, <2>4 DEF CalmJob
<1>8. CASE Tell
  <2>1. Publish("verdict") /\ pc = "judged" /\ pc' = "told" /\ row' = row
    BY <1>8 DEF Tell, JobGoes, SameRow
  <2> QED
    BY <1>2, <2>1, "verdict" \in Events DEF CalmJob, Events
<1>9. CASE Announce
  <2>1. Publish("completed") /\ pc = "saved" /\ pc' = "announced" /\ row' = row
    BY <1>9 DEF Announce, JobGoes, SameRow
  <2> QED
    BY <1>2, <2>1, "completed" \in Events DEF CalmJob, Events
<1>10. CASE Report
  <2>1. Publish("error") /\ pc = "failed" /\ pc' = "reported" /\ row' = row
    BY <1>10 DEF Report, JobGoes, SameRow
  <2> QED
    BY <1>2, <2>1, "error" \in Events DEF CalmJob, Events
<1>11. CASE Finish
  <2>1. Publish("done") /\ pc \in {"announced", "reported"} /\ pc' = "over" /\ row' = row
    BY <1>11 DEF Finish, JobGoes, SameRow
  <2> QED
    BY <1>2, <2>1, "done" \in Events DEF CalmJob, Events
<1> QED
  BY <1>1, <1>3, <1>4, <1>5, <1>6, <1>7, <1>8, <1>9, <1>10, <1>11, CalmWorker

-----------------------------------------------------------------------------
(* Pages and their streams.                                                *)

\* A page leaves a stream by leaving the state "open", and Admit gives it one
\* that no page is on.
LEMMA NextConnected ==
  ASSUME TypeOK, Connected, [Next]_vars
  PROVE  Connected'
<1> USE DEF TypeOK, Connected
<1>1. ASSUME UNCHANGED <<net, conn>>
      PROVE  Connected'
  BY <1>1
<1>2. ASSUME NEW p \in Pages, NEW n \in Nets \ {"open"}, Goes(p, n)
      PROVE  Connected'
  BY <1>2 DEF Goes
<1>3. CASE WorkerStep
  BY <1>1, <1>3, WorkerAlone
<1>4. ASSUME NEW p \in Pages, Open(p) \/ Hydrate(p) \/ HydrateBare(p) \/ HydrateFails(p)
      PROVE  Connected'
  BY <1>4 DEF Open, Hydrate, HydrateBare, HydrateFails, Fill
<1>5. ASSUME NEW p \in Pages, LeavePage(p) \/ Drop(p) \/ Refuse(p)
      PROVE  Connected'
  BY <1>5, <1>2 DEF LeavePage, Drop, Refuse, LoseStream, GiveUp, Nets
<1>6. ASSUME NEW p \in Pages, Admit(p)
      PROVE  Connected'
  <2>1. PICK r \in Streams : /\ \A q \in Pages : conn[q] # r
                             /\ conn' = [conn EXCEPT ![p] = r]
    BY <1>6 DEF Admit, Free
  <2>2. net' = [net EXCEPT ![p] = "open"] /\ r # 0
    BY <1>6 DEF Admit, Streams
  <2> QED
    BY <2>1, <2>2
<1>7. ASSUME NEW r \in Streams, EndStream(r)
      PROVE  Connected'
  <2>1. UNCHANGED browser \/ \E p \in Pages : Goes(p, "connecting")
    BY <1>7 DEF EndStream, LoseStream
  <2> QED
    BY <1>1, <1>2, <2>1 DEF browser, Nets
<1>8. ASSUME NEW r \in Streams, Register(r)
      PROVE  Connected'
  BY <1>1, <1>7, <1>8 DEF Register, HoldListener, Subscribe, Greet, Serve, browser
<1>9. ASSUME NEW r \in Streams, SubscribeFails(r) \/ ServeFails(r)
      PROVE  Connected'
  <2>1. UNCHANGED <<net, conn>> \/ \E p \in Pages : Goes(p, "closed")
    BY <1>9 DEF SubscribeFails, ServeFails, GiveUp, browser
  <2> QED
    BY <1>1, <1>2, <2>1 DEF Nets
<1>10. ASSUME NEW r \in Streams, NEW i, Complete(r, i) \/ Timeout(r)
       PROVE  Connected'
  BY <1>1, <1>7, <1>10 DEF Complete, Timeout, browser
<1>11. ASSUME NEW r \in Streams, NEW i \in 1..Len(log), Handle(r, i)
       PROVE  Connected'
  <2>1. UNCHANGED <<net, conn>> \/ \E p \in Pages : Goes(p, "closed")
    BY <1>11 DEF Handle, Ignore, Relay, RelayFails, browser
  <2> QED
    BY <1>1, <1>2, <2>1 DEF Nets
<1>12. CASE DropEmitter \/ DropListener \/ DropListenerFails \/ UNCHANGED vars
  BY <1>12, <1>1 DEF DropEmitter, DropListener, DropListenerFails, vars, browser
<1> QED
  BY <1>3, <1>4, <1>5, <1>6, <1>8, <1>9, <1>10, <1>11, <1>12, NextSplits DEF Alone

\* A stream ends under a page only when the page is told, and a page is not told
\* only while the stream is being registered.
LEMMA NextFlowing ==
  ASSUME TypeOK, Referred, Connected, Flowing, [Next]_vars
  PROVE  Flowing'
<1> USE DEF TypeOK, Flowing
<1>1. ASSUME UNCHANGED <<net, conn, stream, setup>>
      PROVE  Flowing'
  BY <1>1
<1>2. ASSUME NEW p \in Pages, NEW n \in Nets \ {"open"}, Goes(p, n), UNCHANGED <<stream, setup>>
      PROVE  Flowing'
  BY <1>2 DEF Goes
<1>3. ASSUME NEW r \in Streams,
             \A q \in Pages : net'[q] = "open" =>
               net[q] = "open" /\ conn'[q] = conn[q] /\ conn[q] # r,
             \A s \in Streams \ {r} : stream'[s] = stream[s] /\ setup'[s] = setup[s]
      PROVE  Flowing'
  BY <1>3 DEF Connected
<1>4. ASSUME NEW r \in Streams, NEW p \in Pages, NEW n \in Nets \ {"open"},
             Listens(p, r), Goes(p, n)
      PROVE  \A q \in Pages : net'[q] = "open" =>
               net[q] = "open" /\ conn'[q] = conn[q] /\ conn[q] # r
  BY <1>4 DEF Listens, Goes, Connected
<1>5. ASSUME NEW r \in Streams, ~Heard(r), UNCHANGED <<net, conn>>
      PROVE  \A q \in Pages : net'[q] = "open" =>
               net[q] = "open" /\ conn'[q] = conn[q] /\ conn[q] # r
  BY <1>5 DEF Heard, Listens
<1>6. ASSUME NEW r \in Streams, EndStream(r), \A s \in Streams \ {r} : setup'[s] = setup[s]
      PROVE  Flowing'
  <2>1. \A q \in Pages : net'[q] = "open" =>
          net[q] = "open" /\ conn'[q] = conn[q] /\ conn[q] # r
    <3>1. CASE \E p \in Pages : Listens(p, r) /\ Goes(p, "connecting")
      BY <1>4, <3>1 DEF Nets
    <3>2. CASE ~Heard(r) /\ UNCHANGED <<net, conn>>
      BY <1>5, <3>2
    <3> QED
      BY <1>6, <3>1, <3>2 DEF EndStream, LoseStream, browser
  <2>2. \A s \in Streams \ {r} : stream'[s] = stream[s]
    BY <1>6 DEF EndStream
  <2> QED
    BY <1>3, <1>6, <2>1, <2>2
<1>7. \A q \in Pages : net[q] = "open" => conn[q] \in Streams
  BY DEF Connected
<1>8. CASE WorkerStep
  BY <1>1, <1>8, WorkerAlone
<1>9. ASSUME NEW p \in Pages, Open(p) \/ Hydrate(p) \/ HydrateBare(p) \/ HydrateFails(p)
      PROVE  Flowing'
  BY <1>9 DEF Open, Hydrate, HydrateBare, HydrateFails, Fill, server
<1>10. ASSUME NEW p \in Pages, LeavePage(p) \/ Drop(p) \/ Refuse(p)
       PROVE  Flowing'
  BY <1>2, <1>10 DEF LeavePage, Drop, Refuse, LoseStream, GiveUp, server, Nets
<1>11. ASSUME NEW p \in Pages, Admit(p)
       PROVE  Flowing'
  <2>1. PICK r \in Streams :
          /\ \A q \in Pages : conn[q] # r
          /\ stream' = [stream EXCEPT ![r] = "open"] /\ conn' = [conn EXCEPT ![p] = r]
          /\ setup' = [setup EXCEPT ![r] = "mapped"]
    BY <1>11 DEF Admit, Free
  <2>2. net' = [net EXCEPT ![p] = "open"]
    BY <1>11 DEF Admit
  <2> QED
    BY <1>7, <2>1, <2>2 DEF Registering
<1>12. ASSUME NEW r \in Streams, HoldListener(r) \/ Subscribe(r) \/ Greet(r)
       PROVE  Flowing'
  <2>1. /\ UNCHANGED <<net, conn, stream>> /\ setup[r] \in Registering
        /\ \E x \in Registering : setup' = [setup EXCEPT ![r] = x]
    BY <1>12 DEF HoldListener, Subscribe, Greet, browser, Registering
  <2> QED
    BY <1>7, <2>1
<1>13. ASSUME NEW r \in Streams, Serve(r)
       PROVE  Flowing'
  <2>1. setup' = [setup EXCEPT ![r] = "ready"] /\ stream[r] # "unused"
    BY <1>13 DEF Serve, Referred, Used
  <2>2. CASE stream[r] = "ended"
    BY <1>6, <1>13, <2>1, <2>2 DEF Serve
  <2>3. CASE stream[r] = "open"
    <3>1. UNCHANGED <<net, conn, stream>>
      BY <1>13, <2>3 DEF Serve, browser
    <3> QED
      BY <1>7, <2>1, <2>3, <3>1
  <2> QED
    BY <2>1, <2>2, <2>3
<1>14. ASSUME NEW r \in Streams, SubscribeFails(r) \/ ServeFails(r)
       PROVE  Flowing'
  <2>1. \A q \in Pages : net'[q] = "open" =>
          net[q] = "open" /\ conn'[q] = conn[q] /\ conn[q] # r
    <3>1. CASE \E p \in Pages : Listens(p, r) /\ Goes(p, "closed")
      BY <1>4, <3>1 DEF Nets
    <3>2. CASE ~Heard(r) /\ UNCHANGED <<net, conn>>
      BY <1>5, <3>2
    <3> QED
      BY <1>14, <3>1, <3>2 DEF SubscribeFails, ServeFails, GiveUp, browser
  <2>2. \A s \in Streams \ {r} : stream'[s] = stream[s] /\ setup'[s] = setup[s]
    BY <1>14 DEF SubscribeFails, ServeFails
  <2> QED
    BY <1>3, <2>1, <2>2
<1>15. ASSUME NEW r \in Streams, Timeout(r)
       PROVE  Flowing'
  BY <1>6, <1>15 DEF Timeout
<1>16. ASSUME NEW r \in Streams, NEW i, Complete(r, i)
       PROVE  Flowing'
  <2>1. CASE UNCHANGED <<stream, browser>>
    BY <1>1, <1>16, <2>1 DEF Complete, browser
  <2>2. CASE EndStream(r)
    BY <1>6, <1>16, <2>2 DEF Complete
  <2>3. CASE stream' = [stream EXCEPT ![r] = "ended"] /\ setup[r] # "ready" /\ UNCHANGED browser
    <3>1. UNCHANGED <<net, conn, setup>>
      BY <1>16, <2>3 DEF Complete, browser
    <3> QED
      BY <1>7, <2>3, <3>1
  <2> QED
    BY <1>16, <2>1, <2>2, <2>3 DEF Complete
<1>17. ASSUME NEW r \in Streams, NEW i \in 1..Len(log), Handle(r, i)
       PROVE  Flowing'
  <2>1. CASE Ignore(r, i)
    BY <1>1, <2>1 DEF Ignore, browser, server
  <2>2. CASE Relay(r, i)
    BY <1>1, <1>2, <2>2 DEF Relay, Nets
  <2>3. CASE RelayFails(r, i)
    <3>1. /\ UNCHANGED <<net, conn, setup>> /\ emitter \in Streams
          /\ stream' = [stream EXCEPT ![emitter] = "ended"]
      BY <2>3 DEF RelayFails, browser
    <3>2. CASE stream[emitter] = "ended"
      BY <1>7, <3>1, <3>2
    <3>3. CASE ~Heard(emitter)
      BY <1>3, <1>5, <3>1, <3>3
    <3> QED
      BY <2>3, <3>2, <3>3 DEF RelayFails
  <2> QED
    BY <1>17, <2>1, <2>2, <2>3 DEF Handle
<1>18. CASE DropEmitter \/ DropListener \/ DropListenerFails \/ UNCHANGED vars
  BY <1>1, <1>18 DEF DropEmitter, DropListener, DropListenerFails, vars, browser, server
<1>19. ASSUME NEW p \in Pages, Alone(p)
       PROVE  Flowing'
  BY <1>9, <1>10, <1>19 DEF Alone
<1> HIDE DEF TypeOK, Flowing
<1> QED
  BY <1>8, <1>11, <1>12, <1>13, <1>14, <1>15, <1>16, <1>17, <1>18, <1>19, NextSplits
     DEF Register

-----------------------------------------------------------------------------
(* One stream in use.                                                      *)

\* Whatever has begun to be published stays begun.
LEMMA StillSilent ==
  ASSUME TypeOK, [Next]_vars, log' = <<>>
  PROVE  /\ log = <<>> /\ threads = {} /\ ending = {}
         /\ \A r \in Streams : \A i : ~Handle(r, i) /\ ~Complete(r, i)
<1>1. log = <<>>
  <2>1. ASSUME NEW e \in Events, Publish(e)
        PROVE  log' # <<>>
    BY <2>1, Appended DEF Publish, TypeOK
  <2> QED
    BY <2>1, WorkerAlone, OthersSpareJob
<1>2. threads = {} /\ ending = {}
  BY <1>1 DEF TypeOK
<1> QED
  BY <1>1, <1>2 DEF Handle, Ignore, Relay, RelayFails, TakeThread, Complete

LEMMA NextOrderly ==
  ASSUME TypeOK, TypeOK', SoleInv, Orderly, [Next]_vars
  PROVE  Orderly'
<1> SUFFICES ASSUME log' = <<>>, ~tangled', NEW q \in Streams,
                    stream'[q] = "open" \/ setup'[q] \in Registering
             PROVE  InUse(q)'
  BY DEF Orderly
<1>1. log = <<>> /\ ~tangled /\ \A r \in Streams : \A i : ~Handle(r, i) /\ ~Complete(r, i)
  BY StillSilent, DisturbanceStays
<1>2. \A r \in Streams : stream[r] = "open" \/ setup[r] \in Registering => InUse(r)
  BY <1>1 DEF Orderly
<1> USE DEF TypeOK
<1>3. ASSUME UNCHANGED <<stream, setup, emitter, listener, container, flagged, sweeps, unhears>>
      PROVE  InUse(q)'
  BY <1>2, <1>3 DEF InUse
<1>4. CASE WorkerStep
  BY <1>3, <1>4, WorkerAlone
<1>5. ASSUME NEW p \in Pages, Alone(p)
      PROVE  InUse(q)'
  BY <1>3, <1>5, PageAlone
<1>6. ASSUME NEW p \in Pages, Admit(p)
      PROVE  InUse(q)'
  <2>1. PICK r \in Streams :
          /\ emitter' = r /\ flagged' = flagged \ {r}
          /\ stream' = [stream EXCEPT ![r] = "open"] /\ setup' = [setup EXCEPT ![r] = "mapped"]
    BY <1>6 DEF Admit
  <2>2. Clear /\ UNCHANGED <<listener, container, sweeps, unhears>>
    BY <1>6 DEF Admit, clean
  <2>3. \A s \in Streams : stream[s] # "open" /\ setup[s] \notin Registering
    BY <1>1, <2>2 DEF Clear, SoleInv, Sole
  <2>4. q = r
    BY <2>1, <2>3
  <2> QED
    BY <2>1, <2>2, <2>4 DEF Clear, InUse
<1>7. ASSUME NEW r \in Streams, HoldListener(r) \/ Subscribe(r)
      PROVE  InUse(q)'
  <2>1. InUse(r) /\ setup[r] \in {"mapped", "held"}
    BY <1>2, <1>7 DEF HoldListener, Subscribe, Registering
  <2>2. /\ \E x \in {"held", "heard"} : setup' = [setup EXCEPT ![r] = x]
        /\ UNCHANGED <<stream, emitter, flagged, sweeps, unhears>>
    BY <1>7 DEF HoldListener, Subscribe, clean
  <2>3. q = r
    BY <1>2, <2>1, <2>2 DEF InUse
  <2>4. CASE HoldListener(r)
    BY <2>1, <2>3, <2>4 DEF HoldListener, InUse, clean
  <2>5. CASE Subscribe(r)
    BY <2>1, <2>3, <2>5 DEF Subscribe, InUse, clean
  <2> QED
    BY <1>7, <2>4, <2>5
<1>8. ASSUME NEW r \in Streams, Greet(r) \/ Serve(r)
      PROVE  InUse(q)'
  <2>1. InUse(r) /\ setup[r] \in {"heard", "greeted"}
    BY <1>2, <1>8 DEF Greet, Serve, Registering
  <2>2. /\ \E x \in {"greeted", "ready"} : setup' = [setup EXCEPT ![r] = x]
        /\ UNCHANGED <<stream, emitter, listener, container, flagged, sweeps, unhears>>
    BY <1>8, <2>1 DEF Greet, Serve, InUse, maps, clean
  <2>3. q = r
    BY <1>2, <2>1, <2>2 DEF InUse
  <2> QED
    BY <2>1, <2>2, <2>3 DEF InUse
<1>9. ASSUME NEW r \in Streams, SubscribeFails(r) \/ ServeFails(r)
      PROVE  FALSE
  BY <1>9 DEF SubscribeFails, ServeFails
<1>10. ASSUME NEW r \in Streams, Timeout(r)
       PROVE  FALSE
  <2>1. InUse(r) /\ setup[r] = "ready"
    BY <1>2, <1>10 DEF Timeout
  <2>2. stream' = [stream EXCEPT ![r] = "ended"] /\ setup' = setup
    BY <1>10 DEF Timeout, EndStream
  <2>3. q # r
    BY <2>1, <2>2 DEF Registering
  <2> QED
    BY <1>2, <2>1, <2>2, <2>3 DEF InUse
<1>11. CASE DropEmitter \/ DropListener \/ DropListenerFails
  <2>1. (sweeps > 0 \/ unhears > 0) /\ UNCHANGED <<stream, setup>>
    BY <1>11 DEF DropEmitter, DropListener, DropListenerFails, server
  <2> QED
    BY <1>2, <2>1 DEF InUse
<1>12. CASE UNCHANGED vars
  BY <1>3, <1>12 DEF vars, maps, server, clean
<1> HIDE DEF TypeOK
<1> QED
  BY <1>1, <1>4, <1>5, <1>6, <1>7, <1>8, <1>9, <1>10, <1>11, <1>12, NextSplits DEF Register

-----------------------------------------------------------------------------
(* What a step does to one page.                                           *)

Failed == \E i \in 1..Len(log) : log[i] = "error"

\* The page stays as it is, is left, is opened and filled, or is told of
\* something: then a verdict it shows stays, and so does a lost connection
\* unless the failure of the job was published.
PageMoves(p) ==
  \/ net'[p] = net[p] /\ view'[p] = view[p]
  \/ net'[p] = "gone" /\ net[p] \notin {"off", "reading"}
  \/ /\ net[p] \in {"off", "reading"} /\ net'[p] \notin {"off", "gone", "open"}
     /\ net'[p] = "reading" => view'[p] = view[p]
  \/ /\ net[p] \in {"connecting", "open"} /\ net'[p] \in {"connecting", "open", "closed"}
     /\ view[p].verdict => view'[p].verdict
     /\ view[p].error = "connection" => view'[p].error = "connection" \/ Failed

\* No action takes a verdict back, and only the failure of the job replaces a
\* lost connection.
LEMMA ReduceKeepsShown ==
  ASSUME NEW v \in Views, NEW e \in Actions
  PROVE  /\ v.verdict => Reduce(v, e).verdict
         /\ v.error = "connection" => Reduce(v, e).error = "connection" \/ e = "error"
<1>1. CASE e \in {"queued", "completed"}
  <2>1. /\ Reduce(v, "queued").verdict = v.verdict /\ Reduce(v, "queued").error = v.error
        /\ Reduce(v, "completed").verdict = v.verdict
        /\ Reduce(v, "completed").error = v.error
    BY Reduced DEF Views
  <2> QED
    BY <1>1, <2>1
<1>2. CASE e = "verdict"
  <2>1. Reduce(v, "verdict").verdict = TRUE /\ Reduce(v, "verdict").error = v.error
    BY Reduced DEF Views
  <2> QED
    BY <1>2, <2>1
<1>3. CASE e = "error"
  <2>1. Reduce(v, "error").verdict = v.verdict
    BY Reduced DEF Views
  <2> QED
    BY <1>3, <2>1
<1>4. CASE e = "lost"
  <2>1. Reduce(v, "lost").verdict = v.verdict /\ Reduce(v, "lost").error = "connection"
    BY Reduced DEF Views
  <2> QED
    BY <1>4, <2>1
<1>5. CASE e = "done"
  BY <1>5, Reduced
<1> QED
  BY <1>1, <1>2, <1>3, <1>4, <1>5 DEF Actions

LEMMA ReduceShows ==
  ASSUME NEW v \in Views
  PROVE  Reduce(v, "verdict").verdict /\ Reduce(v, "lost").error = "connection"
BY Reduced DEF Views

LEMMA ShowMoves ==
  ASSUME TypeOK, NEW p \in Pages, NEW q \in Pages, NEW e \in Actions, Show(q, e),
         e = "error" => Failed, net[q] = "open",
         \/ UNCHANGED net
         \/ Goes(q, "connecting") \/ Goes(q, "closed")
  PROVE  PageMoves(p)
<1>1. view \in [Pages -> Views] /\ view[q] \in Views /\ net \in [Pages -> Nets]
  BY DEF TypeOK
<1>2. CASE p # q
  <2>1. view'[p] = view[p] /\ net'[p] = net[p]
    BY <1>1, <1>2 DEF Show, Goes
  <2> QED
    BY <2>1 DEF PageMoves
<1>3. CASE p = q
  <2>1. view'[p] = Reduce(view[p], e)
    BY <1>1, <1>3 DEF Show
  <2>2. net'[p] \in {"connecting", "open", "closed"}
    BY <1>1, <1>3 DEF Goes
  <2>3. /\ view[p].verdict => Reduce(view[p], e).verdict
        /\ view[p].error = "connection" => Reduce(view[p], e).error = "connection" \/ e = "error"
    BY <1>1, <1>3, ReduceKeepsShown
  <2> QED
    BY <1>3, <2>1, <2>2, <2>3 DEF PageMoves
<1> QED
  BY <1>2, <1>3

LEMMA GiveUpMoves ==
  ASSUME TypeOK, NEW p \in Pages, NEW q \in Pages, GiveUp(q), net[q] \in {"connecting", "open"}
  PROVE  PageMoves(p)
<1>1. CASE p # q
  BY <1>1 DEF GiveUp, Goes, PageMoves, TypeOK
<1>2. CASE p = q
  <2> DEFINE w == Reduce(view[p], "lost")
  <2>1. view[p] \in Views
    BY DEF TypeOK
  <2>2. w \in Views /\ w.verdict = view[p].verdict /\ w.error = "connection"
    BY <2>1, Reduced DEF Views
  <2>3. view'[p] = Reduce(w, "completed") /\ net'[p] = "closed"
    BY <1>2 DEF GiveUp, Goes, TypeOK
  <2> HIDE DEF w
  <2>4. Reduce(w, "completed").verdict = w.verdict /\ Reduce(w, "completed").error = w.error
    BY <2>2, Reduced DEF Views
  <2> QED
    BY <1>2, <2>2, <2>3, <2>4 DEF PageMoves
<1> QED
  BY <1>1, <1>2

LEMMA NextMoves ==
  ASSUME IInv, [Next]_vars, NEW p \in Pages
  PROVE  PageMoves(p)
<1> USE DEF IInv, TypeOK
<1>1. ASSUME UNCHANGED <<net, view>>
      PROVE  PageMoves(p)
  BY <1>1 DEF PageMoves
<1>2. ASSUME NEW r \in Streams, EndStream(r)
      PROVE  PageMoves(p)
  <2>1. CASE UNCHANGED browser
    BY <1>1, <2>1 DEF browser
  <2>2. ASSUME NEW q \in Pages, Listens(q, r), LoseStream(q)
        PROVE  PageMoves(p)
    BY <2>2, ShowMoves, "lost" \in Actions DEF LoseStream, Listens, Actions
  <2> QED
    BY <1>2, <2>1, <2>2 DEF EndStream
<1>3. CASE WorkerStep
  BY <1>1, <1>3, WorkerAlone
<1>4. ASSUME NEW q \in Pages, Open(q) \/ Admit(q)
      PROVE  PageMoves(p)
  <2>1. CASE p = q
    BY <1>4, <2>1 DEF Open, Admit, PageMoves
  <2>2. CASE p # q
    BY <1>4, <2>2 DEF Open, Admit, PageMoves
  <2> QED
    BY <2>1, <2>2
<1>5. ASSUME NEW q \in Pages, Hydrate(q) \/ HydrateBare(q) \/ HydrateFails(q)
      PROVE  PageMoves(p)
  <2>1. CASE p = q
    BY <1>5, <2>1 DEF Hydrate, HydrateBare, HydrateFails, Fill, PageMoves
  <2>2. CASE p # q
    BY <1>5, <2>2 DEF Hydrate, HydrateBare, HydrateFails, Fill, PageMoves
  <2> QED
    BY <2>1, <2>2
<1>6. ASSUME NEW q \in Pages, LeavePage(q)
      PROVE  PageMoves(p)
  BY <1>6 DEF LeavePage, Goes, PageMoves
<1>7. ASSUME NEW q \in Pages, Drop(q)
      PROVE  PageMoves(p)
  BY <1>7, ShowMoves, "lost" \in Actions DEF Drop, LoseStream, Actions
<1>8. ASSUME NEW q \in Pages, Refuse(q)
      PROVE  PageMoves(p)
  BY <1>8, GiveUpMoves DEF Refuse
<1>9. ASSUME NEW r \in Streams, HoldListener(r) \/ Subscribe(r) \/ ServeFails(r)
      PROVE  PageMoves(p)
  BY <1>1, <1>9 DEF HoldListener, Subscribe, ServeFails, browser
<1>10. ASSUME NEW r \in Streams, SubscribeFails(r)
       PROVE  PageMoves(p)
  <2>1. CASE UNCHANGED <<view, net, conn>>
    BY <1>1, <2>1
  <2>2. ASSUME NEW q \in Pages, Listens(q, r), GiveUp(q)
        PROVE  PageMoves(p)
    BY <2>2, GiveUpMoves DEF Listens
  <2> QED
    BY <1>10, <2>1, <2>2 DEF SubscribeFails
<1>11. ASSUME NEW r \in Streams, Greet(r)
       PROVE  PageMoves(p)
  <2>1. CASE UNCHANGED view
    BY <1>1, <1>11, <2>1 DEF Greet
  <2>2. ASSUME NEW q \in Pages, Listens(q, r), Show(q, "queued")
        PROVE  PageMoves(p)
    BY <1>11, <2>2, ShowMoves, "queued" \in Actions DEF Greet, Listens, Actions
  <2> QED
    BY <1>11, <2>1, <2>2 DEF Greet
<1>12. ASSUME NEW r \in Streams, NEW i, Serve(r) \/ Complete(r, i) \/ Timeout(r)
       PROVE  PageMoves(p)
  BY <1>1, <1>2, <1>12 DEF Serve, Complete, Timeout, browser
<1>13. ASSUME NEW r \in Streams, NEW i \in 1..Len(log), Handle(r, i)
       PROVE  PageMoves(p)
  <2>1. CASE Ignore(r, i) \/ RelayFails(r, i)
    BY <1>1, <2>1 DEF Ignore, RelayFails, browser
  <2>2. CASE UNCHANGED <<view, net, conn>>
    BY <1>1, <2>2
  <2>3. ASSUME NEW q \in Pages, Listens(q, emitter), Show(q, log[i]),
               Goes(q, "closed") \/ UNCHANGED <<net, conn>>
        PROVE  PageMoves(p)
    <3>1. log[i] \in Actions /\ (log[i] = "error" => Failed)
      BY DEF Actions, Events, Failed
    <3> QED
      BY <2>3, <3>1, ShowMoves DEF Listens
  <2> QED
    BY <1>13, <2>1, <2>2, <2>3 DEF Handle, Relay
<1>14. CASE DropEmitter \/ DropListener \/ DropListenerFails \/ UNCHANGED vars
  BY <1>1, <1>14 DEF DropEmitter, DropListener, DropListenerFails, vars, browser
<1>15. ASSUME NEW q \in Pages, Alone(q)
       PROVE  PageMoves(p)
  BY <1>4, <1>5, <1>6, <1>7, <1>8, <1>15 DEF Alone
<1>16. ASSUME NEW r \in Streams,
              Register(r) \/ SubscribeFails(r) \/ ServeFails(r) \/ Timeout(r)
       PROVE  PageMoves(p)
  BY <1>9, <1>10, <1>11, <1>12, <1>16 DEF Register
<1> HIDE DEF IInv, TypeOK
<1> QED
  BY <1>3, <1>4, <1>12, <1>13, <1>14, <1>15, <1>16, NextSplits

LEMMA NextUnread ==
  ASSUME IInv, Unread, [Next]_vars
  PROVE  Unread'
BY NextMoves DEF Unread, PageMoves

-----------------------------------------------------------------------------
(* The verdict stays on its way.                                           *)

\* The task starts once.
LEMMA StaysStarted ==
  ASSUME [Next]_vars, pc # "accepted"
  PROVE  pc' # "accepted"
<1>1. CASE ~WorkerStep
  BY <1>1, OthersSpareJob
<1>2. CASE JobStep \/ Die \/ Restart
  BY <1>2 DEF JobStep, Start, Judge, Tell, Save, Announce, Fail, FailUnsaved, Report, Finish,
     Die, Restart, JobGoes
<1>3. CASE \E c \in Cuts : Cut(c)
  BY <1>3 DEF Cut, Strike, Overrule, OverruleUnsaved, Accuse, Close, Desist, CutGoes
<1> QED
  BY <1>1, <1>2, <1>3 DEF WorkerStep

\* A disturbed page but for its lost connection stays so.
LEMMA UncalmStays ==
  ASSUME TypeOK, [Next]_vars, NEW p \in Pages, ~Calm \/ overtaken \/ tangled
  PROVE  Disturbed(p)'
  BY DisturbanceStays DEF Calm, Disturbed, TypeOK

\* A failure of a calm job that has been started is final.
LEMMA FailureStays ==
  ASSUME IInv, CalmJob, Calm, Calm', [Next]_vars, pc # "accepted", row = "FAILED"
  PROVE  row' = "FAILED"
<1>1. CASE ~WorkerStep
  BY <1>1, OthersSpareJob
<1>2. pc \in {"failed", "reported", "over"}
  BY DEF CalmJob
<1>3. CASE WorkerStep
  BY <1>2, <1>3, CalmWorker
  DEF Start, Judge, Tell, Save, Announce, Fail, Report, Finish, Restart, JobGoes, SameRow,
      RowTo, IInv, Active
<1> QED
  BY <1>1, <1>3

\* A page that has the outcome, or was disturbed, stays so.
LEMMA OutcomeStays ==
  ASSUME IInv, IInv', Unread, Calm => CalmJob, [Next]_vars, NEW p \in Pages,
         pc # "accepted", HasOutcome(p) \/ Disturbed(p)
  PROVE  HasOutcome(p)' \/ Disturbed(p)'
<1>1. CASE ~Calm \/ overtaken \/ tangled
  BY <1>1, UncalmStays DEF IInv
<1>2. CASE ~Calm'
  <2>1. drops' # 0 => drops' > 0
    BY DEF IInv, TypeOK
  <2> QED
    BY <1>2, <2>1 DEF Calm, Disturbed
<1>3. CASE Calm /\ Calm' /\ row = "FAILED"
  BY <1>3, FailureStays DEF HasOutcome
<1>4. CASE /\ Calm /\ Calm'
           /\ view[p].verdict \/ view[p].error = "connection" \/ net[p] = "gone"
  <2>1. net[p] \notin {"off", "reading"}
    BY <1>4 DEF Unread, Blank
  <2>2. PageMoves(p)
    BY NextMoves
  <2>3. CASE net[p] = "gone"
    BY <2>2, <2>3 DEF PageMoves, HasOutcome
  <2>4. CASE view[p].verdict
    BY <2>1, <2>2, <2>4 DEF PageMoves, HasOutcome
  <2>5. CASE view[p].error = "connection"
    <3>1. Failed => row = "FAILED"
      BY <1>4 DEF CalmJob, Failed
    <3> QED
      BY <1>3, <1>4, <2>1, <2>2, <2>5, <3>1 DEF PageMoves, HasOutcome, Disturbed
  <2> QED
    BY <1>4, <2>3, <2>4, <2>5
<1>5. Calm => drops = 0 /\ \A c \in Cuts : cut[c] = "idle"
  BY DEF Calm
<1>6. drops > 0 => drops # 0
  OBVIOUS
<1> QED
  BY <1>1, <1>2, <1>3, <1>4, <1>5, <1>6 DEF HasOutcome, Disturbed

LEMMA WorkerKeepsOnItsWay ==
  ASSUME IInv, IInv', Calm => CalmJob, [Next]_vars, NEW p \in Pages, OnStream(p),
         VerdictToCome, WorkerStep
  PROVE  HasOutcome(p)' \/ Disturbed(p)' \/ (OnStream(p)' /\ VerdictToCome')
<1>1. OnStream(p)'
  BY WorkerAlone DEF OnStream
<1>2. CASE ~Calm \/ ~Calm'
  <2>1. drops' # 0 => drops' > 0
    BY DEF IInv, TypeOK
  <2>2. ~Calm' => Disturbed(p)'
    BY <2>1 DEF Calm, Disturbed
  <2> QED
    BY <1>2, <2>2, UncalmStays DEF IInv
<1> SUFFICES ASSUME Calm, Calm', CalmJob
             PROVE  HasOutcome(p)' \/ VerdictToCome'
  BY <1>1, <1>2
<1>3. CASE Judge
  BY <1>3 DEF Judge, JobGoes, VerdictToCome
<1>4. CASE Fail
  BY <1>4 DEF Fail, RowTo, HasOutcome
<1>5. CASE Tell
  <2>1. log = <<>> /\ Len(log) = 0 /\ Publish("verdict")
    BY <1>5 DEF Tell, JobGoes, CalmJob
  <2>2. ~Lose
    BY DEF Lose, Calm, IInv, TypeOK
  <2>3. threads' = threads \cup {<<l, Len(log) + 1>> : l \in container}
    BY <2>1, <2>2 DEF Publish
  <2>4. <<emitter, 1>> \in threads' /\ <<emitter, 1>>[2] = 1
    BY <2>1, <2>3 DEF OnStream
  <2>5. Len(log') > 0 /\ log'[1] = "verdict"
    BY <2>1, Appended, "verdict" \in Events DEF Publish, IInv, TypeOK, Events
  <2> QED
    BY <2>4, <2>5 DEF VerdictToCome
<1>6. CASE Start
  <2>1. log = <<>> /\ Len(log) = 0
    BY <1>6 DEF Start, JobGoes, CalmJob
  <2> QED
    BY <1>6, <2>1 DEF Start, JobGoes, VerdictToCome
<1>7. CASE Save
  BY <1>7 DEF Save, JobGoes, Keep, VerdictToCome
<1>8. CASE Restart
  <2>1. CASE pc \in {"working", "judged"}
    <3>1. row # "COMPLETE" /\ row \in Statuses
      BY <2>1 DEF CalmJob, IInv, TypeOK
    <3>2. row' = "FAILED"
      BY <1>8, <3>1 DEF Restart, RowTo, Active, Statuses
    <3> QED
      BY <3>2 DEF HasOutcome
  <2>2. CASE pc \notin {"working", "judged"}
    BY <1>8, <2>2 DEF Restart, Keep, VerdictToCome
  <2> QED
    BY <2>1, <2>2
<1>9. CASE Announce \/ Report \/ Finish
  <2>1. Len(log) > 0 /\ log[1] = "verdict" /\ \E t \in threads : t[2] = 1
    BY <1>9 DEF Announce, Report, Finish, JobGoes, VerdictToCome
  <2>2. PICK e \in Events : Publish(e)
    BY <1>9 DEF Announce, Report, Finish, Events
  <2>3. Len(log') > 0 /\ log'[1] = "verdict"
    BY <2>1, <2>2, Appended DEF Publish, IInv, TypeOK
  <2>4. threads \subseteq threads'
    BY <2>2 DEF Publish
  <2> QED
    BY <2>1, <2>3, <2>4 DEF VerdictToCome
<1>10. TypeOK
  BY DEF IInv
<1> QED
  BY <1>3, <1>4, <1>5, <1>6, <1>7, <1>8, <1>9, <1>10, CalmWorker

LEMMA PageKeepsOnItsWay ==
  ASSUME IInv, NEW p \in Pages, OnStream(p), VerdictToCome, NEW q \in Pages,
         Alone(q) \/ Admit(q)
  PROVE  HasOutcome(p)' \/ Disturbed(p)' \/ (OnStream(p)' /\ VerdictToCome')
<1> USE DEF IInv, TypeOK
<1>1. CASE Admit(q)
  <2>1. tangled'
    BY <1>1 DEF Admit, Clear, OnStream
  <2> QED
    BY <2>1 DEF Disturbed
<1>2. CASE Lose
  BY <1>2 DEF Lose, Disturbed
<1>3. CASE LeavePage(q) /\ p = q
  BY <1>3 DEF LeavePage, Goes, HasOutcome
<1>4. ASSUME Alone(q), net'[p] = net[p], conn'[p] = conn[p]
      PROVE  OnStream(p)' /\ VerdictToCome'
  BY <1>4, PageAlone DEF OnStream, VerdictToCome
<1>5. CASE LeavePage(q) /\ p # q
  <2>1. net'[p] = net[p] /\ conn'[p] = conn[p]
    BY <1>5 DEF LeavePage, Goes
  <2> QED
    BY <1>4, <1>5, <2>1 DEF Alone
<1>6. CASE Open(q) \/ Hydrate(q)
  <2>1. q # p
    BY <1>6 DEF Open, Hydrate, OnStream
  <2>2. net'[p] = net[p] /\ conn'[p] = conn[p]
    BY <1>6, <2>1 DEF Open, Hydrate, Fill
  <2> QED
    BY <1>4, <1>6, <2>2 DEF Alone
<1>7. CASE HydrateBare(q) \/ HydrateFails(q) \/ Drop(q) \/ Refuse(q)
  BY <1>2, <1>7 DEF HydrateBare, HydrateFails, Drop, Refuse
<1> HIDE DEF IInv, TypeOK
<1> QED
  BY <1>1, <1>3, <1>5, <1>6, <1>7 DEF Alone

LEMMA TimeoutKeepsOnItsWay ==
  ASSUME IInv, Connected, NEW p \in Pages, OnStream(p), NEW r \in Streams, Timeout(r)
  PROVE  Disturbed(p)'
<1>1. r = emitter
  BY DEF Timeout, OnStream
<1>2. Listens(p, r) /\ Heard(r) /\ r # 0
  BY <1>1 DEF OnStream, Listens, Heard
<1>3. PICK q \in Pages : Listens(q, r) /\ LoseStream(q)
  BY <1>2 DEF Timeout, EndStream
<1>4. q = p
  BY <1>2, <1>3 DEF Connected, Listens
<1>5. view[p] \in Views /\ view'[p] = Reduce(view[p], "lost")
  BY <1>3, <1>4 DEF LoseStream, Show, IInv, TypeOK
<1>6. view'[p].error = "connection"
  BY <1>5, ReduceShows
<1> QED
  BY <1>6 DEF Disturbed

LEMMA HandleKeepsOnItsWay ==
  ASSUME IInv, Connected, Calm => CalmJob, [Next]_vars, NEW p \in Pages, OnStream(p),
         VerdictToCome, NEW l \in Streams, NEW i \in 1..Len(log), Handle(l, i)
  PROVE  HasOutcome(p)' \/ Disturbed(p)'
<1>1. <<l, i>> \in threads /\ TakeThread(l, i)
  BY DEF Handle, Ignore, Relay, RelayFails, TakeThread
<1>2. Len(log) \in Nat /\ log # <<>>
  BY DEF IInv, TypeOK
<1>3. CASE ~Calm
  BY <1>3, UncalmStays DEF IInv
<1>4. ASSUME Calm
      PROVE  log[1] = "verdict" /\ \E t \in threads : t[2] = 1
  BY <1>2, <1>4 DEF VerdictToCome, CalmJob
<1>5. CASE Calm /\ i # 1
  <2>1. PICK t \in threads : t[2] = 1
    BY <1>4, <1>5
  <2>2. t[2] < i /\ t # <<l, i>>
    BY <1>2, <1>5, <2>1
  <2>3. overtaken'
    BY <1>1, <2>2 DEF TakeThread
  <2> QED
    BY <2>3 DEF Disturbed
<1>6. CASE Calm /\ i = 1
  <2>1. Listens(p, emitter) /\ Heard(emitter) /\ emitter \notin {0} \cup flagged
    BY DEF OnStream, Listens, Heard
  <2>2. Relay(l, i)
    BY <2>1 DEF Handle, Ignore, RelayFails, OnStream
  <2>3. PICK q \in Pages : Listens(q, emitter) /\ Show(q, "verdict")
    BY <1>4, <1>6, <2>1, <2>2 DEF Relay
  <2>4. q = p
    BY <2>1, <2>3 DEF Connected, Listens, OnStream
  <2>5. view[p] \in Views /\ view'[p] = Reduce(view[p], "verdict")
    BY <2>3, <2>4 DEF Show, IInv, TypeOK
  <2>6. view'[p].verdict
    BY <2>5, ReduceShows
  <2> QED
    BY <2>6 DEF HasOutcome
<1> QED
  BY <1>3, <1>5, <1>6

LEMMA NextOnItsWay ==
  ASSUME IInv, IInv', Connected, Calm => CalmJob, Unread, [Next]_vars,
         NEW p \in Pages, OnItsWay(p)
  PROVE  OnItsWay(p)'
<1>1. pc # "accepted" /\ pc' # "accepted"
  BY StaysStarted DEF OnItsWay
<1>2. CASE HasOutcome(p) \/ Disturbed(p)
  BY <1>1, <1>2, OutcomeStays DEF OnItsWay
<1> SUFFICES ASSUME OnStream(p), VerdictToCome
             PROVE  HasOutcome(p)' \/ Disturbed(p)' \/ (OnStream(p)' /\ VerdictToCome')
  BY <1>1, <1>2 DEF OnItsWay
<1>3. CASE WorkerStep
  BY <1>3, WorkerKeepsOnItsWay
<1>4. ASSUME NEW q \in Pages, Alone(q) \/ Admit(q)
      PROVE  HasOutcome(p)' \/ Disturbed(p)' \/ (OnStream(p)' /\ VerdictToCome')
  BY <1>4, PageKeepsOnItsWay
<1>5. ASSUME NEW r \in Streams, Register(r) \/ SubscribeFails(r) \/ ServeFails(r)
      PROVE  FALSE
  <2>1. setup[r] \in Registering
    BY <1>5 DEF Register, HoldListener, Subscribe, SubscribeFails, Greet, Serve, ServeFails,
       Registering
  <2> QED
    BY <2>1 DEF OnStream, Registering
<1>6. ASSUME NEW r \in Streams, NEW i, Complete(r, i)
      PROVE  FALSE
  BY <1>6 DEF Complete, OnStream
<1>7. ASSUME NEW r \in Streams, Timeout(r)
      PROVE  Disturbed(p)'
  BY <1>7, TimeoutKeepsOnItsWay
<1>8. ASSUME NEW r \in Streams, NEW i \in 1..Len(log), Handle(r, i)
      PROVE  HasOutcome(p)' \/ Disturbed(p)'
  BY <1>8, HandleKeepsOnItsWay
<1>9. CASE DropEmitter \/ DropListener \/ DropListenerFails
  BY <1>9 DEF DropEmitter, DropListener, DropListenerFails, OnStream
<1>10. CASE UNCHANGED vars
  BY <1>10 DEF vars, worker, browser, maps, server, clean, OnStream, VerdictToCome
<1> QED
  BY <1>3, <1>4, <1>5, <1>6, <1>7, <1>8, <1>9, <1>10, NextSplits

\* A page that is served before there is a verdict has the gateway to itself, or
\* was disturbed.
LEMMA ServedIsOnItsWay ==
  ASSUME IInv, Connected, Calm => CalmJob, Orderly, Flowing, NEW p \in Pages,
         Served(p), pc = "working"
  PROVE  OnItsWay(p)
<1>1. CASE ~Calm \/ tangled
  <2>1. drops # 0 => drops > 0
    BY DEF IInv, TypeOK
  <2> QED
    BY <1>1, <2>1 DEF Calm, OnItsWay, Disturbed
<1>2. CASE Calm /\ ~tangled
  <2>1. log = <<>> /\ ending = {}
    BY <1>2 DEF CalmJob, IInv, TypeOK
  <2>2. emitter # 0 /\ emitter \in Streams /\ stream[emitter] = "open" /\ setup[emitter] = "ready"
    BY DEF Served, Connected, Flowing, Registering, IInv, TypeOK
  <2>3. \A r \in Streams : stream[r] = "open" \/ setup[r] \in Registering => InUse(r)
    BY <1>2, <2>1 DEF Orderly
  <2>4. InUse(emitter)
    BY <2>2, <2>3
  <2>5. OnStream(p)
    BY <2>1, <2>2, <2>3, <2>4 DEF OnStream, InUse, Served
  <2> QED
    BY <2>5 DEF OnItsWay, VerdictToCome
<1> QED
  BY <1>1, <1>2

-----------------------------------------------------------------------------
(* The theorems.                                                           *)

\* EventRelay keeps its types whatever is lost, reordered or refused.
THEOREM TypeCorrect == Spec => []TypeOK
<1>1. IInv => TypeOK
  BY DEF IInv
<1> QED
  BY InitIInv, Invariance, <1>1, PTL DEF Spec

\* For any number of pages, streams, losses and cuts, a page shows a verdict,
\* completion without an error, or a failure of the job only if it happened, also
\* where a task goes on and writes PROCESSING and COMPLETE over a FAILED.
THEOREM OutcomeHappened == Spec => []ShownOutcomeHappened
<1>1. IInv => ShownOutcomeHappened
  BY DEF IInv
<1> QED
  BY InitIInv, Invariance, <1>1, PTL DEF Spec

LEMMA InitSole == Init => SoleInv
  BY DEF Init, SoleInv, Referred, Sole, Fresh, Due, Used

\* For any number of pages and streams: of streams that come one after another the
\* gateway forgets emitter and listener once the last one has ended and its
\* cleanups are done.
THEOREM SoleStreamsAreForgotten == Spec => []SoleStreamIsForgotten
<1>1. IInv /\ SoleInv => SoleStreamIsForgotten
  <2> SUFFICES ASSUME TypeOK, Referred, Sole, AllClosed
               PROVE  emitter = 0 /\ listener = 0 /\ container = {}
    BY DEF IInv, SoleInv, SoleStreamIsForgotten
  <2>1. sweeps = 0 /\ unhears = 0
    BY DEF TypeOK, AllClosed
  <2>2. ASSUME NEW r \in Used
        PROVE  stream[r] = "ended" /\ emitter # r /\ listener # r
    BY <2>1, <2>2 DEF Used, AllClosed, TypeOK, Sole, Due
  <2>3. emitter = 0 /\ listener = 0
    BY <2>2 DEF Referred
  <2>4. container \subseteq {0} /\ container \subseteq Streams /\ 0 \notin Streams
    BY <2>3 DEF Sole, TypeOK, Streams
  <2> QED
    BY <2>3, <2>4
<1> QED
  BY InitIInv, Invariance, InitSole, SoleInvariance, <1>1, PTL DEF Spec

\* The safety half of EmitterIsReleased, for any number of pages and streams: an
\* emitter that can deliver nothing any more is never left in the map without a
\* cleanup to come, unless its registration failed.
THEOREM NoDeadEmitterStays == Spec => []EmitterHasAnEnd
<1>1. Init => Unswept
  BY DEF Init, Unswept
<1>2. IInv => TypeOK
  BY DEF IInv
<1>3. IInv /\ SoleInv /\ Unswept => EmitterHasAnEnd
  <2> SUFFICES ASSUME TypeOK, Referred, Unswept, emitter # 0, ~(sweeps > 0)
               PROVE  Live(emitter) \/ setup[emitter] = "refused"
    BY DEF IInv, SoleInv, EmitterHasAnEnd
  <2>1. sweeps = 0 /\ stream[emitter] = "open" /\ emitter \notin flagged
    BY DEF Unswept, TypeOK
  <2>2. emitter \in Streams /\ setup[emitter] # "none"
    BY <2>1 DEF Referred, Used, TypeOK
  <2> QED
    BY <2>1, <2>2 DEF Live, TypeOK
<1> QED
  BY InitIInv, Invariance, InitSole, SoleInvariance, NextUnswept, <1>1, <1>2, <1>3, PTL
  DEF Spec

\* The safety half of CalmPageSeesVerdict, for any number of pages and streams:
\* of a page that is served before there is a verdict it stays true that it has
\* the outcome, or was disturbed, or is on a stream that nothing takes away while
\* the verdict is still to be published or a thread has it in hand.
THEOREM VerdictIsNotLost ==
  ASSUME NEW p \in Pages
  PROVE  Spec => [](Served(p) /\ pc = "working" => []OnItsWay(p))
<1> DEFINE RInv == /\ IInv /\ SoleInv /\ (Calm => CalmJob) /\ Connected /\ Flowing
                   /\ Unread /\ Orderly
<1>1. Init => RInv
  <2>1. Init => IInv /\ SoleInv
    BY InitIInv, InitSole
  <2>2. Init => (Calm => CalmJob) /\ Connected /\ Unread /\ Flowing
    BY DEF Init, CalmJob, Connected, Unread, Flowing
  <2>3. Init => Orderly
    BY DEF Init, Orderly, Registering
  <2> QED
    BY <2>1, <2>2, <2>3
<1>2. RInv /\ [Next]_vars => RInv'
  <2> SUFFICES ASSUME RInv, [Next]_vars
               PROVE  RInv'
    OBVIOUS
  <2>1. IInv' /\ TypeOK /\ TypeOK' /\ Referred
    BY Invariance DEF IInv, SoleInv
  <2>2. SoleInv'
    BY <2>1, SoleInvariance
  <2>3. (Calm => CalmJob)'
    BY <2>1, NextCalmJob
  <2>4. Connected' /\ Flowing' /\ Unread'
    BY <2>1, NextConnected, NextFlowing, NextUnread
  <2>5. Orderly'
    BY <2>1, NextOrderly
  <2> QED
    BY <2>1, <2>2, <2>3, <2>4, <2>5
<1>3. RInv /\ Served(p) /\ pc = "working" => OnItsWay(p)
  BY ServedIsOnItsWay
<1>4. RInv /\ RInv' /\ OnItsWay(p) /\ [Next]_vars => OnItsWay(p)'
  BY NextOnItsWay
<1> HIDE DEF RInv
<1> QED
  BY <1>1, <1>2, <1>3, <1>4, PTL DEF Spec

============================================================================
