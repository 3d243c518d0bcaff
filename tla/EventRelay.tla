------------------------------ MODULE EventRelay ------------------------------
(***************************************************************************)
(* How the outcome of one job reaches the pages that show it: the worker   *)
(* publishes on the Redis channel job:<id>:events, SseService of the       *)
(* gateway relays to its one emitter for the job, the browser's            *)
(* EventSource feeds the reducer of the page (useJobStream, JobContext),   *)
(* and a page that opens reads the job over REST first (useJobHydration).  *)
(*                                                                         *)
(* The listener container hands every message to a thread of its own for   *)
(* every listener, so threads for different messages may overtake each     *)
(* other.  SseEmitter's callbacks run on container threads some time after *)
(* the stream has ended.  They, and the threads that handle messages, find *)
(* the job's emitter and listener by job id, and between their steps, and  *)
(* those of register, a page may register another stream.                  *)
(*                                                                         *)
(* Meanwhile the job may be ended from outside, by a user's cancel or by   *)
(* the watchdog: they write FAILED and publish an error while its task may *)
(* go on to write PROCESSING and COMPLETE over it.                         *)
(*                                                                         *)
(* Streams are numbered; the number of one nobody refers to any more is    *)
(* used again.  What a page receives is applied at once: a stream is FIFO, *)
(* and so is the queue in which the page delays what it shows.             *)
(***************************************************************************)
EXTENDS Naturals, Sequences, FiniteSets

CONSTANTS Pages,       \* browser tabs that may open the job's page
          MaxStreams,  \* bound on the streams the gateway remembers at a time
          Cuts,        \* cancels and strikes of the watchdog that may come
          MaxDrops,    \* bound on lost connections, calls and events
          MaxSweeps,   \* bound on cleanups under way when a stream is opened
          MaxThreads   \* bound on threads still at work when a message is published

ASSUME RelayAssumption ==
  /\ MaxStreams \in Nat \ {0} /\ MaxDrops \in Nat /\ MaxSweeps \in Nat /\ MaxThreads \in Nat
  /\ IsFiniteSet(Cuts)

VARIABLES pc,         \* how far the task of the job has come
          row,        \* jobs.status
          cut,        \* how far each of Cuts has come
          missed,     \* has a FAILED been overwritten, or not been written?
          judged,     \* is the overall verdict stored?
          log,        \* the events published so far
          net,        \* what each page is doing
          conn,       \* the stream its EventSource is on, 0 if none
          seen,       \* jobs.status as its hydration has read it, while it reads
          view,       \* what it shows: [stage, verdict, error]
          emitter,    \* emitters[job], 0 if none
          listener,   \* listeners[job], 0 if none
          container,  \* listeners subscribed in the container
          stream,     \* state of each SseEmitter
          setup,      \* how far its registration has come
          flagged,    \* wrappers with completed = true
          threads,    \* <<listener, index in log>> not handled yet
          ending,     \* <<stream, index>>: its thread is about to call complete()
          sweeps,     \* calls of cleanup that are to remove the emitter next
          unhears,    \* calls of cleanup that are to remove the listener next
          drops,      \* lost connections, calls and events so far
          overtaken,  \* has a thread overtaken one with an earlier event?
          tangled     \* has a registration met the remains of another stream or
                      \* come to nothing, or has a removal of a listener failed?

rows    == <<row, cut, missed, judged>>
worker  == <<pc, rows, log>>
browser == <<net, conn, seen, view>>
maps    == <<emitter, listener, container, flagged>>
server  == <<stream, setup, ending>>
clean   == <<sweeps, unhears>>
history == <<drops, overtaken, tangled>>
vars    == <<worker, browser, maps, server, threads, clean, history>>

Streams == 1..MaxStreams

Events == {"verdict", "completed", "error", "done"}

Final == {"error", "done"}

PCs == {"accepted", "working", "judged", "told", "saved", "announced", "failed",
        "reported", "over"}

\* What a page shows before it has heard anything, and after it is closed.
Blank == [stage |-> "queued", verdict |-> FALSE, error |-> "none"]

Init ==
  /\ pc = "accepted" /\ row = "PENDING" /\ judged = FALSE /\ log = <<>>
  /\ cut = [c \in Cuts |-> "idle"] /\ missed = FALSE
  /\ net = [p \in Pages |-> "off"]
  /\ conn = [p \in Pages |-> 0]
  /\ seen = [p \in Pages |-> "PENDING"]
  /\ view = [p \in Pages |-> Blank]
  /\ emitter = 0 /\ listener = 0 /\ container = {} /\ flagged = {}
  /\ stream = [r \in Streams |-> "unused"]
  /\ setup = [r \in Streams |-> "none"]
  /\ ending = {} /\ threads = {} /\ sweeps = 0 /\ unhears = 0
  /\ drops = 0 /\ overtaken = FALSE /\ tangled = FALSE

\* The page at the other end of the stream r, if there still is one.
Listens(p, r) == net[p] = "open" /\ conn[p] = r

Heard(r) == \E p \in Pages : Listens(p, r)

\* Something is lost on the way; MaxDrops bounds how often.
Lose == drops < MaxDrops /\ drops' = drops + 1

-----------------------------------------------------------------------------
(* The page.                                                               *)

\* The reducer, for the view v of a page.
Reduce(v, e) ==
  CASE e = "queued"    -> [v EXCEPT !.stage = "queued"]
    [] e = "completed" -> [v EXCEPT !.stage = "completed"]
    [] e = "verdict"   -> [v EXCEPT !.stage = "completed", !.verdict = TRUE]
    [] e = "error"     -> [v EXCEPT !.stage = "failed", !.error = "job"]
    [] e = "lost"      -> [v EXCEPT !.stage = "failed", !.error = "connection"]
    [] e = "done"      -> v

Show(p, e) == view' = [view EXCEPT ![p] = Reduce(@, e)]

Goes(p, n) == net' = [net EXCEPT ![p] = n] /\ conn' = [conn EXCEPT ![p] = 0]

\* A slip: es.onerror without its test of readyState takes a lost connection
\* for the end of the job.
LoseStreamAsEnd(p) == Show(p, "completed") /\ Goes(p, "connecting")

\* The browser dispatches an "error" event without data and reconnects.
LoseStream(p) == Show(p, "lost") /\ Goes(p, "connecting")

\* The stream r comes to its end while the page may still be on it.
EndStream(r) ==
  /\ stream' = [stream EXCEPT ![r] = "ended"]
  /\ \/ \E p \in Pages : Listens(p, r) /\ LoseStream(p) /\ UNCHANGED seen
     \/ ~Heard(r) /\ UNCHANGED browser

\* The page is opened; jobs.get answers.
Open(p) ==
  /\ net[p] = "off"
  /\ net' = [net EXCEPT ![p] = "reading"]
  /\ seen' = [seen EXCEPT ![p] = row]
  /\ UNCHANGED <<worker, conn, view, maps, server, threads, clean, history>>

\* A slip: the status is shown as it was read.
FillUnmapped(p, known) ==
  /\ view' = [view EXCEPT ![p] = [stage |-> seen[p], verdict |-> known, error |-> "none"]]
  /\ net' = [net EXCEPT ![p] =
       IF seen[p] \in {"FAILED", "COMPLETE"} THEN "closed" ELSE "connecting"]
  /\ seen' = [seen EXCEPT ![p] = "PENDING"]

\* The page is filled; a stream is opened unless the status that was read is final.
Fill(p, known) ==
  /\ view' = [view EXCEPT ![p] =
       IF seen[p] = "FAILED"
       THEN Reduce(@, "error")
       ELSE [stage   |-> IF seen[p] = "COMPLETE" \/ (seen[p] = "PROCESSING" /\ known)
                         THEN "completed" ELSE "working",
             verdict |-> known,
             error   |-> "none"]]
  /\ net' = [net EXCEPT ![p] =
       IF seen[p] \in {"FAILED", "COMPLETE"} THEN "closed" ELSE "connecting"]
  /\ seen' = [seen EXCEPT ![p] = "PENDING"]

\* jobs.getVerdict answers ...
Hydrate(p) ==
  /\ net[p] = "reading" /\ Fill(p, judged)
  /\ UNCHANGED <<worker, conn, maps, server, threads, clean, history>>

\* ... or fails, and the page goes without a verdict.
HydrateBare(p) ==
  /\ net[p] = "reading" /\ Fill(p, FALSE) /\ Lose
  /\ UNCHANGED <<worker, conn, maps, server, threads, clean, overtaken, tangled>>

\* jobs.get fails: stream without hydration.
HydrateFails(p) ==
  /\ net[p] = "reading" /\ Lose
  /\ net' = [net EXCEPT ![p] = "connecting"]
  /\ UNCHANGED <<worker, conn, seen, view, maps, server, threads, clean, overtaken, tangled>>

\* The connection breaks; the gateway does not notice before its next send.
Drop(p) ==
  /\ net[p] = "open" /\ Lose
  /\ LoseStream(p)
  /\ UNCHANGED <<worker, seen, maps, server, threads, clean, overtaken, tangled>>

\* A request for a stream that is answered with an error: EventSource gives up,
\* and the page shows the error, then the end of the job.
GiveUp(p) ==
  /\ view' = [view EXCEPT ![p] = Reduce(Reduce(@, "lost"), "completed")]
  /\ Goes(p, "closed")

\* The request fails before it comes to register.
Refuse(p) ==
  /\ net[p] = "connecting" /\ Lose
  /\ GiveUp(p)
  /\ UNCHANGED <<worker, seen, maps, server, threads, clean, overtaken, tangled>>

\* The tab is closed; the gateway does not notice either.
LeavePage(p) ==
  /\ net[p] \in {"connecting", "open", "closed"}
  /\ Goes(p, "gone") /\ view' = [view EXCEPT ![p] = Blank]
  /\ UNCHANGED <<worker, seen, maps, server, threads, clean, history>>

-----------------------------------------------------------------------------
(* SseService.register, one step for each structure it changes, until      *)
(* Spring has the emitter.  Before that a send to it cannot fail, for the  *)
(* event is kept for later, and its callbacks do not come.                 *)

Registering == {"mapped", "held", "heard", "greeted"}

\* The number r is not in use: nothing refers to it.
Free(r) ==
  /\ setup[r] = "refused" \/ (stream[r] # "open" /\ setup[r] \in {"none", "ready"})
  /\ r \notin {emitter, listener} \cup container
  /\ \A t \in threads \cup ending : t[1] # r
  /\ \A p \in Pages : conn[p] # r

\* Nothing is left of earlier streams, and nothing is about to be removed.
Clear ==
  /\ emitter = 0 /\ listener = 0 /\ container = {}
  /\ threads = {} /\ ending = {} /\ sweeps + unhears = 0
  /\ \A r \in Streams : setup[r] \notin Registering /\ (stream[r] = "open" => setup[r] = "refused")

\* emitters.put: what the map held is forgotten.
Admit(p) ==
  /\ net[p] = "connecting" /\ sweeps + unhears <= MaxSweeps
  /\ \E r \in Streams :
       /\ Free(r) /\ \A q \in Streams : q < r => ~Free(q)
       /\ emitter' = r /\ flagged' = flagged \ {r}
       /\ stream' = [stream EXCEPT ![r] = "open"]
       /\ setup' = [setup EXCEPT ![r] = "mapped"]
       /\ conn' = [conn EXCEPT ![p] = r]
  /\ net' = [net EXCEPT ![p] = "open"]
  /\ tangled' = (tangled \/ ~Clear)
  /\ UNCHANGED <<worker, seen, view, listener, container, ending, threads, clean,
                 drops, overtaken>>

\* listeners.put
HoldListener(r) ==
  /\ setup[r] = "mapped" /\ setup' = [setup EXCEPT ![r] = "held"]
  /\ listener' = r
  /\ UNCHANGED <<worker, browser, emitter, container, flagged, stream, ending,
                 threads, clean, history>>

\* A slip: the listener is kept in the map but not added to the container.
SubscribeForgotten(r) ==
  /\ setup[r] = "held" /\ setup' = [setup EXCEPT ![r] = "heard"]
  /\ UNCHANGED <<worker, browser, maps, stream, ending, threads, clean, history>>

\* addMessageListener
Subscribe(r) ==
  /\ setup[r] = "held" /\ setup' = [setup EXCEPT ![r] = "heard"]
  /\ container' = container \cup {r}
  /\ UNCHANGED <<worker, browser, emitter, listener, flagged, stream, ending, threads,
                 clean, history>>

\* It throws, perhaps after it has entered the listener; the maps keep what they
\* hold, and the page gets an error for an answer.
SubscribeFails(r) ==
  /\ setup[r] = "held" /\ setup' = [setup EXCEPT ![r] = "refused"]
  /\ Lose /\ tangled' = TRUE
  /\ container' \in {container, container \cup {r}}
  /\ \/ \E p \in Pages : Listens(p, r) /\ GiveUp(p)
     \/ ~Heard(r) /\ UNCHANGED <<view, net, conn>>
  /\ UNCHANGED <<worker, seen, emitter, listener, flagged, stream, ending, threads,
                 clean, overtaken>>

\* "queued" is sent, or the send fails and is ignored.
Greet(r) ==
  /\ setup[r] = "heard" /\ setup' = [setup EXCEPT ![r] = "greeted"]
  /\ \/ \E p \in Pages : stream[r] = "open" /\ Listens(p, r) /\ Show(p, "queued")
     \/ ~(stream[r] = "open" /\ Heard(r)) /\ UNCHANGED view
  /\ UNCHANGED <<worker, net, conn, seen, maps, stream, ending, threads,
                 clean, history>>

\* register has returned, Spring sends what it has kept; the response ends at once
\* if complete() was called in the meantime.
Serve(r) ==
  /\ setup[r] = "greeted" /\ setup' = [setup EXCEPT ![r] = "ready"]
  /\ IF stream[r] = "ended" THEN EndStream(r) ELSE UNCHANGED <<stream, browser>>
  /\ UNCHANGED <<worker, maps, ending, threads, clean, history>>

\* The page is gone and the first write fails: no callback has been set by then.
ServeFails(r) ==
  /\ setup[r] = "greeted" /\ setup' = [setup EXCEPT ![r] = "refused"]
  /\ ~Heard(r) /\ tangled' = TRUE
  /\ UNCHANGED <<worker, browser, maps, stream, ending, threads, clean, drops, overtaken>>

-----------------------------------------------------------------------------
(* The rest of SseService.                                                 *)

\* The thread has handled its message, and may have overtaken another one.
TakeThread(l, i) ==
  /\ <<l, i>> \in threads
  /\ threads' = threads \ {<<l, i>>}
  /\ overtaken' = (overtaken \/ \E t \in threads : t[2] < i)

\* n calls of cleanup begin.
Sweep(n) == sweeps' = sweeps + n /\ unhears' = unhears

\* There is no wrapper for the job, or it is completed.
Ignore(l, i) ==
  /\ TakeThread(l, i) /\ emitter \in {0} \cup flagged
  /\ UNCHANGED <<worker, browser, maps, server, clean, drops, tangled>>

\* The event is sent, whichever listener it came from; on done the page
\* closes its EventSource.  A final event is followed by complete().
Relay(l, i) ==
  /\ TakeThread(l, i) /\ emitter \notin {0} \cup flagged /\ stream[emitter] = "open"
  /\ \/ \E p \in Pages :
          /\ Listens(p, emitter) /\ Show(p, log[i])
          /\ IF log[i] = "done" THEN Goes(p, "closed") ELSE UNCHANGED <<net, conn>>
     \/ ~Heard(emitter) /\ UNCHANGED <<view, net, conn>>
  /\ ending' = IF log[i] \in Final THEN ending \cup {<<emitter, i>>} ELSE ending
  /\ UNCHANGED <<worker, seen, maps, stream, setup, clean, drops, tangled>>

\* The send fails: the stream has ended unnoticed, or the page is gone and the
\* callbacks follow, onError perhaps and onCompletion.
RelayFails(l, i) ==
  /\ TakeThread(l, i) /\ emitter \notin {0} \cup flagged
  /\ \/ stream[emitter] = "ended" /\ flagged' = flagged \cup {emitter} /\ Sweep(1)
     \/ /\ stream[emitter] = "open" /\ setup[emitter] = "ready" /\ ~Heard(emitter)
        /\ flagged' = flagged /\ (Sweep(2) \/ Sweep(3))
  /\ stream' = [stream EXCEPT ![emitter] = "ended"]
  /\ UNCHANGED <<worker, browser, emitter, listener, container, setup, ending,
                 drops, tangled>>

\* complete() unless the wrapper is completed already, then cleanup; the callback
\* and the page follow if Spring has the emitter.
Complete(r, i) ==
  /\ <<r, i>> \in ending /\ ending' = ending \ {<<r, i>>}
  /\ IF r \in flagged \/ stream[r] = "ended"
     THEN Sweep(1) /\ UNCHANGED <<stream, browser>>
     ELSE IF setup[r] = "ready"
     THEN Sweep(2) /\ EndStream(r)
     ELSE Sweep(1) /\ stream' = [stream EXCEPT ![r] = "ended"] /\ UNCHANGED browser
  /\ flagged' = flagged \cup {r}
  /\ UNCHANGED <<worker, emitter, listener, container, setup, threads, history>>

\* A slip: no onTimeout and onCompletion callbacks.
TimeoutUnheard(r) ==
  /\ stream[r] = "open" /\ setup[r] = "ready"
  /\ EndStream(r)
  /\ UNCHANGED <<worker, maps, setup, ending, threads, clean, history>>

\* The five minutes of the emitter are over: onTimeout, then onCompletion.
Timeout(r) ==
  /\ stream[r] = "open" /\ setup[r] = "ready"
  /\ EndStream(r) /\ Sweep(2)
  /\ UNCHANGED <<worker, maps, setup, ending, threads, history>>

\* cleanup(jobId) removes the emitter the map holds by now ...
DropEmitter ==
  /\ sweeps > 0 /\ sweeps' = sweeps - 1 /\ unhears' = unhears + 1
  /\ flagged' = flagged \cup ({emitter} \ {0})
  /\ emitter' = 0
  /\ UNCHANGED <<worker, browser, listener, container, server, threads, history>>

\* A slip: listeners.remove without removeMessageListener.
DropListenerOnly ==
  /\ unhears > 0 /\ unhears' = unhears - 1
  /\ listener' = 0
  /\ UNCHANGED <<worker, browser, emitter, container, flagged, server, threads, sweeps,
                 history>>

\* ... and the listener it holds by now.
DropListener ==
  /\ unhears > 0 /\ unhears' = unhears - 1
  /\ container' = container \ {listener}
  /\ listener' = 0
  /\ UNCHANGED <<worker, browser, emitter, flagged, server, threads, sweeps, history>>

\* removeMessageListener throws, which is logged.
DropListenerFails ==
  /\ unhears > 0 /\ unhears' = unhears - 1
  /\ listener # 0 /\ listener' = 0
  /\ Lose /\ tangled' = TRUE
  /\ UNCHANGED <<worker, browser, emitter, container, flagged, server, threads, sweeps,
                 overtaken>>

-----------------------------------------------------------------------------
(* The task of the job, as far as its row and its last events go.  It does *)
(* not look at the row.                                                    *)

\* publish_event: every subscribed listener gets a thread, or Redis fails and
\* nobody hears of it.
Publish(e) ==
  /\ Cardinality(threads) + Cardinality(ending) <= MaxThreads
  /\ log' = Append(log, e)
  /\ \/ threads' = threads \cup {<<l, Len(log) + 1>> : l \in container} /\ UNCHANGED drops
     \/ threads' = threads /\ Lose

Keep == UNCHANGED <<log, threads, drops>>

Beside == UNCHANGED <<browser, maps, server, clean, overtaken, tangled>>

JobGoes(p, q) == pc = p /\ pc' = q /\ UNCHANGED cut /\ Beside

RowTo(s) == row' = s /\ missed' = (missed \/ (row = "FAILED" /\ s # "FAILED"))

SameRow == UNCHANGED <<row, missed>>

Start == JobGoes("accepted", "working") /\ RowTo("PROCESSING") /\ Keep /\ UNCHANGED judged

\* The overall verdict is inserted.
Judge == JobGoes("working", "judged") /\ judged' = TRUE /\ Keep /\ SameRow

Tell == JobGoes("judged", "told") /\ Publish("verdict") /\ SameRow /\ UNCHANGED judged

Save == JobGoes("told", "saved") /\ RowTo("COMPLETE") /\ Keep /\ UNCHANGED judged

Announce ==
  JobGoes("saved", "announced") /\ Publish("completed") /\ SameRow /\ UNCHANGED judged

Running == {"accepted", "working", "judged", "told"}

\* _fail_job.
Fail ==
  /\ \E p \in Running : JobGoes(p, "failed")
  /\ RowTo("FAILED") /\ Keep /\ UNCHANGED judged

\* Its UPDATE raises, which is swallowed; perhaps the one that failed before it, of
\* COMPLETE, was carried out.
FailUnsaved ==
  /\ \E p \in Running : JobGoes(p, "failed") /\ row' \in {row} \cup (IF p = "told" THEN {"COMPLETE"} ELSE {})
  /\ missed' = TRUE /\ Lose /\ UNCHANGED <<judged, log, threads>>

Report == JobGoes("failed", "reported") /\ Publish("error") /\ SameRow /\ UNCHANGED judged

Finish ==
  /\ \E p \in {"announced", "reported"} : JobGoes(p, "over")
  /\ Publish("done") /\ SameRow /\ UNCHANGED judged

JobStep ==
  \/ Start \/ Judge \/ Tell \/ Save \/ Announce \/ Fail \/ FailUnsaved \/ Report \/ Finish

-----------------------------------------------------------------------------
(* What ends the job from outside: JobService.cancelJob with JobController, *)
(* the stalled-jobs watchdog, and the restart of the AI service.           *)

Active == {"PENDING", "PROCESSING"}

CutGoes(c, p, q) ==
  cut[c] = p /\ cut' = [cut EXCEPT ![c] = q] /\ UNCHANGED <<pc, judged>> /\ Beside

\* The row that is read is active; the cancel event is published.
Strike(c) == CutGoes(c, "idle", "struck") /\ row \in Active /\ SameRow /\ Keep

\* FAILED is written, whatever the row holds by now.
Overrule(c) == CutGoes(c, "struck", "failed") /\ RowTo("FAILED") /\ Keep

\* The watchdog's UPDATE raises, which is swallowed.
OverruleUnsaved(c) ==
  CutGoes(c, "struck", "failed") /\ Lose /\ missed' = TRUE /\ UNCHANGED <<row, log, threads>>

\* A slip: the error may be published before the row is written.
AccuseEarly(c) ==
  /\ \E p \in {"struck", "failed"} : CutGoes(c, p, "accused")
  /\ Publish("error") /\ SameRow

Accuse(c) == CutGoes(c, "failed", "accused") /\ Publish("error") /\ SameRow

\* Only the watchdog publishes done.
Close(c) == CutGoes(c, "accused", "over") /\ (Publish("done") \/ Keep) /\ SameRow

\* The transaction is rolled back, or the process ends.
Desist(c) ==
  /\ \E p \in {"struck", "failed", "accused"} : CutGoes(c, p, "over")
  /\ Lose /\ SameRow /\ UNCHANGED <<log, threads>>

Cut(c) ==
  \/ Strike(c) \/ Overrule(c) \/ OverruleUnsaved(c) \/ Accuse(c) \/ Close(c) \/ Desist(c)

\* The cancel event reaches the task: it says no more.
Die ==
  /\ \E c \in Cuts : cut[c] # "idle"
  /\ \E p \in PCs \ {"over"} : JobGoes(p, "over")
  /\ SameRow /\ Keep /\ UNCHANGED judged

\* The task is gone unless it was still queued; cleanup_stuck_jobs fails the job
\* without a word.
Restart ==
  /\ \E p \in PCs \ {"over"} : JobGoes(p, "over") \/ (p = "accepted" /\ JobGoes(p, p))
  /\ RowTo(IF row \in Active THEN "FAILED" ELSE row)
  /\ Keep /\ UNCHANGED judged

-----------------------------------------------------------------------------
PageStep(p) == Hydrate(p) \/ Admit(p)

Register(r) == HoldListener(r) \/ Subscribe(r) \/ Greet(r) \/ Serve(r)

Handle(l, i) == Ignore(l, i) \/ Relay(l, i) \/ RelayFails(l, i)

Next ==
  \/ JobStep \/ Die \/ Restart \/ \E c \in Cuts : Cut(c)
  \/ \E p \in Pages :
       \/ Open(p) \/ PageStep(p) \/ LeavePage(p)
       \/ HydrateBare(p) \/ HydrateFails(p) \/ Drop(p) \/ Refuse(p)
  \/ \E r \in Streams :
       \/ Register(r) \/ SubscribeFails(r) \/ ServeFails(r) \/ Timeout(r)
       \/ \E i \in 1..Len(log) : Handle(r, i) \/ Complete(r, i)
  \/ DropEmitter \/ DropListener \/ DropListenerFails

Spec == Init /\ [][Next]_vars

\* A task publishes at most three events, and so many more for each cut.
Indexes == 1..(3 + 2 * Cardinality(Cuts))

\* Threads run, callbacks come, REST calls are answered, EventSource connects,
\* and a job that has begun ends (JobLifecycle).  No page has to be opened or
\* left, no job to be started or cut, and nothing has to be lost.
Fairness ==
  /\ WF_vars(pc # "accepted" /\ JobStep) /\ WF_vars(DropEmitter) /\ WF_vars(DropListener)
  /\ \A p \in Pages : WF_vars(PageStep(p))
  /\ \A r \in Streams :
       /\ WF_vars(Register(r))
       /\ \A i \in Indexes : WF_vars(i <= Len(log) /\ (Handle(r, i) \/ Complete(r, i)))

FairSpec == Spec /\ Fairness

-----------------------------------------------------------------------------
(* Type invariant.                                                         *)
Nets == {"off", "reading", "connecting", "open", "closed", "gone"}

Views == [stage   : {"queued", "working", "completed", "failed"},
          verdict : BOOLEAN,
          error   : {"none", "job", "connection"}]

Statuses == {"PENDING", "PROCESSING", "COMPLETE", "FAILED"}

TypeOK ==
  /\ pc \in PCs /\ row \in Statuses /\ judged \in BOOLEAN /\ log \in Seq(Events)
  /\ cut \in [Cuts -> {"idle", "struck", "failed", "accused", "over"}] /\ missed \in BOOLEAN
  /\ net \in [Pages -> Nets] /\ conn \in [Pages -> {0} \cup Streams]
  /\ seen \in [Pages -> Statuses] /\ view \in [Pages -> Views]
  /\ emitter \in {0} \cup Streams /\ listener \in {0} \cup Streams
  /\ container \subseteq Streams /\ flagged \subseteq Streams
  /\ stream \in [Streams -> {"unused", "open", "ended"}]
  /\ setup \in [Streams -> {"none", "ready", "refused"} \cup Registering]
  /\ threads \subseteq Streams \X (1..Len(log))
  /\ ending \subseteq Streams \X (1..Len(log))
  /\ sweeps \in Nat /\ unhears \in Nat
  /\ drops \in 0..MaxDrops /\ overtaken \in BOOLEAN /\ tangled \in BOOLEAN

-----------------------------------------------------------------------------
(* What the relay promises.                                                *)

\* What a page says of the job did happen, whatever was lost, reordered or
\* read before a change: it shows a verdict only if one is stored, completion
\* without an error only then, and a failure of the job only if the row says so,
\* or did before it was overwritten, or would if it could have been written.
ShownOutcomeHappened ==
  \A p \in Pages :
    /\ view[p].verdict => judged
    /\ view[p].stage = "completed" => judged \/ view[p].error = "connection"
    /\ view[p].error = "job" => row = "FAILED" \/ missed

\* No stream of the job is open or being registered, and nobody is about to clean up.
AllClosed ==
  /\ ending = {} /\ sweeps + unhears = 0
  /\ \A r \in Streams : stream[r] # "open" /\ setup[r] \notin Registering

\* Streams that come one after another leave nothing behind: when the last one
\* has ended and its cleanups are done, the gateway holds neither an emitter nor
\* a listener, and Redis messages for the job reach nobody; unless a registration
\* began before that, or failed, or Redis refused to unsubscribe.
SoleStreamIsForgotten ==
  AllClosed /\ ~tangled => emitter = 0 /\ listener = 0 /\ container = {}

\* Every emitter leaves the gateway's map again, by a cleanup of its own or of
\* another stream of the job or by being replaced, also when its page has gone
\* without a word; given that the container's timeouts come, and that Spring got
\* the emitter, for nothing times out a registration that failed.
EmitterIsReleased ==
  (\A r \in Streams : WF_vars(Timeout(r))) =>
    \A r \in Streams : emitter = r ~> emitter # r \/ setup[r] = "refused"

\* The page's stream is the job's emitter, and Spring has it.
Served(p) ==
  net[p] = "open" /\ conn[p] = emitter /\ listener = emitter /\ setup[emitter] = "ready"

HasOutcome(p) == view[p].verdict \/ row = "FAILED" \/ net[p] = "gone"

Disturbed(p) ==
  \/ drops > 0 \/ overtaken \/ tangled
  \/ view[p].error = "connection"
  \/ \E c \in Cuts : cut[c] # "idle"

\* If nothing is lost, no thread overtakes another, no stream is registered while
\* there are remains of another and nobody ends the job from outside, a page
\* registered before there is a verdict comes to show it.
CalmPageSeesVerdict ==
  \A p \in Pages : Served(p) /\ pc = "working" ~> HasOutcome(p) \/ Disturbed(p)

=============================================================================
