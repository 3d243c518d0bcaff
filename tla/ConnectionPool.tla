---------------------------- MODULE ConnectionPool ----------------------------
(***************************************************************************)
(* The asyncpg pool of the AI service (db/connection.py) and the code that *)
(* asks for a connection while it holds another one: the reuse of a        *)
(* finished job (orchestration/pipeline_router.py) goes three deep, the    *)
(* stalled-jobs watchdog (orchestration/worker_executor.py) two deep.      *)
(* pool.acquire() is called without a timeout, command_timeout bounds      *)
(* statements only.                                                        *)
(*                                                                         *)
(* A connection is held by a frame <<client, level>>: the n-th "async with *)
(* pool.acquire()" the client is inside of is its frame of level n.        *)
(***************************************************************************)
EXTENDS Naturals, FiniteSets

CONSTANTS Tasks,     \* the tasks that may run jobs at the same time
          Watchdog,  \* stalled_jobs_watchdog
          Size       \* max_size of the pool

ASSUME ConnectionAssumption ==
  /\ IsFiniteSet(Tasks) /\ Watchdog \notin Tasks
  /\ Size \in Nat \ {0}

VARIABLES place,  \* the statement each client has reached
          held    \* the frames that hold a connection

vars == <<place, held>>

Clients == Tasks \cup {Watchdog}

\* Outside every "async with": a task between its statements, the watchdog in
\* its sleep of 15 s.
Home == "home"

\* Inside pool.acquire(), one level below the connection asked for.
Wanting == {"want_plain", "want_lookup", "want_article", "want_clone",
            "want_insert", "want_status", "want_audit", "want_stuck", "want_fail"}

OneDeep == {"want_article", "want_clone", "want_status", "want_audit",
            "want_fail", "plain", "lookup", "reused", "stuck"}

TwoDeep == {"want_insert", "article", "clone", "status", "audit", "fail"}

Places == {Home, "insert"} \cup Wanting \cup OneDeep \cup TwoDeep

\* How many connections a client holds at a place.
Depth(p) == IF p = "insert" THEN 3
            ELSE IF p \in TwoDeep THEN 2
            ELSE IF p \in OneDeep THEN 1
            ELSE 0

Init ==
  /\ place = [c \in Clients |-> Home]
  /\ held = {}

Go(c, p, q) == place[c] = p /\ place' = [place EXCEPT ![c] = q]

\* pool.acquire() is called.
Ask(c, p, q) == Go(c, p, q) /\ UNCHANGED held

\* A slip, used by no behaviour of Spec: a connection more than the pool has.
EnterOverfull(c, p, q) ==
  /\ Go(c, p, q)
  /\ Cardinality(held) <= Size
  /\ held' = held \cup {<<c, Depth(q)>>}

\* pool.acquire() returns.
Enter(c, p, q) ==
  /\ Go(c, p, q)
  /\ Cardinality(held) < Size
  /\ held' = held \cup {<<c, Depth(q)>>}

\* The innermost "async with" is left; q may ask again at once.
Leave(c, p, q) == Go(c, p, q) /\ held' = held \ {<<c, Depth(p)>>}

\* A slip: no "async with", so that an exception skips release().
UnwindLeaks(c) ==
  /\ place[c] # Home
  /\ place' = [place EXCEPT ![c] = Home]
  /\ UNCHANGED held

-----------------------------------------------------------------------------
(* A task.                                                                 *)

\* Any of the functions of db/queries.py outside the reuse path.
PlainStatement(t) ==
  \/ Ask(t, Home, "want_plain")
  \/ Enter(t, "want_plain", "plain")
  \/ Leave(t, "plain", Home)

\* The search for a finished job with the same article.
LookUp(t) ==
  \/ Ask(t, Home, "want_lookup")
  \/ Enter(t, "want_lookup", "lookup")
  \/ Leave(t, "lookup", Home)

\* It is found: update_job_article, then reuse_completed_job.
LinkArticle(t) ==
  \/ Ask(t, "lookup", "want_article")
  \/ Enter(t, "want_article", "article")
  \/ Leave(t, "article", "want_clone")

\* Old rows are read on one connection, new ones inserted on another.
CloneRows(t) ==
  \/ Enter(t, "want_clone", "clone")
  \/ Ask(t, "clone", "want_insert")
  \/ Enter(t, "want_insert", "insert")
  \/ Leave(t, "insert", "clone")
  \/ Leave(t, "clone", "want_status")

\* COMPLETE and the audit row, still inside the lookup's "async with".
MarkReused(t) ==
  \/ Enter(t, "want_status", "status")
  \/ Leave(t, "status", "want_audit")
  \/ Enter(t, "want_audit", "audit")
  \/ Leave(t, "audit", "reused")
  \/ Leave(t, "reused", Home)

(* The watchdog: the rows are handled inside the "async with" of its query. *)
WatchStuck ==
  \/ Ask(Watchdog, Home, "want_stuck")
  \/ Enter(Watchdog, "want_stuck", "stuck")
  \/ Ask(Watchdog, "stuck", "want_fail")
  \/ Enter(Watchdog, "want_fail", "fail")
  \/ Leave(Watchdog, "fail", "stuck")
  \/ Leave(Watchdog, "stuck", Home)

\* An exception or a cancellation leaves every "async with" of the client.
Unwind(c) ==
  /\ place[c] # Home
  /\ place' = [place EXCEPT ![c] = Home]
  /\ held' = {h \in held : h[1] # c}

TaskStep(t) ==
  PlainStatement(t) \/ LookUp(t) \/ LinkArticle(t) \/ CloneRows(t) \/ MarkReused(t)

Step(c) == (c \in Tasks /\ TaskStep(c)) \/ (c = Watchdog /\ WatchStuck)

Next == \E c \in Clients : Step(c) \/ Unwind(c)

Spec == Init /\ [][Next]_vars

\* Statements end (command_timeout), a sweep has finitely many rows, and the
\* pool's queue wakes the clients that wait in turn.  Nobody need fail or be
\* cancelled, and no task need start anything.
Fairness ==
  /\ \A c \in Clients :
       /\ WF_vars(place[c] # Home /\ Step(c))
       /\ SF_vars(place[c] \in Wanting /\ Step(c))
  /\ WF_vars(place[Watchdog] = Home /\ Step(Watchdog))
  /\ SF_vars(Leave(Watchdog, "stuck", Home))

FairSpec == Spec /\ Fairness

-----------------------------------------------------------------------------
TypeOK ==
  /\ place \in [Clients -> Places]
  /\ held \subseteq Clients \X (1..3)
  /\ Cardinality(held) <= Size

\* Clients that can give a connection back without getting another one first.
CanRelease == {c \in Clients : place[c] \in Places \ (Wanting \cup {Home})}

\* Two connections for every task that may run, one for the watchdog and one
\* more are enough: the pool is then never in the hands of clients that all
\* wait for each other, whatever fails or is cancelled between two statements.
NoGridlock ==
  Size > 2 * Cardinality(Tasks) + 1 /\ Cardinality(held) = Size => CanRelease # {}

\* With that many connections, whoever asks for one gets it.
AskIsAnswered ==
  \A c \in Clients : place[c] \in Wanting ~> place[c] \notin Wanting

-----------------------------------------------------------------------------
(* A statement of the repository that the code does not meet.              *)

\* "The stalled_jobs_watchdog runs every 15 seconds and marks any job active for over
\* 45 seconds as FAILED" (README.md:257): so, when it asks for a connection, the pool
\* has one or a client that can give one back without getting another one first.
WatchdogGoesOn ==
  place[Watchdog] \in Wanting => Cardinality(held) < Size \/ CanRelease # {}

=============================================================================
