------------------------ MODULE ConnectionPool_proofs ------------------------
(***************************************************************************)
(* ConnectionPool, for any number of tasks and connections: the frames are *)
(* exactly those the places of the clients call for, so nothing leaks; and *)
(* with two connections per task, one for the watchdog and one to spare,   *)
(* the pool never is in the hands of clients that all wait for it.         *)
(***************************************************************************)
EXTENDS ConnectionPool, FiniteSetTheorems, TLAPS

\* Every client holds the frames of the "async with"s it is inside of.
FramesMatch ==
  held = {h \in Clients \X (1..3) : h[2] <= Depth(place[h[1]])}

Frames == TypeOK /\ FramesMatch

\* The watchdog never goes deeper than its own two levels.
WatchdogStays == place[Watchdog] \in {Home, "want_stuck", "stuck", "want_fail", "fail"}

IInv == Frames /\ WatchdogStays

-----------------------------------------------------------------------------
(* The three ways in which a client moves.                                 *)

\* The frames are finitely many.
LEMMA HeldFinite == ASSUME TypeOK PROVE IsFiniteSet(held)
  <1>1. IsFiniteSet(Clients)
    BY ConnectionAssumption, FS_AddElement DEF Clients
  <1>2. IsFiniteSet(1..3)
    <2>1. \A a, b \in Int : IsFiniteSet(a..b)
      BY FS_Interval
    <2>2. 1 \in Int /\ 3 \in Int
      OBVIOUS
    <2> QED
      BY <2>1, <2>2, Zenon
  <1>3. IsFiniteSet(Clients \X (1..3))
    BY <1>1, <1>2, FS_Product
  <1> QED
    BY <1>3, FS_Subset DEF TypeOK

\* Asking leaves the frames alone, so it must stay at the same depth.
LEMMA AskKeeps ==
  ASSUME Frames, NEW c \in Clients, NEW p \in Places, NEW q \in Places,
         Depth(q) = Depth(p), Ask(c, p, q)
  PROVE  Frames'
  <1>1. place' \in [Clients -> Places]
    BY DEF Frames, TypeOK, Ask, Go
  <1>2. \A h \in Clients \X (1..3) : Depth(place'[h[1]]) = Depth(place[h[1]])
    BY DEF Frames, TypeOK, Ask, Go
  <1>3. held' = held
    BY DEF Ask
  <1>4. FramesMatch'
    BY <1>2, <1>3 DEF Frames, FramesMatch
  <1> QED
    BY <1>1, <1>3, <1>4 DEF Frames, TypeOK

\* A connection is granted one level deeper, and only if there is one.
LEMMA EnterKeeps ==
  ASSUME Frames, NEW c \in Clients, NEW p \in Places, NEW q \in Places,
         Depth(p) \in 0..2, Depth(q) = Depth(p) + 1, Enter(c, p, q)
  PROVE  Frames'
  <1>1. place' \in [Clients -> Places]
    BY DEF Frames, TypeOK, Enter, Go
  <1>2. \A d \in Clients : place'[d] = IF d = c THEN q ELSE place[d]
    BY DEF Frames, TypeOK, Enter, Go
  <1>3. place[c] = p /\ held' = held \cup {<<c, Depth(q)>>}
    BY DEF Enter, Go
  <1>4. <<c, Depth(q)>> \in Clients \X (1..3)
    OBVIOUS
  <1>5. FramesMatch'
    <2>1. ASSUME NEW h \in Clients \X (1..3)
          PROVE  h \in held' <=> h[2] <= Depth(place'[h[1]])
      <3>1. h \in held <=> h[2] <= Depth(place[h[1]])
        BY DEF Frames, FramesMatch
      <3>2. h = <<h[1], h[2]>> /\ h[1] \in Clients /\ h[2] \in 1..3
        OBVIOUS
      <3>3. CASE h[1] = c
        BY <1>2, <1>3, <3>1, <3>2, <3>3
      <3>4. CASE h[1] # c
        BY <1>2, <1>3, <3>1, <3>2, <3>4
      <3> QED
        BY <3>3, <3>4
    <2>2. held' \subseteq Clients \X (1..3)
      BY <1>3, <1>4 DEF Frames, TypeOK
    <2> QED
      BY <2>1, <2>2 DEF FramesMatch
  <1>6. held' \subseteq Clients \X (1..3)
    BY <1>3, <1>4 DEF Frames, TypeOK
  <1>7. Cardinality(held') <= Size
    <2>1. IsFiniteSet(held)
      BY HeldFinite DEF Frames
    <2>2. Cardinality(held) \in Nat /\ Cardinality(held) < Size
      BY <2>1, FS_CardinalityType DEF Enter
    <2>3. \/ Cardinality(held') = Cardinality(held)
          \/ Cardinality(held') = Cardinality(held) + 1
      BY <2>1, <1>3, FS_AddElement
    <2>4. Cardinality(held') \in Nat
      BY <2>1, <1>3, FS_AddElement, FS_CardinalityType
    <2> QED
      BY <2>2, <2>3, <2>4, ConnectionAssumption
  <1> QED
    BY <1>1, <1>5, <1>6, <1>7 DEF Frames, TypeOK

\* Removing frames cannot exceed the size of the pool.
LEMMA FewerFrames ==
  ASSUME TypeOK, NEW S \in SUBSET held PROVE Cardinality(S) <= Size
  <1>1. IsFiniteSet(held)
    BY HeldFinite
  <1>2. IsFiniteSet(S) /\ Cardinality(S) <= Cardinality(held)
    BY <1>1, FS_Subset
  <1>3. Cardinality(S) \in Nat /\ Cardinality(held) \in Nat
    BY <1>1, <1>2, FS_CardinalityType
  <1> QED
    BY <1>2, <1>3, ConnectionAssumption DEF TypeOK

\* A connection is given back one level up.
LEMMA LeaveKeeps ==
  ASSUME Frames, NEW c \in Clients, NEW p \in Places, NEW q \in Places,
         Depth(p) \in 1..3, Depth(q) = Depth(p) - 1, Leave(c, p, q)
  PROVE  Frames'
  <1>1. place' \in [Clients -> Places]
    BY DEF Frames, TypeOK, Leave, Go
  <1>2. \A d \in Clients : place'[d] = IF d = c THEN q ELSE place[d]
    BY DEF Frames, TypeOK, Leave, Go
  <1>3. place[c] = p /\ held' = held \ {<<c, Depth(p)>>}
    BY DEF Leave, Go
  <1>4. FramesMatch'
    <2>1. ASSUME NEW h \in Clients \X (1..3)
          PROVE  h \in held' <=> h[2] <= Depth(place'[h[1]])
      <3>1. h \in held <=> h[2] <= Depth(place[h[1]])
        BY DEF Frames, FramesMatch
      <3>2. h = <<h[1], h[2]>> /\ h[1] \in Clients /\ h[2] \in 1..3
        OBVIOUS
      <3>3. CASE h[1] = c
        BY <1>2, <1>3, <3>1, <3>2, <3>3
      <3>4. CASE h[1] # c
        BY <1>2, <1>3, <3>1, <3>2, <3>4
      <3> QED
        BY <3>3, <3>4
    <2>2. held' \subseteq Clients \X (1..3)
      BY <1>3 DEF Frames, TypeOK
    <2> QED
      BY <2>1, <2>2 DEF FramesMatch
  <1>5. held' \subseteq Clients \X (1..3) /\ held' \in SUBSET held
    BY <1>3 DEF Frames, TypeOK
  <1>6. Cardinality(held') <= Size
    BY <1>5, FewerFrames DEF Frames
  <1> QED
    BY <1>1, <1>4, <1>5, <1>6 DEF Frames, TypeOK

\* All frames of a client that fails or is cancelled are given back.
LEMMA UnwindKeeps ==
  ASSUME Frames, NEW c \in Clients, Unwind(c) PROVE Frames'
  <1>1. place' \in [Clients -> Places]
    BY DEF Frames, TypeOK, Unwind, Places
  <1>2. \A d \in Clients : place'[d] = IF d = c THEN Home ELSE place[d]
    BY DEF Frames, TypeOK, Unwind
  <1>3. held' = {h \in held : h[1] # c}
    BY DEF Unwind
  <1>4. Depth(Home) = 0
    BY DEF Depth, Home, OneDeep, TwoDeep
  <1>5. FramesMatch'
    <2>1. ASSUME NEW h \in Clients \X (1..3)
          PROVE  h \in held' <=> h[2] <= Depth(place'[h[1]])
      <3>1. h \in held <=> h[2] <= Depth(place[h[1]])
        BY DEF Frames, FramesMatch
      <3>2. h[1] \in Clients /\ h[2] \in 1..3
        OBVIOUS
      <3> QED
        BY <1>2, <1>3, <1>4, <3>1, <3>2
    <2>2. held' \subseteq Clients \X (1..3)
      BY <1>3 DEF Frames, TypeOK
    <2> QED
      BY <2>1, <2>2 DEF FramesMatch
  <1>6. held' \subseteq Clients \X (1..3) /\ held' \in SUBSET held
    BY <1>3 DEF Frames, TypeOK
  <1>7. Cardinality(held') <= Size
    BY <1>6, FewerFrames DEF Frames
  <1> QED
    BY <1>1, <1>5, <1>6, <1>7 DEF Frames, TypeOK

-----------------------------------------------------------------------------
LEMMA InitIInv == Init => IInv
  <1> SUFFICES ASSUME Init PROVE IInv
    OBVIOUS
  <1>1. Depth(Home) = 0 /\ Home \in Places
    BY DEF Depth, Home, OneDeep, TwoDeep, Places
  <1>2. Cardinality(held) = 0
    BY FS_EmptySet DEF Init
  <1>3. Frames
    BY <1>1, <1>2, ConnectionAssumption DEF Init, Frames, TypeOK, FramesMatch
  <1>4. WatchdogStays
    BY DEF Init, WatchdogStays, Clients
  <1> QED
    BY <1>3, <1>4 DEF IInv

\* The frames follow the places in every step.
LEMMA StepFrames == Frames /\ [Next]_vars => Frames'
  <1> SUFFICES ASSUME Frames, [Next]_vars PROVE Frames'
    OBVIOUS
  <1> USE DEF Places, Home, Wanting, OneDeep, TwoDeep, Depth
  <1>1. ASSUME NEW c \in Clients, Unwind(c) PROVE Frames'
    BY <1>1, UnwindKeeps
  <1>2. ASSUME NEW t \in Clients, PlainStatement(t) PROVE Frames'
    BY <1>2, AskKeeps, EnterKeeps, LeaveKeeps DEF PlainStatement
  <1>3. ASSUME NEW t \in Clients, LookUp(t) PROVE Frames'
    BY <1>3, AskKeeps, EnterKeeps, LeaveKeeps DEF LookUp
  <1>4. ASSUME NEW t \in Clients, LinkArticle(t) PROVE Frames'
    BY <1>4, AskKeeps, EnterKeeps, LeaveKeeps DEF LinkArticle
  <1>5. ASSUME NEW t \in Clients, CloneRows(t) PROVE Frames'
    BY <1>5, AskKeeps, EnterKeeps, LeaveKeeps DEF CloneRows
  <1>6. ASSUME NEW t \in Clients, MarkReused(t) PROVE Frames'
    BY <1>6, EnterKeeps, LeaveKeeps DEF MarkReused
  <1>7. CASE WatchStuck
    <2>1. Watchdog \in Clients
      BY DEF Clients
    <2> QED
      BY <1>7, <2>1, AskKeeps, EnterKeeps, LeaveKeeps DEF WatchStuck
  <1>8. CASE UNCHANGED vars
    BY <1>8 DEF vars, Frames, TypeOK, FramesMatch
  <1> QED
    BY <1>1, <1>2, <1>3, <1>4, <1>5, <1>6, <1>7, <1>8
    DEF Next, Step, TaskStep

\* The steps of the tasks do not move the watchdog.
LEMMA StepWatchdog == Frames /\ WatchdogStays /\ [Next]_vars => WatchdogStays'
  <1> SUFFICES ASSUME Frames, WatchdogStays, [Next]_vars PROVE WatchdogStays'
    OBVIOUS
  <1>1. Watchdog \in Clients /\ Watchdog \notin Tasks
    BY ConnectionAssumption DEF Clients
  <1> USE DEF Go, Ask, Enter, Leave, WatchdogStays, Home
  <1>2. ASSUME NEW t \in Tasks, TaskStep(t) PROVE place'[Watchdog] = place[Watchdog]
    <2>1. \E q \in Places : place' = [place EXCEPT ![t] = q]
      BY <1>2 DEF TaskStep, PlainStatement, LookUp, LinkArticle, CloneRows,
                  MarkReused, Places, Wanting, OneDeep, TwoDeep
    <2> QED
      BY <1>1, <2>1 DEF Frames, TypeOK
  <1>3. CASE WatchStuck
    BY <1>1, <1>3 DEF WatchStuck, Frames, TypeOK
  <1>4. ASSUME NEW c \in Clients, Unwind(c) PROVE WatchdogStays'
    BY <1>1, <1>4 DEF Unwind, Frames, TypeOK
  <1>5. CASE UNCHANGED vars
    BY <1>5 DEF vars
  <1> QED
    BY <1>2, <1>3, <1>4, <1>5 DEF Next, Step

LEMMA Invariance == Spec => []IInv
  <1>1. IInv /\ [Next]_vars => IInv'
    BY StepFrames, StepWatchdog DEF IInv
  <1> QED
    BY InitIInv, <1>1, PTL DEF Spec

\* The pool never lends more connections than it has, for any clients.
THEOREM TypeCorrect == Spec => []TypeOK
  <1>1. IInv => TypeOK
    BY DEF IInv, Frames
  <1> QED
    BY <1>1, Invariance, PTL

-----------------------------------------------------------------------------
\* Clients that cannot give a connection back hold at most two each, the
\* watchdog one.
LEMMA WaitersHoldLittle ==
  ASSUME IInv, CanRelease = {}
  PROVE  held \subseteq (Tasks \X (1..2)) \cup {<<Watchdog, 1>>}
  <1> SUFFICES ASSUME NEW h \in held
               PROVE  h \in (Tasks \X (1..2)) \cup {<<Watchdog, 1>>}
    OBVIOUS
  <1>1. h \in Clients \X (1..3) /\ h[2] <= Depth(place[h[1]])
    BY DEF IInv, Frames, FramesMatch
  <1>2. h = <<h[1], h[2]>> /\ h[1] \in Clients /\ h[2] \in 1..3
    BY <1>1
  <1>3. place[h[1]] \in Wanting \cup {Home}
    BY <1>2 DEF CanRelease, IInv, Frames, TypeOK
  <1>4. CASE h[1] \in Tasks
    <2>1. Depth(place[h[1]]) <= 2
      BY <1>3 DEF Wanting, Home, Depth, OneDeep, TwoDeep
    <2>2. h[2] \in 1..2
      BY <1>1, <1>2, <1>3, <2>1 DEF Wanting, Home, Depth, OneDeep, TwoDeep
    <2> QED
      BY <1>2, <1>4, <2>2
  <1>5. CASE h[1] = Watchdog
    <2>1. Depth(place[Watchdog]) <= 1
      BY <1>3, <1>5 DEF IInv, WatchdogStays, Wanting, Home, Depth, OneDeep, TwoDeep
    <2>2. Depth(place[Watchdog]) \in 0..3
      BY DEF Depth
    <2>3. h[2] = 1
      BY <1>1, <1>2, <1>5, <2>1, <2>2
    <2> QED
      BY <1>2, <1>5, <2>3
  <1> QED
    BY <1>2, <1>4, <1>5 DEF Clients

\* Together these are fewer than a pool of 2 * |Tasks| + 2 connections has.
LEMMA WaitersCannotFillPool ==
  ASSUME IInv, CanRelease = {}
  PROVE  Cardinality(held) <= 2 * Cardinality(Tasks) + 1
  <1> DEFINE Pairs == Tasks \X (1..2)
  <1>1. IsFiniteSet(Tasks) /\ Cardinality(Tasks) \in Nat
    BY ConnectionAssumption, FS_CardinalityType
  <1>2. IsFiniteSet(1..2) /\ Cardinality(1..2) = 2
    <2>1. \A a, b \in Int : IsFiniteSet(a..b) /\ Cardinality(a..b) = IF a > b THEN 0 ELSE b - a + 1
      BY FS_Interval
    <2>2. 1 \in Int /\ 2 \in Int
      OBVIOUS
    <2>3. IsFiniteSet(1..2) /\ Cardinality(1..2) = IF 1 > 2 THEN 0 ELSE 2 - 1 + 1
      BY <2>1, <2>2, Zenon
    <2> QED
      BY <2>3
  <1>3. IsFiniteSet(Pairs) /\ Cardinality(Pairs) = Cardinality(Tasks) * 2
    BY <1>1, <1>2, FS_Product
  <1> HIDE DEF Pairs
  <1>4. /\ IsFiniteSet(Pairs \cup {<<Watchdog, 1>>})
        /\ \/ Cardinality(Pairs \cup {<<Watchdog, 1>>}) = Cardinality(Pairs)
           \/ Cardinality(Pairs \cup {<<Watchdog, 1>>}) = Cardinality(Pairs) + 1
    BY <1>3, FS_AddElement
  <1>5. held \subseteq Pairs \cup {<<Watchdog, 1>>}
    BY WaitersHoldLittle DEF Pairs
  <1>6. Cardinality(held) <= Cardinality(Pairs \cup {<<Watchdog, 1>>})
    BY <1>4, <1>5, FS_Subset
  <1>7. Cardinality(held) \in Nat /\ Cardinality(Pairs \cup {<<Watchdog, 1>>}) \in Nat
    BY <1>4, <1>5, FS_Subset, FS_CardinalityType
  <1> QED
    BY <1>1, <1>3, <1>4, <1>6, <1>7

\* The pool of the AI service suffices for any number of tasks T with
\* 2 T + 1 < max_size: somebody can always give a connection back.
THEOREM GridlockFree == Spec => []NoGridlock
  <1>1. IInv => NoGridlock
    <2> SUFFICES ASSUME IInv, Size > 2 * Cardinality(Tasks) + 1,
                        Cardinality(held) = Size, CanRelease = {}
                 PROVE  FALSE
      BY DEF NoGridlock
    <2>1. Cardinality(held) <= 2 * Cardinality(Tasks) + 1
      BY WaitersCannotFillPool
    <2>2. Cardinality(Tasks) \in Nat
      BY ConnectionAssumption, FS_CardinalityType
    <2> QED
      BY <2>1, <2>2, ConnectionAssumption
  <1> QED
    BY <1>1, Invariance, PTL
=============================================================================
