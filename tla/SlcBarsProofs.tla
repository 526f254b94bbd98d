---------------------------- MODULE SlcBarsProofs ----------------------------
(***************************************************************************)
(* Type correctness of the bar cache and its folds, one signal a session,  *)
(* no cached bar that is never folded, and entries on folds of one scale.  *)
(* The second is inductive because in an open session the fold remembers   *)
(* every signal of it, the recorded ones and those a cycle still has in    *)
(* hand; between sessions a rebuild may forget them, and no bar of theirs  *)
(* comes any more. The third follows from an invariant that names, at      *)
(* every place of a cycle, the rows that are cached and still to be        *)
(* folded: until a process dies they are in the hand of the running cycle. *)
(* The fourth is about splits: a result of this morning means that every   *)
(* symbol that is not flagged has a fold on the scale of the feed, and no  *)
(* cached row of the other scale that a catch-up may still fold, unless    *)
(* the look for its split has missed it; once found a split stays found.   *)
(***************************************************************************)
EXTENDS SlcBars, FiniteSetTheorems, SequenceTheorems, TLAPS

(***************************************************************************)
(* Sets of slots in order.                                                  *)
(***************************************************************************)
\* Every rank is taken: counting the elements up to one another is injective,
\* and so, between sets of equal size, onto.
LEMMA RankTaken ==
  ASSUME NEW S \in SUBSET Slots, NEW i \in 1..Cardinality(S)
  PROVE  \E t \in S : Cardinality({u \in S : u <= t}) = i
<1>1. IsFiniteSet(S) /\ Cardinality(S) \in Nat /\ S \subseteq Int
  <2>1. IsFiniteSet(Slots) /\ Slots \subseteq Int
    BY FS_Interval, BarConstants DEF Slots
  <2>2. IsFiniteSet(S)
    BY <2>1, FS_Subset
  <2> QED BY <2>1, <2>2, FS_CardinalityType
<1> DEFINE U(t) == {u \in S : u <= t}
           n == Cardinality(S)
           rank == [t \in S |-> Cardinality(U(t))]
<1>2. \A t \in S : U(t) \in SUBSET S /\ t \in U(t)
  BY <1>1
<1>3. \A t \in S : IsFiniteSet(U(t)) /\ Cardinality(U(t)) \in Nat /\ Cardinality(U(t)) <= n
  BY <1>1, <1>2, FS_Subset, FS_CardinalityType
<1>4. \A t \in S : Cardinality(U(t)) # 0
  <2> HIDE DEF U
  <2> QED BY <1>2, <1>3, FS_EmptySet
<1>5. rank \in [S -> 1..n]
  <2> HIDE DEF U
  <2>1. \A t \in S : Cardinality(U(t)) \in 1..n
    BY <1>1, <1>3, <1>4
  <2> QED BY <2>1
<1>6. ASSUME NEW t \in S, NEW u \in S, t < u
      PROVE  rank[t] # rank[u]
  <2>1. U(t) \in SUBSET U(u) /\ U(t) # U(u)
    <3>1. t \in Int /\ u \in Int /\ \A v \in S : v \in Int
      BY <1>1
    <3>2. \A v \in S : v <= t => v <= u
      BY <1>6, <3>1
    <3>3. u <= u /\ ~(u <= t)
      BY <1>6, <3>1
    <3>4. U(t) \subseteq U(u) /\ u \in U(u) /\ u \notin U(t)
      BY <3>2, <3>3
    <3> HIDE DEF U
    <3> QED BY <3>4
  <2> HIDE DEF U
  <2> QED BY <1>3, <2>1, FS_Subset
<1>7. \A t, u \in S : rank[t] = rank[u] => t = u
  <2>1. \A t, u \in S : t = u \/ t < u \/ u < t
    BY <1>1
  <2> HIDE DEF rank
  <2> QED BY <1>6, <2>1
<1>8. rank \in Injection(S, 1..n)
  <2> HIDE DEF rank
  <2> QED BY <1>5, <1>7 DEF Injection, IsInjective
<1>9. Cardinality(1..n) = n /\ IsFiniteSet(1..n)
  BY <1>1, FS_Interval
<1>10. rank \in Surjection(S, 1..n)
  <2> HIDE DEF rank
  <2> QED BY <1>8, <1>9, FS_Injection
<1>11. \E t \in S : rank[t] = i
  <2> HIDE DEF rank
  <2> QED BY <1>10 DEF Surjection
<1> QED BY <1>11

\* Bars in order are bars, as many as there are, of the slots they have.
LEMMA InOrderBars ==
  ASSUME NEW b, DOMAIN b \in SUBSET Slots, \A t \in DOMAIN b : b[t] \in {0, 1}
  PROVE  /\ InOrder(b) \in Seq(Bar) /\ Len(InOrder(b)) = Cardinality(DOMAIN b)
         /\ \A i \in 1..Len(InOrder(b)) : InOrder(b)[i].slot \in DOMAIN b
<1> DEFINE n == Cardinality(DOMAIN b)
           at(i) == CHOOSE t \in DOMAIN b : Cardinality({u \in DOMAIN b : u <= t}) = i
           bar(i) == [slot |-> at(i), scale |-> b[at(i)]]
<1>1. n \in Nat
  <2>1. IsFiniteSet(Slots)
    BY FS_Interval, BarConstants DEF Slots
  <2>2. IsFiniteSet(DOMAIN b)
    BY <2>1, FS_Subset
  <2> QED BY <2>2, FS_CardinalityType
<1>2. \A i \in 1..n : at(i) \in DOMAIN b
  BY RankTaken
<1>3. InOrder(b) = [i \in 1..n |-> bar(i)]
  BY DEF InOrder
<1>4. \A i \in 1..n : bar(i) \in Bar /\ bar(i).slot \in DOMAIN b
  <2> HIDE DEF at
  <2> QED BY <1>2 DEF Bar
<1> HIDE DEF n, bar
<1>5. InOrder(b) \in Seq(Bar) /\ Len(InOrder(b)) = n
  BY <1>1, <1>3, <1>4
<1> QED BY <1>3, <1>4, <1>5 DEF n

(***************************************************************************)
(* Sessions.                                                                *)
(***************************************************************************)
\* Later bars are not of earlier sessions, and a session that is not over goes on.
LEMMA Days ==
  ASSUME NEW t \in Nat \ {0}, NEW u \in Nat \ {0}, t <= u
  PROVE  /\ Day(t) \in Nat /\ Day(t) <= Day(u) /\ Day(t) <= t
         /\ u % SlotsPerDay = 0 => Day(u + 1) # Day(u)
<1> DEFINE n == SlotsPerDay
<1>1. n \in Nat \ {0}
  BY BarConstants
<1>2. \A x \in Int : /\ x \div n \in Int /\ x % n \in 0..(n - 1)
                     /\ x = n * (x \div n) + (x % n)
  BY <1>1
<1>3. \A x, y \in Nat : x <= y => x \div n <= y \div n
  BY <1>1
<1>4. \A x \in Nat : x \div n \in Nat /\ x \div n <= x
  BY <1>1
<1>5. t - 1 \in Nat /\ u - 1 \in Nat /\ t - 1 <= u - 1
  OBVIOUS
<1>6. ASSUME u % n = 0 PROVE u \div n # (u - 1) \div n
  BY <1>1, <1>6
<1>7. (u + 1) - 1 = u
  OBVIOUS
<1> HIDE DEF n
<1> QED BY <1>3, <1>4, <1>5, <1>6, <1>7 DEF Day, n

(***************************************************************************)
(* The invariant.                                                           *)
(***************************************************************************)
FoldRecord == [bootstrapped : BOOLEAN, fed : Seq(Bar), signaled : SUBSET (0..Day(LastSlot)),
               pending : BOOLEAN, history : Nat]
Morning == {"bootstrap", "candidates", "detect", "rebuild", "parity"}
Ingest == {"backfill", "catchup", "fetch", "persist", "process", "record"}
RunRecord == [pc : Morning \cup Ingest \cup {"idle", "reconcile"}, exp : 0..LastSlot,
              todo : SUBSET Symbols, written : SUBSET Symbols,
              confs : SUBSET [symbol : Symbols, slot : Slots], started : BOOLEAN]
CacheHolds(rows, s) == /\ DOMAIN rows \subseteq feed[s]
                       /\ \A t \in DOMAIN rows : rows[t] \in {0, 1}
BarsType ==
  /\ clock \in 1..LastSlot
  /\ feed \in [Symbols -> SUBSET (1..clock)]
  /\ split \in [Symbols -> 0..LastSlot]
  /\ bars = [s \in Symbols |-> bars[s]] /\ \A s \in Symbols : CacheHolds(bars[s], s)
  /\ fold \in [Symbols -> FoldRecord]
  /\ \A s \in Symbols : fold[s].history <= Len(fold[s].fed)
  /\ parity \in 0..LastSlot
  /\ signals \in SUBSET [symbol : Symbols, slot : 1..clock, entered : BOOLEAN]
  /\ run \in RunRecord

\* A stage of the morning runs between sessions, the ingestion of a cycle at the bar
\* it expects, and what a cycle has confirmed is of that bar.
RunHolds ==
  /\ run.pc \in Morning => BetweenSessions
  /\ run.pc \in Ingest => run.exp = clock
  /\ run.confs # {} => run.pc \in Ingest
  /\ \A c \in run.confs : c.slot = clock

\* The session is open, or a cycle of it still runs.
SessionOpen == ~BetweenSessions \/ run.pc \in Ingest \cup {"reconcile"}

\* In an open session, the fold remembers every signal of the session, recorded or not.
SignalsMarked ==
  /\ SessionOpen => \A x \in signals :
       Day(x.slot) = Day(clock) => Day(clock) \in fold[x.symbol].signaled
  /\ \A c \in run.confs : Day(clock) \in fold[c.symbol].signaled

\* What a cycle has confirmed is not on record yet.
Unrecorded ==
  \A x \in signals, c \in run.confs : ~(x.symbol = c.symbol /\ Day(x.slot) = Day(c.slot))

BarsInv == BarsType /\ RunHolds /\ SignalsMarked /\ Unrecorded /\ OneSignalPerSession

(***************************************************************************)
(* What the helpers do.                                                     *)
(***************************************************************************)
\* Sessions are numbers up to the last one.
LEMMA DayRange == ASSUME NEW t \in Slots PROVE Day(t) \in 0..Day(LastSlot)
<1>1. LastSlot \in Nat \ {0} /\ t \in Nat \ {0} /\ t <= LastSlot
  BY BarConstants DEF Slots
<1>2. Day(t) \in Nat /\ Day(LastSlot) \in Nat /\ Day(t) <= Day(LastSlot)
  BY <1>1, Days
<1> QED BY <1>2

\* A fetch returns bars the feed has, on one scale.
LEMMA FetchedBars ==
  ASSUME NEW s \in Symbols, NEW from, NEW to
  PROVE  /\ CacheHolds(Fetched(s, from, to), s)
         /\ DOMAIN Fetched(s, from, to) \subseteq from..to
<1>1. Scale(s) \in {0, 1}
  BY DEF Scale
<1> HIDE DEF Scale
<1> QED BY <1>1 DEF Fetched, CacheHolds

\* Rows that are merged hold what both held.
LEMMA MergedBars ==
  ASSUME NEW s \in Symbols, NEW rows, NEW new, CacheHolds(rows, s), CacheHolds(new, s)
  PROVE  CacheHolds(Merged(rows, new), s)
BY DEF Merged, CacheHolds

\* What is folded is appended; of the sessions that have signaled those are kept that
\* no folded bar is later than.
LEMMA FedParts ==
  ASSUME NEW f \in FoldRecord, NEW seq \in Seq(Bar),
         NEW sessions, sessions \subseteq SessionsOf(seq)
  PROVE  LET g == FedWith(f, seq, sessions) IN
         /\ g \in FoldRecord /\ g.history = f.history
         /\ Len(g.fed) = Len(f.fed) + Len(seq)
         /\ \A d : d \in g.signaled <=> /\ d \in f.signaled \cup sessions
                                        /\ \A x \in Range(seq) : d >= Day(x.slot)
<1> DEFINE left == {d \in f.signaled \cup sessions : \A x \in Range(seq) : d >= Day(x.slot)}
           g == [f EXCEPT !.fed = f.fed \o seq, !.signaled = left]
<1>1. FedWith(f, seq, sessions) = g
  BY DEF FedWith
<1>2. Range(seq) \subseteq Bar
  BY DEF Range
<1>3. SessionsOf(seq) \subseteq 0..Day(LastSlot)
  BY <1>2, DayRange DEF SessionsOf, Bar
<1>4. left \subseteq 0..Day(LastSlot)
  BY <1>3 DEF FoldRecord
<1>5. f.fed \o seq \in Seq(Bar) /\ Len(f.fed \o seq) = Len(f.fed) + Len(seq)
  BY DEF FoldRecord
<1>6. \A d : d \in left <=> /\ d \in f.signaled \cup sessions
                            /\ \A x \in Range(seq) : d >= Day(x.slot)
  OBVIOUS
<1> HIDE DEF left
<1>7. /\ g \in FoldRecord /\ g.history = f.history /\ g.signaled = left
      /\ g.fed = f.fed \o seq
  BY <1>4, <1>5 DEF FoldRecord
<1> HIDE DEF g
<1> QED BY <1>1, <1>5, <1>6, <1>7

\* A bootstrap folds the history and nothing else.
LEMMA BootParts ==
  ASSUME NEW b, DOMAIN b \in SUBSET Slots, \A t \in DOMAIN b : b[t] \in {0, 1}
  PROVE  \A pending \in BOOLEAN :
           LET g == [Bootstrapped(b) EXCEPT !.pending = pending] IN
           /\ Bootstrapped(b) \in FoldRecord /\ g \in FoldRecord
           /\ Bootstrapped(b).history <= Len(Bootstrapped(b).fed) /\ g.history <= Len(g.fed)
<1> DEFINE q == InOrder(b)
           n == Cardinality(DOMAIN b)
<1>1. q \in Seq(Bar) /\ Len(q) = n /\ n \in Nat
  BY InOrderBars
<1>2. Bootstrapped(b) = [bootstrapped |-> TRUE, fed |-> q, signaled |-> {}, pending |-> FALSE,
                         history |-> n]
  BY DEF Bootstrapped
<1> HIDE DEF q, n
<1>3. /\ Bootstrapped(b) \in FoldRecord
      /\ Bootstrapped(b).history = n /\ Bootstrapped(b).fed = q
  BY <1>1, <1>2 DEF FoldRecord
<1>4. ASSUME NEW pending \in BOOLEAN
      PROVE  LET g == [Bootstrapped(b) EXCEPT !.pending = pending]
             IN g \in FoldRecord /\ g.history = n /\ g.fed = q
  BY <1>3 DEF FoldRecord
<1> QED BY <1>1, <1>3, <1>4

\* The bars a catch-up folds are cached ones that have closed.
LEMMA UnfoldedBars ==
  ASSUME BarsType, NEW s \in Symbols, NEW through \in Int
  PROVE  /\ Unfolded(s, through) \in Seq(Bar)
         /\ \A x \in Range(Unfolded(s, through)) : x.slot \in 1..clock /\ x.slot <= through
<1> DEFINE T == {u \in DOMAIN bars[s] : u <= through /\ u > LastFed(fold[s])}
           b == [t \in T |-> bars[s][t]]
<1>1. DOMAIN bars[s] \subseteq 1..clock /\ clock \in 1..LastSlot
      /\ \A t \in DOMAIN bars[s] : bars[s][t] \in {0, 1}
  BY DEF BarsType, CacheHolds
<1>2. DOMAIN b \in SUBSET Slots /\ \A t \in DOMAIN b : b[t] \in {0, 1}
  BY <1>1, BarConstants DEF Slots
<1>3. DOMAIN b = T /\ \A t \in T : t \in 1..clock /\ t <= through
  BY <1>1
<1>4. Unfolded(s, through) = InOrder(b)
  BY DEF Unfolded
<1> HIDE DEF b, T
<1>5. /\ InOrder(b) \in Seq(Bar)
      /\ \A i \in 1..Len(InOrder(b)) : InOrder(b)[i].slot \in T
  BY <1>2, <1>3, InOrderBars
<1>6. \A x \in Range(InOrder(b)) : x.slot \in T
  BY <1>5 DEF Range
<1> QED BY <1>3, <1>4, <1>5, <1>6

\* Going on with the next symbol, or with the next part of the stage.
LEMMA DoneParts ==
  ASSUME run \in RunRecord, NEW s, NEW next \in Morning \cup Ingest
  PROVE  /\ Done(s, next) \in RunRecord /\ Done(s, next).pc \in {run.pc, next}
         /\ Done(s, next).exp = run.exp /\ Done(s, next).confs = run.confs
BY DEF Done, RunRecord

\* A stage that stops leaves nothing in hand.
LEMMA StopParts ==
  ASSUME run \in RunRecord
  PROVE  Stop \in RunRecord /\ Stop.pc = "idle" /\ Stop.confs = {}
BY BarConstants DEF Stop, Idle, RunRecord

(***************************************************************************)
(* Time and the feed keep the invariant.                                    *)
(***************************************************************************)
\* A step that records nothing, and forgets no session a cycle may still ask about.
LEMMA QuietStep ==
  ASSUME BarsInv, clock' = clock, signals' = signals, run'.confs \subseteq run.confs,
         SessionOpen' \/ run'.confs # {} =>
           /\ SessionOpen
           /\ \A s \in Symbols : Day(clock) \in fold[s].signaled
                                   => Day(clock) \in (fold')[s].signaled
  PROVE  SignalsMarked' /\ Unrecorded' /\ OneSignalPerSession'
<1>1. /\ signals \in SUBSET [symbol : Symbols, slot : 1..clock, entered : BOOLEAN]
      /\ run.confs \in SUBSET [symbol : Symbols, slot : Slots]
      /\ SignalsMarked /\ Unrecorded /\ OneSignalPerSession
  BY DEF BarsInv, BarsType, RunRecord
<1>2. /\ \A x \in signals : x.symbol \in Symbols
      /\ \A c \in run.confs : c.symbol \in Symbols
  BY <1>1
<1>3. SignalsMarked'
  BY <1>1, <1>2 DEF SignalsMarked
<1>4. Unrecorded'
  BY <1>1 DEF Unrecorded
<1>5. OneSignalPerSession'
  BY <1>1 DEF OneSignalPerSession
<1> QED BY <1>3, <1>4, <1>5

\* The cached bars stay in a feed that grows.
LEMMA FeedGrows ==
  ASSUME BarsType, bars' = bars, clock' \in clock..LastSlot,
         feed' \in [Symbols -> SUBSET (1..clock')], \A s \in Symbols : feed[s] \subseteq (feed')[s]
  PROVE  /\ bars' = [s \in Symbols |-> (bars')[s]]
         /\ \A s \in Symbols : CacheHolds(bars[s], s)'
BY DEF BarsType, CacheHolds

\* A bar closes.
LEMMA TickInv == ASSUME BarsInv, Tick PROVE BarsInv'
<1>1. /\ clock \in 1..LastSlot /\ clock < LastSlot /\ clock' = clock + 1
      /\ run.pc \in {"idle", "reconcile"} /\ run' = [run EXCEPT !.started = FALSE]
      /\ UNCHANGED <<split, bars, fold, parity, signals>>
      /\ BarsType /\ RunHolds /\ SignalsMarked /\ Unrecorded /\ OneSignalPerSession
  BY DEF BarsInv, BarsType, Tick
<1>2. /\ feed' \in [Symbols -> SUBSET (1..clock')]
      /\ \A s \in Symbols : feed[s] \subseteq (feed')[s]
  <2>1. PICK prompt \in SUBSET Symbols :
          feed' = [s \in Symbols |-> IF s \in prompt THEN feed[s] \cup {clock'} ELSE feed[s]]
    BY DEF Tick
  <2>2. \A s \in Symbols : feed[s] \in SUBSET (1..clock)
    BY <1>1 DEF BarsType
  <2>3. 1..clock \subseteq 1..clock' /\ clock' \in 1..clock'
    BY <1>1
  <2> QED BY <2>1, <2>2, <2>3
<1>3. /\ run' \in RunRecord /\ run'.pc = run.pc /\ run'.exp = run.exp /\ run'.confs = run.confs
  BY <1>1 DEF BarsType, RunRecord
<1>4. run.confs = {}
  BY <1>1 DEF RunHolds, Ingest
<1>5. clock' \in clock..LastSlot /\ clock' \in 1..LastSlot /\ 1..clock \subseteq 1..clock'
  BY <1>1, BarConstants
<1>6. BarsType'
  <2>1. signals' \in SUBSET [symbol : Symbols, slot : 1..clock', entered : BOOLEAN]
    BY <1>1, <1>5 DEF BarsType
  <2> QED BY <1>1, <1>2, <1>3, <1>5, <2>1, FeedGrows DEF BarsType
<1>7. RunHolds'
  BY <1>1, <1>3, <1>4 DEF RunHolds, Morning, Ingest
<1>8. SignalsMarked'
  <2>1. ASSUME SessionOpen', NEW x \in signals, Day(x.slot) = Day(clock')
        PROVE  Day(clock') \in fold[x.symbol].signaled
    <3>1. x.slot \in Nat \ {0} /\ clock \in Nat \ {0} /\ x.slot <= clock
      BY <1>1 DEF BarsType
    <3>2. Day(x.slot) <= Day(clock) /\ Day(x.slot) \in Nat /\ Day(clock) \in Nat
      BY <3>1, Days
    <3>3. Day(clock) <= Day(clock') /\ Day(clock') \in Nat
      <4>1. clock' \in Nat \ {0} /\ clock <= clock'
        BY <1>1
      <4> QED BY <3>1, <4>1, Days
    <3>4. Day(clock) = Day(clock')
      BY <2>1, <3>2, <3>3
    <3>5. ~BetweenSessions
      BY <1>1, <3>1, <3>4, Days DEF BetweenSessions
    <3> QED BY <1>1, <2>1, <3>4, <3>5 DEF SignalsMarked, SessionOpen
  <2> QED BY <1>1, <1>3, <1>4, <2>1 DEF SignalsMarked
<1>9. Unrecorded' /\ OneSignalPerSession'
  BY <1>1, <1>3, <1>4 DEF Unrecorded, OneSignalPerSession
<1> QED BY <1>6, <1>7, <1>8, <1>9 DEF BarsInv

\* A bar comes late.
LEMMA DeliverLateInv == ASSUME BarsInv, NEW s \in Symbols, DeliverLate(s) PROVE BarsInv'
<1>1. /\ UNCHANGED <<clock, split, bars, fold, parity, signals, run, faults>>
      /\ BarsType /\ RunHolds
  BY DEF BarsInv, DeliverLate
<1>2. /\ feed' \in [Symbols -> SUBSET (1..clock)]
      /\ \A x \in Symbols : feed[x] \subseteq (feed')[x]
  BY <1>1 DEF DeliverLate, BarsType
<1>3. clock' \in clock..LastSlot
  BY <1>1 DEF BarsType
<1>4. BarsType'
  BY <1>1, <1>2, <1>3, FeedGrows DEF BarsType
<1>5. RunHolds' /\ (SessionOpen' => SessionOpen) /\ (run.confs # {} => SessionOpen)
  BY <1>1 DEF RunHolds, SessionOpen, BetweenSessions
<1>6. SignalsMarked' /\ Unrecorded' /\ OneSignalPerSession'
  BY <1>1, <1>5, QuietStep
<1> QED BY <1>4, <1>5, <1>6 DEF BarsInv

\* A symbol is split overnight.
LEMMA SplitInv == ASSUME BarsInv, NEW s \in Symbols, SplitOvernight(s) PROVE BarsInv'
<1>1. /\ UNCHANGED <<clock, feed, bars, fold, parity, signals, run, faults>>
      /\ BarsType /\ RunHolds
  BY DEF BarsInv, SplitOvernight
<1>2. split' \in [Symbols -> 0..LastSlot]
  <2>1. Today \in 0..LastSlot
    <3>1. BetweenSessions /\ clock \in 1..LastSlot /\ SlotsPerDay \in Nat \ {0} /\ LastSlot \in Nat
      BY <1>1, BarConstants DEF SplitOvernight, BarsType
    <3>2. \A x \in Nat, n \in Nat \ {0} : x \div n \in Nat /\ x \div n <= x
      OBVIOUS
    <3>3. clock \div SlotsPerDay \in Nat /\ clock \div SlotsPerDay <= clock
      BY <3>1, <3>2
    <3> QED BY <3>1, <3>3 DEF Today
  <2> HIDE DEF Today
  <2> QED BY <1>1, <2>1 DEF SplitOvernight, BarsType
<1>4. BarsType'
  BY <1>1, <1>2 DEF BarsType, CacheHolds
<1>5. RunHolds' /\ (SessionOpen' => SessionOpen) /\ (run.confs # {} => SessionOpen)
  BY <1>1 DEF RunHolds, SessionOpen, BetweenSessions
<1>6. SignalsMarked' /\ Unrecorded' /\ OneSignalPerSession'
  BY <1>1, <1>5, QuietStep
<1> QED BY <1>4, <1>5, <1>6 DEF BarsInv

\* The process dies and keeps nothing.
LEMMA CrashInv == ASSUME BarsInv, Crash PROVE BarsInv'
<1>1. /\ UNCHANGED <<clock, feed, split, bars, fold, parity, signals>>
      /\ run' = Stop /\ BarsType /\ RunHolds
  BY DEF BarsInv, Crash
<1>2. run' \in RunRecord /\ run'.pc = "idle" /\ run'.confs = {}
  BY <1>1, StopParts DEF BarsType
<1>4. BarsType'
  BY <1>1, <1>2 DEF BarsType, CacheHolds
<1>5. RunHolds' /\ (SessionOpen' => SessionOpen)
  BY <1>1, <1>2 DEF RunHolds, SessionOpen, BetweenSessions, Morning, Ingest
<1>6. SignalsMarked' /\ Unrecorded' /\ OneSignalPerSession'
  BY <1>1, <1>2, <1>5, QuietStep
<1> QED BY <1>4, <1>5, <1>6 DEF BarsInv

(***************************************************************************)
(* The preflight keeps the invariant.                                       *)
(***************************************************************************)
\* Between sessions nothing asks what the folds remember.
LEMMA MorningStep ==
  ASSUME BarsInv, UNCHANGED <<clock, feed, split, signals>>, parity' \in 0..LastSlot,
         run.pc \in Morning \cup {"idle"}, BetweenSessions,
         run' \in RunRecord, run'.pc \in Morning \cup {"idle"}, run'.confs = {},
         bars' = [s \in Symbols |-> (bars')[s]], \A s \in Symbols : CacheHolds((bars')[s], s),
         fold' \in [Symbols -> FoldRecord],
         \A s \in Symbols : (fold')[s].history <= Len((fold')[s].fed)
  PROVE  BarsInv'
<1>1. BarsType'
  BY DEF BarsInv, BarsType, CacheHolds
<1>2. RunHolds'
  BY DEF RunHolds, Morning, Ingest, BetweenSessions
<1>3. ~SessionOpen'
  BY DEF SessionOpen, BetweenSessions, Morning, Ingest
<1>4. SignalsMarked' /\ Unrecorded' /\ OneSignalPerSession'
  BY <1>3, QuietStep
<1> QED BY <1>1, <1>2, <1>4 DEF BarsInv

\* What a preflight finds is typed, and of a stage with nothing confirmed.
LEMMA MorningParts ==
  ASSUME BarsInv, run.pc \in Morning \cup {"idle"}
  PROVE  /\ run \in RunRecord /\ run.confs = {} /\ parity \in 0..LastSlot
         /\ run.pc \in Morning => BetweenSessions
         /\ bars = [s \in Symbols |-> bars[s]] /\ \A s \in Symbols : CacheHolds(bars[s], s)
         /\ fold \in [Symbols -> FoldRecord]
         /\ \A s \in Symbols : fold[s].history <= Len(fold[s].fed)
BY DEF BarsInv, BarsType, RunHolds, Morning, Ingest

\* Its start, its end, and the choice of the symbols to look at.
LEMMA PreflightEndsInv ==
  ASSUME BarsInv, StartPreflight \/ Candidates \/ RecordParity PROVE BarsInv'
<1>1. CASE StartPreflight
  <2>1. /\ run' \in RunRecord /\ run'.pc = "bootstrap" /\ run'.confs = {}
    <3>1. run' = [pc |-> "bootstrap", exp |-> 0, todo |-> Symbols, written |-> {},
                  confs |-> {}, started |-> TRUE]
      BY <1>1 DEF StartPreflight, Idle
    <3>2. 0 \in 0..LastSlot
      BY BarConstants
    <3> QED BY <3>1, <3>2 DEF RunRecord, Morning
  <2>2. /\ run.pc = "idle" /\ BetweenSessions
        /\ UNCHANGED <<clock, feed, split, bars, fold, parity, signals>>
    BY <1>1 DEF StartPreflight
  <2>3. run'.pc \in Morning
    BY <2>1 DEF Morning
  <2> QED BY <2>1, <2>2, <2>3, MorningParts, MorningStep
<1>2. CASE Candidates
  <2>2. run.pc = "candidates" /\ UNCHANGED <<clock, feed, split, bars, fold, parity, signals>>
    BY <1>2 DEF Candidates
  <2>3. run.pc \in Morning
    BY <2>2 DEF Morning
  <2>1. run' \in RunRecord /\ run'.pc \in {"parity", "detect"} /\ run'.confs = {}
    <3> DEFINE some == {s \in Symbols : fold[s].bootstrapped}
    <3>1. run' = IF some = {} THEN [run EXCEPT !.pc = "parity"]
                              ELSE [run EXCEPT !.pc = "detect", !.todo = some]
      BY <1>2 DEF Candidates, Goto
    <3>2. some \in SUBSET Symbols
      OBVIOUS
    <3> HIDE DEF some
    <3> QED BY <2>3, <3>1, <3>2, MorningParts DEF RunRecord, Morning
  <2>4. run'.pc \in Morning
    BY <2>1 DEF Morning
  <2> QED BY <2>1, <2>2, <2>3, <2>4, MorningParts, MorningStep
<1>3. CASE RecordParity
  <2>2. /\ run.pc = "parity" /\ run' = Stop /\ parity' = Today
        /\ UNCHANGED <<clock, feed, split, bars, fold, signals>>
    BY <1>3 DEF RecordParity
  <2>3. run.pc \in Morning
    BY <2>2 DEF Morning
  <2>1. run' \in RunRecord /\ run'.pc = "idle" /\ run'.confs = {}
    BY <2>2, <2>3, StopParts, MorningParts
  <2>4. Today \in 0..LastSlot
    <3>1. clock \in 1..LastSlot /\ SlotsPerDay \in Nat \ {0} /\ LastSlot \in Nat
      BY BarConstants DEF BarsInv, BarsType
    <3>2. \A x \in Nat, n \in Nat \ {0} : x \div n \in Nat /\ x \div n <= x
      OBVIOUS
    <3>3. clock \div SlotsPerDay \in Nat /\ clock \div SlotsPerDay <= clock
      BY <3>1, <3>2
    <3>4. Today = clock \div SlotsPerDay
      BY <2>3, MorningParts DEF Today
    <3> QED BY <3>1, <3>3, <3>4
  <2> QED BY <2>1, <2>2, <2>3, <2>4, MorningParts, MorningStep
<1> QED BY <1>1, <1>2, <1>3

\* A history that was fetched can be folded.
LEMMA HistoryFolds ==
  ASSUME BarsType, NEW s \in Symbols
  PROVE  \A pending \in BOOLEAN :
           LET b == Fetched(s, 1, clock)
               g == [Bootstrapped(b) EXCEPT !.pending = pending]
           IN
           /\ CacheHolds(b, s)
           /\ Bootstrapped(b) \in FoldRecord /\ g \in FoldRecord
           /\ Bootstrapped(b).history <= Len(Bootstrapped(b).fed) /\ g.history <= Len(g.fed)
<1> DEFINE b == Fetched(s, 1, clock)
<1>1. CacheHolds(b, s)
  BY FetchedBars
<1>2. feed[s] \subseteq Slots
  BY BarConstants DEF BarsType, Slots
<1>3. DOMAIN b \in SUBSET Slots /\ \A t \in DOMAIN b : b[t] \in {0, 1}
  <2> HIDE DEF b
  <2> QED BY <1>1, <1>2 DEF CacheHolds
<1> HIDE DEF b
<1> QED BY <1>1, <1>3, BootParts DEF b

\* One symbol is bootstrapped, or has been.
LEMMA BootstrapInv == ASSUME BarsInv, NEW s \in Symbols, Bootstrap(s) PROVE BarsInv'
<1>1. /\ run.pc = "bootstrap" /\ run' = Done(s, "candidates")
      /\ UNCHANGED <<clock, feed, split, bars, parity, signals>>
      /\ BarsType
  BY DEF Bootstrap, BarsInv
<1>2. run.pc \in Morning /\ "candidates" \in Morning
  BY <1>1 DEF Morning
<1>3. run' \in RunRecord /\ run'.pc \in Morning /\ run'.confs = {}
  BY <1>1, <1>2, MorningParts, DoneParts
<1> DEFINE g == [Bootstrapped(Fetched(s, 1, clock)) EXCEPT !.pending = fold[s].pending]
<1>4. fold' = fold \/ fold' = [fold EXCEPT ![s] = g]
  BY DEF Bootstrap
<1>5. g \in FoldRecord /\ g.history <= Len(g.fed)
  <2>1. fold[s].pending \in BOOLEAN
    BY <1>2, MorningParts DEF FoldRecord
  <2> QED BY <1>1, <2>1, HistoryFolds
<1> HIDE DEF g
<1>6. fold' \in [Symbols -> FoldRecord] /\ \A x \in Symbols : (fold')[x].history <= Len((fold')[x].fed)
  BY <1>2, <1>4, <1>5, MorningParts
<1> QED BY <1>1, <1>2, <1>3, <1>6, MorningParts, MorningStep

\* One symbol is looked at for a split.
LEMMA DetectInv == ASSUME BarsInv, NEW s \in Symbols, Detect(s) PROVE BarsInv'
<1>1. /\ run.pc = "detect"
      /\ UNCHANGED <<clock, feed, split, bars, parity, signals>>
      /\ \/ /\ fold' = [fold EXCEPT ![s].pending = TRUE]
            /\ run' = [run EXCEPT !.pc = "rebuild", !.written = {s}]
         \/ fold' = fold /\ run' = Done(s, "parity")
  BY DEF Detect
<1>2. run.pc \in Morning /\ "parity" \in Morning
  BY <1>1 DEF Morning
<1>3. run' \in RunRecord /\ run'.pc \in Morning /\ run'.confs = {}
  <2>1. CASE run' = [run EXCEPT !.pc = "rebuild", !.written = {s}]
    BY <1>2, <2>1, MorningParts DEF RunRecord, Morning
  <2>2. CASE run' = Done(s, "parity")
    BY <1>2, <2>2, MorningParts, DoneParts
  <2> QED BY <1>1, <2>1, <2>2
<1>6. fold' \in [Symbols -> FoldRecord] /\ \A x \in Symbols : (fold')[x].history <= Len((fold')[x].fed)
  <2> DEFINE g == [fold[s] EXCEPT !.pending = TRUE]
  <2>1. g \in FoldRecord /\ g.history = fold[s].history /\ g.fed = fold[s].fed
    BY <1>2, MorningParts DEF FoldRecord
  <2>2. fold' = fold \/ fold' = [fold EXCEPT ![s] = g]
    BY <1>1
  <2> HIDE DEF g
  <2> QED BY <1>2, <2>1, <2>2, MorningParts
<1> QED BY <1>1, <1>2, <1>3, <1>6, MorningParts, MorningStep

\* One symbol is rebuilt, or left as it is.
LEMMA RebuildInv == ASSUME BarsInv, NEW s \in Symbols, Rebuild(s) PROVE BarsInv'
<1> DEFINE h == Fetched(s, 1, clock)
           g == Bootstrapped(h)
<1>1. /\ run.pc = "rebuild"
      /\ UNCHANGED <<clock, feed, split, parity, signals>>
      /\ run' = [Done(s, "parity") EXCEPT !.written = {},
                    !.pc = IF run.todo = {s} THEN "parity" ELSE "detect"]
      /\ \/ bars' = bars /\ fold' = fold
         \/ bars' = [bars EXCEPT ![s] = h] /\ fold' = [fold EXCEPT ![s] = g]
      /\ BarsType
  BY DEF Rebuild, BarsInv
<1>2. run.pc \in Morning /\ "parity" \in Morning
  BY <1>1 DEF Morning
<1>3. run' \in RunRecord /\ run'.pc \in Morning /\ run'.confs = {}
  <2>1. Done(s, "parity") \in RunRecord /\ Done(s, "parity").confs = {}
    BY <1>2, MorningParts, DoneParts
  <2> QED BY <1>1, <2>1 DEF RunRecord, Morning
<1>5. CacheHolds(h, s) /\ g \in FoldRecord /\ g.history <= Len(g.fed)
  BY <1>1, HistoryFolds
<1> HIDE DEF g, h
<1>6. fold' \in [Symbols -> FoldRecord] /\ \A x \in Symbols : (fold')[x].history <= Len((fold')[x].fed)
  BY <1>1, <1>2, <1>5, MorningParts
<1>7. bars' = [x \in Symbols |-> (bars')[x]] /\ \A x \in Symbols : CacheHolds((bars')[x], x)
  <2>1. bars = [x \in Symbols |-> bars[x]] /\ \A x \in Symbols : CacheHolds(bars[x], x)
    BY <1>2, MorningParts
  <2> QED BY <1>1, <1>5, <2>1
<1> QED BY <1>1, <1>2, <1>3, <1>6, <1>7, MorningParts, MorningStep

(***************************************************************************)
(* The cycle keeps the invariant.                                           *)
(***************************************************************************)
\* A step of the ingestion that confirms nothing, and forgets no session that lasts.
LEMMA IngestStep ==
  ASSUME BarsInv, UNCHANGED <<clock, feed, split, signals, parity>>,
         run.pc \in Ingest \cup {"reconcile"},
         run' \in RunRecord, run'.pc \in Ingest, run'.exp = clock, run'.confs = run.confs,
         bars' = [s \in Symbols |-> (bars')[s]], \A s \in Symbols : CacheHolds((bars')[s], s),
         fold' \in [Symbols -> FoldRecord],
         \A s \in Symbols : /\ (fold')[s].history <= Len((fold')[s].fed)
                            /\ Day(clock) \in fold[s].signaled => Day(clock) \in (fold')[s].signaled
  PROVE  BarsInv'
<1>1. BarsType'
  BY DEF BarsInv, BarsType, CacheHolds
<1>2. RunHolds'
  BY DEF BarsInv, RunHolds, Morning, Ingest
<1>3. SessionOpen
  BY DEF SessionOpen
<1>4. SignalsMarked' /\ Unrecorded' /\ OneSignalPerSession'
  BY <1>3, QuietStep
<1> QED BY <1>1, <1>2, <1>4 DEF BarsInv

\* What a step of the ingestion finds.
LEMMA IngestParts ==
  ASSUME BarsInv, run.pc \in Ingest \cup {"reconcile"}
  PROVE  /\ run \in RunRecord /\ clock \in 1..LastSlot /\ (run.pc \in Ingest => run.exp = clock)
         /\ bars = [s \in Symbols |-> bars[s]] /\ \A s \in Symbols : CacheHolds(bars[s], s)
         /\ fold \in [Symbols -> FoldRecord]
         /\ \A s \in Symbols : fold[s].history <= Len(fold[s].fed)
BY DEF BarsInv, BarsType, RunHolds

\* A cycle starts.
LEMMA StartCycleInv == ASSUME BarsInv, StartCycle PROVE BarsInv'
<1>1. /\ run.pc = "idle" /\ ~BetweenSessions
      /\ UNCHANGED <<clock, feed, split, bars, fold, parity, signals>>
      /\ BarsType /\ RunHolds
  BY DEF StartCycle, BarsInv
<1>2. run' = [pc |-> "reconcile", exp |-> 0, todo |-> {}, written |-> {},
              confs |-> {}, started |-> TRUE]
  BY DEF StartCycle, Idle
<1>3. 0 \in 0..LastSlot
  BY BarConstants
<1>4. run' \in RunRecord /\ run'.pc = "reconcile" /\ run'.confs = {}
  BY <1>2, <1>3 DEF RunRecord
<1>5. BarsType'
  BY <1>1, <1>4 DEF BarsType, CacheHolds
<1>6. RunHolds' /\ SessionOpen
  BY <1>1, <1>4 DEF RunHolds, Morning, Ingest, SessionOpen
<1>7. SignalsMarked' /\ Unrecorded' /\ OneSignalPerSession'
  BY <1>1, <1>4, <1>6, QuietStep
<1> QED BY <1>5, <1>6, <1>7 DEF BarsInv

\* The expected bar is read off the clock.
LEMMA ExpectBarInv == ASSUME BarsInv, ExpectBar PROVE BarsInv'
<1>1. /\ run.pc = "reconcile"
      /\ run' = [run EXCEPT !.pc = IF Ingesting = {} THEN "record" ELSE "backfill",
                            !.exp = clock, !.todo = Ingesting]
      /\ UNCHANGED <<clock, feed, split, bars, fold, parity, signals>>
  BY DEF ExpectBar
<1>2. run \in RunRecord /\ clock \in 0..LastSlot /\ Ingesting \in SUBSET Symbols
  BY <1>1, IngestParts, BarConstants DEF Ingesting
<1>3. run' \in RunRecord /\ run'.pc \in Ingest /\ run'.exp = clock /\ run'.confs = run.confs
  BY <1>1, <1>2 DEF RunRecord, Ingest
<1> QED BY <1>1, <1>3, IngestParts, IngestStep

\* The backfill of one symbol.
LEMMA BackfillInv == ASSUME BarsInv, NEW s \in Symbols, Backfill(s) PROVE BarsInv'
<1> DEFINE new == Fetched(s, BackfillFrom(s, run.exp - 1), run.exp - 1)
           next == Done(s, "catchup")
<1>1. /\ run.pc = "backfill" /\ UNCHANGED <<clock, feed, split, fold, parity, signals>>
      /\ bars' = bars \/ bars' = [bars EXCEPT ![s] = Merged(bars[s], new)]
      /\ \E w, d \in SUBSET Symbols : run' = [next EXCEPT !.written = w, !.todo = d]
  <2>1. run.pc = "backfill" /\ UNCHANGED <<clock, feed, split, fold, parity, signals>>
    BY DEF Backfill
  <2>2. next \in RunRecord /\ Ingesting \in SUBSET Symbols
    BY <2>1, DoneParts, IngestParts DEF Ingest, Ingesting
  <2>3. next.written \in SUBSET Symbols /\ next.todo \in SUBSET Symbols
    BY <2>2 DEF RunRecord
  <2> HIDE DEF next
  <2>4. next = [next EXCEPT !.written = next.written]
    BY <2>2 DEF RunRecord
  <2> DEFINE w == IF new = <<>> THEN next.written ELSE next.written \cup {s}
             d == IF run.todo = {s} THEN Ingesting ELSE next.todo
  <2>5. \/ bars' = [bars EXCEPT ![s] = Merged(bars[s], new)]
           /\ run' = [next EXCEPT !.written = w, !.todo = d]
        \/ bars' = bars /\ run' = [next EXCEPT !.todo = d]
    BY DEF Backfill, next
  <2>6. w \in SUBSET Symbols /\ d \in SUBSET Symbols
    BY <2>2, <2>3
  <2> HIDE DEF w, d, new
  <2>7. [next EXCEPT !.todo = d] = [next EXCEPT !.written = next.written, !.todo = d]
    BY <2>2 DEF RunRecord
  <2> QED BY <2>1, <2>3, <2>5, <2>6, <2>7
<1>2. run.pc \in Ingest /\ "catchup" \in Ingest
  BY <1>1 DEF Ingest
<1>3. run' \in RunRecord /\ run'.pc \in Ingest /\ run'.exp = clock /\ run'.confs = run.confs
  <2>1. next \in RunRecord /\ next.pc \in Ingest /\ next.exp = clock /\ next.confs = run.confs
    BY <1>2, DoneParts, IngestParts
  <2> HIDE DEF next
  <2> QED BY <1>1, <2>1 DEF RunRecord
<1>4. bars' = [x \in Symbols |-> (bars')[x]] /\ \A x \in Symbols : CacheHolds((bars')[x], x)
  <2>1. bars = [x \in Symbols |-> bars[x]] /\ \A x \in Symbols : CacheHolds(bars[x], x)
    BY <1>2, IngestParts
  <2>2. CacheHolds(Merged(bars[s], new), s)
    BY <2>1, FetchedBars, MergedBars
  <2> HIDE DEF new
  <2> QED BY <1>1, <2>1, <2>2
<1> HIDE DEF new, next
<1> QED BY <1>1, <1>2, <1>3, <1>4, IngestParts, IngestStep

\* The fold catches up on what was backfilled, and forgets no session that lasts.
LEMMA CatchUpInv == ASSUME BarsInv, NEW s \in Symbols, CatchUp(s) PROVE BarsInv'
<1> DEFINE seq == IF s \in run.written THEN Unfolded(s, run.exp - 1) ELSE <<>>
<1>1. /\ run.pc = "catchup" /\ run' = Done(s, "fetch")
      /\ UNCHANGED <<clock, feed, split, bars, parity, signals>>
      /\ BarsType
  BY DEF CatchUp, BarsInv
<1>2. run.pc \in Ingest /\ "fetch" \in Ingest
  BY <1>1 DEF Ingest
<1>3. run' \in RunRecord /\ run'.pc \in Ingest /\ run'.exp = clock /\ run'.confs = run.confs
  BY <1>1, <1>2, DoneParts, IngestParts
<1>4. PICK sessions \in SUBSET SessionsOf(seq) :
        fold' = [fold EXCEPT ![s] = FedWith(fold[s], seq, sessions)]
  BY DEF CatchUp
<1>5. /\ seq \in Seq(Bar) /\ \A x \in Range(seq) : x.slot \in 1..clock
  <2>1. run.exp - 1 \in Int
    BY <1>2, IngestParts
  <2>2. \A x \in Range(<<>>) : FALSE
    BY DEF Range
  <2> QED BY <1>1, <2>1, <2>2, UnfoldedBars
<1> DEFINE g == FedWith(fold[s], seq, sessions)
<1>6. /\ g \in FoldRecord /\ g.history <= Len(g.fed)
      /\ \A d : d \in g.signaled <=> /\ d \in fold[s].signaled \cup sessions
                                     /\ \A x \in Range(seq) : d >= Day(x.slot)
  <2>1. fold[s] \in FoldRecord /\ fold[s].history <= Len(fold[s].fed)
    BY <1>2, IngestParts
  <2>2. Len(fold[s].fed) \in Nat /\ Len(seq) \in Nat /\ fold[s].history \in Nat
    BY <1>5, <2>1 DEF FoldRecord
  <2> HIDE DEF seq
  <2>3. /\ g \in FoldRecord /\ g.history = fold[s].history
        /\ Len(g.fed) = Len(fold[s].fed) + Len(seq)
        /\ \A d : d \in g.signaled <=> /\ d \in fold[s].signaled \cup sessions
                                       /\ \A x \in Range(seq) : d >= Day(x.slot)
    BY <1>4, <1>5, <2>1, FedParts
  <2> HIDE DEF g
  <2> QED BY <2>1, <2>2, <2>3
<1>7. Day(clock) \in fold[s].signaled => Day(clock) \in g.signaled
  <2>1. \A x \in Range(seq) : Day(clock) >= Day(x.slot)
    <3>1. ASSUME NEW x \in Range(seq) PROVE Day(clock) >= Day(x.slot)
      <4>1. x.slot \in Nat \ {0} /\ clock \in Nat \ {0} /\ x.slot <= clock
        BY <1>2, <1>5, IngestParts
      <4>2. Day(x.slot) <= Day(clock) /\ Day(x.slot) \in Nat /\ Day(clock) \in Nat
        BY <4>1, Days
      <4> QED BY <4>2
    <3> QED BY <3>1
  <2> HIDE DEF g, seq
  <2> QED BY <1>6, <2>1
<1>8. fold' = [fold EXCEPT ![s] = g]
  BY <1>4
<1> HIDE DEF g, seq
<1>9. /\ fold' \in [Symbols -> FoldRecord]
      /\ \A x \in Symbols : /\ (fold')[x].history <= Len((fold')[x].fed)
                            /\ Day(clock) \in fold[x].signaled => Day(clock) \in (fold')[x].signaled
  BY <1>2, <1>6, <1>7, <1>8, IngestParts
<1> QED BY <1>1, <1>2, <1>3, <1>9, IngestParts, IngestStep

\* The fetch of the expected bar.
LEMMA FetchExpectedInv == ASSUME BarsInv, FetchExpected PROVE BarsInv'
<1>1. /\ run.pc = "fetch"
      /\ UNCHANGED <<clock, feed, split, bars, fold, parity, signals>>
      /\ \E found \in SUBSET Symbols :
           run' = [run EXCEPT !.pc = IF found = {} THEN "record" ELSE "persist", !.todo = found]
  <2>1. /\ run.pc = "fetch" /\ UNCHANGED <<clock, feed, split, bars, fold, parity, signals>>
    BY DEF FetchExpected
  <2>2. PICK missed : run' = LET found == {s \in Ingesting : run.exp \in feed[s]} \ missed IN
          [run EXCEPT !.pc = IF found = {} THEN "record" ELSE "persist", !.todo = found]
    BY DEF FetchExpected
  <2>3. {s \in Ingesting : run.exp \in feed[s]} \ missed \in SUBSET Symbols
    BY DEF Ingesting
  <2> QED BY <2>1, <2>2, <2>3
<1>2. run.pc \in Ingest
  BY <1>1 DEF Ingest
<1>3. run' \in RunRecord /\ run'.pc \in Ingest /\ run'.exp = clock /\ run'.confs = run.confs
  BY <1>1, <1>2, IngestParts DEF RunRecord, Ingest
<1> QED BY <1>1, <1>2, <1>3, IngestParts, IngestStep

\* The expected bar is written.
LEMMA PersistInv == ASSUME BarsInv, NEW s \in Symbols, Persist(s) PROVE BarsInv'
<1> DEFINE new == Fetched(s, run.exp, run.exp)
<1>1. /\ run.pc = "persist" /\ UNCHANGED <<clock, feed, split, fold, parity, signals>>
      /\ bars' = [bars EXCEPT ![s] = Merged(bars[s], new)]
      /\ run' = [run EXCEPT !.pc = "process", !.written = {s}]
  BY DEF Persist
<1>2. run.pc \in Ingest
  BY <1>1 DEF Ingest
<1>3. run' \in RunRecord /\ run'.pc \in Ingest /\ run'.exp = clock /\ run'.confs = run.confs
  <2> HIDE DEF new
  <2> QED BY <1>1, <1>2, IngestParts DEF RunRecord, Ingest
<1>4. bars' = [x \in Symbols |-> (bars')[x]] /\ \A x \in Symbols : CacheHolds((bars')[x], x)
  <2>1. bars = [x \in Symbols |-> bars[x]] /\ \A x \in Symbols : CacheHolds(bars[x], x)
    BY <1>2, IngestParts
  <2>2. CacheHolds(Merged(bars[s], new), s)
    BY <2>1, FetchedBars, MergedBars
  <2> HIDE DEF new
  <2> QED BY <1>1, <2>1, <2>2
<1> HIDE DEF new
<1> QED BY <1>1, <1>2, <1>3, <1>4, IngestParts, IngestStep

\* The expected bar is folded.  It confirms a signal only if the session has none yet,
\* and then the session is marked in the same transaction.
LEMMA ProcessInv == ASSUME BarsInv, NEW s \in Symbols, Process(s) PROVE BarsInv'
<1> DEFINE x0 == [slot |-> run.exp, scale |-> Scale(s)]
           seq == <<x0>>
           today == Day(run.exp)
           next == Done(s, "record")
<1>1. /\ run.pc = "process" /\ UNCHANGED <<clock, feed, split, bars, parity, signals>>
      /\ BarsType /\ RunHolds /\ SignalsMarked /\ Unrecorded /\ OneSignalPerSession
  BY DEF Process, BarsInv
<1>2. run.pc \in Ingest /\ "record" \in Ingest
  BY <1>1 DEF Ingest
<1>3. PICK confirms \in BOOLEAN :
        /\ confirms => today \notin fold[s].signaled
        /\ fold' = [fold EXCEPT ![s] = FedWith(fold[s], seq, IF confirms THEN {today} ELSE {})]
        /\ run' = [next EXCEPT !.written = {},
                     !.pc = IF run.todo = {s} THEN "record" ELSE "persist",
                     !.confs = IF confirms THEN next.confs \cup {Confirmation(s, run.exp)}
                                           ELSE next.confs]
  BY DEF Process
<1>4. /\ run.exp = clock /\ clock \in Slots /\ today = Day(clock) /\ today \in Int
      /\ run \in RunRecord /\ fold \in [Symbols -> FoldRecord]
      /\ \A y \in Symbols : fold[y].history <= Len(fold[y].fed)
  <2>1. run.exp = clock /\ clock \in Slots
    BY <1>2, IngestParts DEF Slots
  <2>2. Day(clock) \in 0..Day(LastSlot)
    BY <2>1, DayRange
  <2>3. LastSlot \in Nat \ {0} /\ LastSlot <= LastSlot
    BY BarConstants
  <2>4. Day(LastSlot) \in Nat
    BY <2>3, Days
  <2> QED BY <1>2, <2>1, <2>2, <2>4, IngestParts
<1>5. /\ run' \in RunRecord /\ run'.pc \in Ingest /\ run'.exp = clock
      /\ run'.confs = IF confirms THEN run.confs \cup {[symbol |-> s, slot |-> clock]} ELSE run.confs
  <2>1. next \in RunRecord /\ next.exp = clock /\ next.confs = run.confs
    BY <1>2, <1>4, DoneParts
  <2>2. Confirmation(s, run.exp) = [symbol |-> s, slot |-> clock]
    BY <1>4 DEF Confirmation
  <2>3. [symbol |-> s, slot |-> clock] \in [symbol : Symbols, slot : Slots]
    BY <1>4
  <2> HIDE DEF next, seq
  <2> QED BY <1>3, <2>1, <2>2, <2>3 DEF RunRecord, Ingest
<1> DEFINE sessions == IF confirms THEN {today} ELSE {}
           g == FedWith(fold[s], seq, sessions)
<1>6. seq \in Seq(Bar) /\ \A x \in Range(seq) : x = x0
  <2>1. Scale(s) \in {0, 1}
    BY DEF Scale
  <2>2. x0 \in Bar
    BY <1>4, <2>1 DEF Bar
  <2> HIDE DEF x0
  <2> QED BY <2>2 DEF Range
<1>7. sessions \subseteq SessionsOf(seq)
  <2>1. seq[1] = x0 /\ 1 \in DOMAIN seq /\ x0.slot = run.exp
    OBVIOUS
  <2> QED BY <2>1 DEF SessionsOf, Range
<1>8. /\ g \in FoldRecord /\ g.history <= Len(g.fed)
      /\ \A d : d \in g.signaled <=> /\ d \in fold[s].signaled \cup sessions
                                     /\ \A x \in Range(seq) : d >= Day(x.slot)
  <2>1. fold[s] \in FoldRecord /\ fold[s].history <= Len(fold[s].fed)
    BY <1>4
  <2>2. Len(fold[s].fed) \in Nat /\ Len(seq) \in Nat /\ fold[s].history \in Nat
    BY <1>6, <2>1 DEF FoldRecord
  <2> HIDE DEF seq, sessions
  <2>3. /\ g \in FoldRecord /\ g.history = fold[s].history
        /\ Len(g.fed) = Len(fold[s].fed) + Len(seq)
        /\ \A d : d \in g.signaled <=> /\ d \in fold[s].signaled \cup sessions
                                       /\ \A x \in Range(seq) : d >= Day(x.slot)
    BY <1>6, <1>7, <2>1, FedParts
  <2> HIDE DEF g
  <2> QED BY <2>1, <2>2, <2>3
<1>9. Day(clock) \in fold[s].signaled \cup sessions => Day(clock) \in g.signaled
  <2>1. \A x \in Range(seq) : Day(clock) >= Day(x.slot)
    <3>1. x0.slot = clock
      BY <1>4
    <3> HIDE DEF x0, seq
    <3> QED BY <1>4, <1>6, <3>1
  <2> HIDE DEF g, seq, sessions
  <2> QED BY <1>8, <2>1
<1>10. fold' = [fold EXCEPT ![s] = g]
  BY <1>3
<1>11. confirms => Day(clock) \in sessions /\ Day(clock) \notin fold[s].signaled
  BY <1>3, <1>4
<1> HIDE DEF g, seq, sessions, today, next, x0
<1>12. /\ fold' \in [Symbols -> FoldRecord]
       /\ \A x \in Symbols : /\ (fold')[x].history <= Len((fold')[x].fed)
                             /\ Day(clock) \in fold[x].signaled => Day(clock) \in (fold')[x].signaled
       /\ confirms => Day(clock) \in (fold')[s].signaled
  BY <1>4, <1>8, <1>9, <1>10, <1>11
<1>13. BarsType'
  BY <1>1, <1>5, <1>12 DEF BarsType, CacheHolds
<1>14. RunHolds'
  <2>1. \A c \in run'.confs : c.slot = clock
    BY <1>1, <1>5 DEF RunHolds
  <2> QED BY <1>1, <1>5, <2>1 DEF RunHolds, Morning, Ingest
<1>15. /\ \A x \in signals : x.symbol \in Symbols
       /\ \A c \in run.confs : c.symbol \in Symbols
       /\ SessionOpen
  BY <1>1, <1>2, <1>4 DEF BarsType, RunRecord, SessionOpen
<1>16. SignalsMarked'
  <2>1. \A x \in signals : Day(x.slot) = Day(clock) => Day(clock) \in (fold')[x.symbol].signaled
    BY <1>1, <1>12, <1>15 DEF SignalsMarked
  <2>2. ASSUME NEW c \in run'.confs PROVE Day(clock) \in (fold')[c.symbol].signaled
    <3>1. CASE c \in run.confs
      BY <1>1, <1>12, <1>15, <3>1 DEF SignalsMarked
    <3>2. CASE c \notin run.confs
      <4>1. confirms /\ c.symbol = s
        BY <1>5, <2>2, <3>2
      <4> QED BY <1>12, <4>1
    <3> QED BY <3>1, <3>2
  <2> QED BY <1>1, <2>1, <2>2 DEF SignalsMarked
<1>17. Unrecorded'
  <2>1. ASSUME NEW x \in signals, NEW c \in run'.confs,
               x.symbol = c.symbol, Day(x.slot) = Day(c.slot)
        PROVE  FALSE
    <3>1. c \notin run.confs
      BY <1>1, <2>1 DEF Unrecorded
    <3>2. confirms /\ c.symbol = s /\ c.slot = clock
      BY <1>5, <2>1, <3>1
    <3>3. Day(clock) \in fold[s].signaled
      BY <1>1, <1>15, <2>1, <3>2 DEF SignalsMarked
    <3> QED BY <1>11, <3>2, <3>3
  <2> QED BY <1>1, <2>1 DEF Unrecorded
<1>18. OneSignalPerSession'
  BY <1>1 DEF OneSignalPerSession
<1> QED BY <1>13, <1>14, <1>16, <1>17, <1>18 DEF BarsInv

\* What the cycle confirmed goes on record.
LEMMA RecordSignalsInv == ASSUME BarsInv, RecordSignals PROVE BarsInv'
<1> DEFINE row(c) == [symbol |-> c.symbol, slot |-> c.slot, entered |-> parity = Today]
<1>1. /\ run.pc = "record" /\ run' = Stop
      /\ UNCHANGED <<clock, feed, split, bars, fold, parity>>
      /\ \A x \in signals' : x \in signals \/ \E c \in run.confs : x = row(c)
      /\ BarsType /\ RunHolds /\ SignalsMarked /\ Unrecorded /\ OneSignalPerSession
  BY DEF RecordSignals, BarsInv
<1>2. run' \in RunRecord /\ run'.pc = "idle" /\ run'.confs = {}
  BY <1>1, StopParts DEF BarsType
<1>3. \A c \in run.confs : c.symbol \in Symbols /\ c.slot = clock /\ clock \in 1..clock
  BY <1>1 DEF BarsType, RunRecord, RunHolds
<1>4. \A x \in signals' : \/ x \in signals
                          \/ \E c \in run.confs : x.symbol = c.symbol /\ x.slot = c.slot /\ x = row(c)
  BY <1>1
<1>5. BarsType'
  <2>1. \A c \in run.confs : row(c) \in [symbol : Symbols, slot : 1..clock, entered : BOOLEAN]
    BY <1>3
  <2> HIDE DEF row
  <2>2. signals' \in SUBSET [symbol : Symbols, slot : 1..clock, entered : BOOLEAN]
    BY <1>1, <2>1 DEF BarsType
  <2> QED BY <1>1, <1>2, <2>2 DEF BarsType, CacheHolds
<1>6. RunHolds'
  BY <1>1, <1>2 DEF RunHolds, Morning, Ingest
<1> HIDE DEF row
<1>7. SignalsMarked'
  <2>1. SessionOpen
    BY <1>1 DEF SessionOpen, Ingest
  <2>2. ASSUME NEW x \in signals', Day(x.slot) = Day(clock)
        PROVE  Day(clock) \in fold[x.symbol].signaled
    BY <1>1, <1>4, <2>1, <2>2 DEF SignalsMarked
  <2> QED BY <1>1, <1>2, <2>2 DEF SignalsMarked
<1>8. Unrecorded'
  BY <1>2 DEF Unrecorded
<1>9. OneSignalPerSession'
  <2>1. ASSUME NEW x \in signals', NEW y \in signals',
               x.symbol = y.symbol, Day(x.slot) = Day(y.slot)
        PROVE  x = y
    <3>1. CASE x \in signals /\ y \in signals
      BY <1>1, <2>1, <3>1 DEF OneSignalPerSession
    <3>2. CASE x \in signals /\ y \notin signals
      BY <1>1, <1>4, <2>1, <3>2 DEF Unrecorded
    <3>3. CASE x \notin signals /\ y \in signals
      BY <1>1, <1>4, <2>1, <3>3 DEF Unrecorded
    <3>4. CASE x \notin signals /\ y \notin signals
      <4>1. PICK c \in run.confs, d \in run.confs :
              /\ x = row(c) /\ y = row(d) /\ x.symbol = c.symbol /\ y.symbol = d.symbol
        BY <1>4, <2>1, <3>4
      <4>2. row(c) = row(d)
        BY <1>3, <2>1, <4>1 DEF row
      <4> QED BY <4>1, <4>2
    <3> QED BY <3>1, <3>2, <3>3, <3>4
  <2> QED BY <2>1 DEF OneSignalPerSession
<1> QED BY <1>5, <1>6, <1>7, <1>8, <1>9 DEF BarsInv

(***************************************************************************)
(* The theorems.                                                            *)
(***************************************************************************)
\* The store starts empty, or with one bootstrapped session.
LEMMA InitBars == ASSUME Init PROVE BarsInv
<1>1. /\ clock = SlotsPerDay /\ split = [s \in Symbols |-> 0] /\ parity = 0 /\ signals = {}
      /\ run = Idle
  BY DEF Init
<1>2. clock \in 1..LastSlot /\ 0 \in 0..LastSlot
  BY <1>1, BarConstants
<1>3. feed \in [Symbols -> SUBSET (1..clock)]
  BY <1>1 DEF Init
<1>4. run = [pc |-> "idle", exp |-> 0, todo |-> {}, written |-> {}, confs |-> {}, started |-> FALSE]
  BY <1>1 DEF Idle
<1>5. run \in RunRecord /\ run.pc = "idle" /\ run.confs = {}
  BY <1>2, <1>4 DEF RunRecord
<1>6. /\ bars = [s \in Symbols |-> bars[s]] /\ \A s \in Symbols : CacheHolds(bars[s], s)
      /\ fold \in [Symbols -> FoldRecord] /\ \A s \in Symbols : fold[s].history <= Len(fold[s].fed)
  <2>1. CASE bars = [s \in Symbols |-> <<>>] /\ fold = [s \in Symbols |-> NoFold]
    <3>1. NoFold \in FoldRecord /\ NoFold.history <= Len(NoFold.fed)
      BY DEF NoFold, FoldRecord
    <3> HIDE DEF NoFold
    <3> QED BY <2>1, <3>1 DEF CacheHolds
  <2>2. CASE /\ bars = [s \in Symbols |-> [t \in feed[s] |-> 0]]
             /\ fold = [s \in Symbols |-> Bootstrapped(bars[s])]
    <3>1. \A s \in Symbols : feed[s] \in SUBSET Slots
      BY <1>2, <1>3, BarConstants DEF Slots
    <3>2. ASSUME NEW s \in Symbols
          PROVE  /\ CacheHolds(bars[s], s)
                 /\ Bootstrapped(bars[s]) \in FoldRecord
                 /\ Bootstrapped(bars[s]).history <= Len(Bootstrapped(bars[s]).fed)
      <4>1. DOMAIN bars[s] \in SUBSET Slots /\ \A t \in DOMAIN bars[s] : bars[s][t] \in {0, 1}
        BY <2>2, <3>1
      <4>2. CacheHolds(bars[s], s)
        BY <2>2 DEF CacheHolds
      <4>3. TRUE \in BOOLEAN
        OBVIOUS
      <4> QED BY <4>1, <4>2, <4>3, BootParts
    <3>3. bars = [s \in Symbols |-> bars[s]]
      BY <2>2
    <3> QED BY <2>2, <3>2, <3>3
  <2> QED BY <2>1, <2>2 DEF Init
<1>7. BarsType
  BY <1>1, <1>2, <1>3, <1>5, <1>6 DEF BarsType
<1>8. RunHolds /\ SignalsMarked /\ Unrecorded /\ OneSignalPerSession
  BY <1>1, <1>5 DEF RunHolds, SignalsMarked, Unrecorded, OneSignalPerSession, Morning, Ingest
<1> QED BY <1>7, <1>8 DEF BarsInv

\* What a fold has forgotten is over, through crashes between any two transactions,
\* rebuilds and late bars.
THEOREM BarsInvariant == Spec => []BarsInv
<1>1. ASSUME BarsInv, [Next]_vars PROVE BarsInv'
  <2>1. CASE PreflightStep
    <3>1. CASE Candidates \/ RecordParity
      BY <1>1, <3>1, PreflightEndsInv
    <3>2. ASSUME NEW s \in Symbols, Bootstrap(s) \/ Detect(s) \/ Rebuild(s) PROVE BarsInv'
      BY <1>1, <3>2, BootstrapInv, DetectInv, RebuildInv
    <3> QED BY <2>1, <3>1, <3>2 DEF PreflightStep
  <2>2. CASE CycleStep
    <3>1. CASE ExpectBar \/ FetchExpected \/ RecordSignals
      BY <1>1, <3>1, ExpectBarInv, FetchExpectedInv, RecordSignalsInv
    <3>2. ASSUME NEW s \in Symbols, Backfill(s) \/ CatchUp(s) \/ Persist(s) \/ Process(s)
          PROVE  BarsInv'
      BY <1>1, <3>2, BackfillInv, CatchUpInv, PersistInv, ProcessInv
    <3> QED BY <2>2, <3>1, <3>2 DEF CycleStep
  <2>3. CASE Tick \/ Crash \/ StartPreflight \/ StartCycle
    BY <1>1, <2>3, TickInv, CrashInv, PreflightEndsInv, StartCycleInv
  <2>4. ASSUME NEW s \in Symbols, DeliverLate(s) \/ SplitOvernight(s) PROVE BarsInv'
    BY <1>1, <2>4, DeliverLateInv, SplitInv
  <2>5. CASE UNCHANGED vars
    BY <1>1, <2>5 DEF vars, BarsInv, BarsType, CacheHolds, RunHolds, SignalsMarked, SessionOpen,
                      BetweenSessions, Unrecorded, OneSignalPerSession
  <2> QED BY <1>1, <2>1, <2>2, <2>3, <2>4, <2>5 DEF Next
<1> QED BY <1>1, InitBars, PTL DEF Spec

\* What the looks for a split have come to is set by them alone, and by the split.
LookType == look \in [Symbols -> {"none", "found", "missed"}]
LEMMA LooksKnown == Spec => []LookType
<1>1. Init => LookType
  BY DEF Init, LookType
<1>2. ASSUME LookType, [Next]_vars PROVE LookType'
  <2>1. ASSUME NEW s \in Symbols, SplitOvernight(s) PROVE LookType'
    BY <1>2, <2>1 DEF SplitOvernight, LookType
  <2>2. ASSUME NEW s \in Symbols, Detect(s) PROVE LookType'
    <3>1. \E v : look' = [look EXCEPT ![s] = Looked(s, v)]
      BY <2>2 DEF Detect
    <3>2. \A v : Looked(s, v) \in {"none", "found", "missed"}
      BY <1>2 DEF Looked, LookType
    <3> QED BY <1>2, <3>1, <3>2 DEF LookType
  <2>3. CASE UNCHANGED look
    BY <1>2, <2>3 DEF LookType
  <2>4. UNCHANGED look \/ \E s \in Symbols : SplitOvernight(s) \/ Detect(s)
    BY <1>2 DEF Next, vars, PreflightStep, CycleStep, Tick, Crash, StartPreflight, StartCycle,
                Candidates, RecordParity, Bootstrap, Rebuild, ExpectBar, FetchExpected,
                RecordSignals, Backfill, CatchUp, Persist, Process, DeliverLate
  <2> QED BY <2>1, <2>2, <2>3, <2>4
<1> QED BY <1>1, <1>2, PTL DEF Spec

\* The bar cache and its folds are type correct, for any symbols and calendars.
THEOREM BarsTypes == Spec => []TypeOK
<1>1. BarsInv /\ LookType => TypeOK
  <2> SUFFICES ASSUME BarsType, LookType PROVE TypeOK
    BY DEF BarsInv
  <2>1. ASSUME NEW s \in Symbols
        PROVE  /\ DOMAIN bars[s] \subseteq feed[s] /\ Range(bars[s]) \subseteq {0, 1}
               /\ Range(fold[s].fed) \subseteq Bar
               /\ fold[s].signaled \subseteq 0..Day(LastSlot)
               /\ fold[s].history \in 0..Len(fold[s].fed)
               /\ fold[s].bootstrapped \in BOOLEAN /\ fold[s].pending \in BOOLEAN
    <3>1. fold[s] \in FoldRecord /\ fold[s].history <= Len(fold[s].fed) /\ CacheHolds(bars[s], s)
      BY DEF BarsType
    <3>2. Range(bars[s]) \subseteq {0, 1} /\ DOMAIN bars[s] \subseteq feed[s]
      BY <3>1 DEF CacheHolds, Range
    <3>3. Range(fold[s].fed) \subseteq Bar /\ fold[s].history \in 0..Len(fold[s].fed)
      BY <3>1 DEF FoldRecord, Range
    <3> QED BY <3>1, <3>2, <3>3 DEF FoldRecord
  <2>2. 1..clock \subseteq Slots /\ clock \in 0..LastSlot
    BY BarConstants DEF BarsType, Slots
  <2>3. feed \in [Symbols -> SUBSET Slots]
    BY <2>2 DEF BarsType
  <2>4. \A x \in signals : x.symbol \in Symbols /\ x.slot \in Slots /\ x.entered \in BOOLEAN
    BY <2>2 DEF BarsType
  <2>5. run.todo \subseteq Symbols /\ run.written \subseteq Symbols
    BY DEF BarsType, RunRecord
  <2>6. split \in [Symbols -> 0..LastSlot] /\ parity \in 0..LastSlot
    BY DEF BarsType
  <2> QED BY <2>1, <2>2, <2>3, <2>4, <2>5, <2>6 DEF TypeOK, LookType
<1> QED BY <1>1, BarsInvariant, LooksKnown, PTL

\* One signal a session and symbol, whatever crashed, came late, was split or was
\* folded twice on the way.
THEOREM OneSignalASession == Spec => []OneSignalPerSession
<1>1. BarsInv => OneSignalPerSession
  BY DEF BarsInv
<1> QED BY <1>1, BarsInvariant, PTL

(***************************************************************************)
(* The fold keeps up with the cache, as long as no process dies.            *)
(***************************************************************************)
FedSlots(f) == {x.slot : x \in Range(f.fed)}

\* Of the rows none is passed over, and the newest bar folded since the bootstrap
\* is one of them.
Whole(rows, f) ==
  /\ \A t \in DOMAIN rows : t > Begin(f) /\ t < LastFed(f) => t \in FedSlots(f)
  /\ LastFed(f) > Begin(f) => LastFed(f) \in DOMAIN rows

\* The rows that are not folded yet are in the hand of the running cycle.
Behind(rows, f) == {t \in DOMAIN rows : t > LastFed(f)}
InHand ==
  /\ run.pc = "reconcile" => run.written = {}
  /\ run.pc = "backfill" => run.written \cup run.todo \subseteq Ingesting
  /\ run.pc \in {"persist", "process"} => \A s \in run.todo : run.exp \in feed[s]
  /\ run.pc = "process" => \A s \in run.written : s \in run.todo /\ run.exp \in DOMAIN bars[s]
  /\ \A s \in Symbols : \A t \in Behind(bars[s], fold[s]) :
       \/ run.pc = "backfill" /\ s \in run.written /\ t < run.exp
       \/ run.pc = "catchup" /\ s \in run.written \cap run.todo /\ t < run.exp
       \/ run.pc = "process" /\ s \in run.written /\ t = run.exp

Rows(b) == b = [t \in DOMAIN b |-> b[t]]
FaultCount == [{"crash", "fetch", "slow"} -> 0..1]
CacheInv ==
  /\ faults \in FaultCount
  /\ \A s \in Symbols : Rows(bars[s])
  /\ faults.crash = 0 =>
       InHand /\ \A s \in Symbols : Whole(bars[s], fold[s]) /\ LastFed(fold[s]) \in 0..clock

\* Bars in order have exactly the slots of the rows, the last of them last.
LEMMA InOrderSlots ==
  ASSUME NEW b, DOMAIN b \in SUBSET Slots, \A t \in DOMAIN b : b[t] \in {0, 1}
  PROVE  LET q == InOrder(b) IN
         /\ {x.slot : x \in Range(q)} = DOMAIN b
         /\ DOMAIN b # {} => /\ Len(q) > 0 /\ q[Len(q)].slot \in DOMAIN b
                             /\ \A t \in DOMAIN b : t <= q[Len(q)].slot
<1> DEFINE S == DOMAIN b
           n == Cardinality(S)
           U(t) == {u \in S : u <= t}
           at(i) == CHOOSE t \in S : Cardinality(U(t)) = i
           q == InOrder(b)
<1>1. IsFiniteSet(S) /\ n \in Nat /\ S \subseteq Int
  <2>1. IsFiniteSet(Slots) /\ Slots \subseteq Int
    BY FS_Interval, BarConstants DEF Slots
  <2>2. IsFiniteSet(S)
    BY <2>1, FS_Subset
  <2> QED BY <2>1, <2>2, FS_CardinalityType
<1>2. q \in Seq(Bar) /\ Len(q) = n /\ \A i \in 1..n : q[i].slot = at(i)
  <2> DEFINE bar(i) == [slot |-> at(i), scale |-> b[at(i)]]
  <2>1. q = [i \in 1..n |-> bar(i)]
    BY DEF InOrder
  <2>2. q \in Seq(Bar) /\ Len(q) = n
    BY InOrderBars
  <2> HIDE DEF at
  <2>3. \A i \in 1..n : bar(i).slot = at(i)
    OBVIOUS
  <2> HIDE DEF bar, n, q
  <2> QED BY <2>1, <2>2, <2>3
<1>3. \A i \in 1..n : at(i) \in S /\ Cardinality(U(at(i))) = i
  BY RankTaken
<1>4. \A t \in S : IsFiniteSet(U(t)) /\ U(t) \in SUBSET S /\ Cardinality(U(t)) \in 1..n
  <2>1. ASSUME NEW t \in S PROVE IsFiniteSet(U(t)) /\ U(t) \in SUBSET S /\ Cardinality(U(t)) \in 1..n
    <3>1. U(t) \in SUBSET S /\ t \in U(t)
      BY <1>1
    <3> HIDE DEF U, S
    <3>2. IsFiniteSet(U(t)) /\ Cardinality(U(t)) \in Nat /\ Cardinality(U(t)) <= n
      BY <1>1, <3>1, FS_Subset, FS_CardinalityType DEF n
    <3>3. Cardinality(U(t)) # 0
      BY <3>1, <3>2, FS_EmptySet
    <3> QED BY <1>1, <3>1, <3>2, <3>3
  <2> QED BY <2>1
<1>5. ASSUME NEW t \in S, NEW u \in S, Cardinality(U(t)) >= Cardinality(U(u))
      PROVE  u <= t
  <2>1. SUFFICES ASSUME ~(u <= t) PROVE FALSE
    OBVIOUS
  <2>2. t < u /\ t \in Int /\ u \in Int
    BY <1>1, <2>1
  <2>3. U(t) \in SUBSET U(u) /\ U(t) # U(u)
    <3>1. u \in U(u) /\ u \notin U(t)
      BY <2>2
    <3>2. \A v \in S : v <= t => v <= u
      BY <1>1, <2>2
    <3> QED BY <3>1, <3>2
  <2> HIDE DEF U, S
  <2>4. Cardinality(U(t)) <= Cardinality(U(u)) /\ Cardinality(U(t)) # Cardinality(U(u))
        /\ Cardinality(U(t)) \in Nat /\ Cardinality(U(u)) \in Nat
    BY <1>4, <2>3, FS_Subset, FS_CardinalityType
  <2> QED BY <1>5, <2>4
<1>6. ASSUME NEW t \in S PROVE \E i \in 1..n : at(i) = t
  <2> DEFINE i == Cardinality(U(t))
  <2>1. i \in 1..n
    BY <1>4
  <2>2. at(i) \in S /\ Cardinality(U(at(i))) = i
    BY <1>3, <2>1
  <2> HIDE DEF at, S
  <2>3. at(i) <= t /\ t <= at(i)
    <3>1. i \in Nat
      BY <2>1
    <3> QED BY <1>5, <2>2, <3>1
  <2>4. at(i) \in Int /\ t \in Int
    BY <1>1, <2>2
  <2>5. at(i) = t
    BY <2>3, <2>4
  <2> QED BY <2>1, <2>5
<1>7. {x.slot : x \in Range(q)} = S
  <2> HIDE DEF at, n, S, q, U
  <2>1. DOMAIN q = 1..n
    BY <1>1, <1>2
  <2>2. \A t \in S : \E i \in 1..n : q[i].slot = t
    BY <1>2, <1>6
  <2>3. \A i \in 1..n : q[i].slot \in S
    BY <1>2, <1>3
  <2> QED BY <2>1, <2>2, <2>3 DEF Range
<1>8. ASSUME S # {} PROVE /\ n > 0 /\ q[n].slot \in S /\ \A t \in S : t <= q[n].slot
  <2>1. n # 0
    BY <1>1, <1>8, FS_EmptySet
  <2>2. n \in 1..n
    BY <1>1, <2>1
  <2>3. at(n) \in S /\ Cardinality(U(at(n))) = n /\ q[n].slot = at(n)
    BY <1>2, <1>3, <2>2
  <2> HIDE DEF at
  <2>4. \A t \in S : t <= at(n)
    <3> HIDE DEF U, S, n
    <3>1. \A t \in S : Cardinality(U(t)) <= n /\ Cardinality(U(t)) \in Nat
      BY <1>1, <1>4
    <3> QED BY <1>1, <1>5, <2>3, <3>1
  <2> QED BY <1>1, <2>1, <2>3, <2>4
<1> HIDE DEF n, at, U, q, S
<1> QED BY <1>2, <1>7, <1>8 DEF q, S

\* What has been folded is last in the fold, besides what was there.
LEMMA FedOn ==
  ASSUME NEW f \in FoldRecord, f.history <= Len(f.fed), NEW sessions,
         NEW seq \in Seq(Bar), Len(seq) > 0
  PROVE  LET g == FedWith(f, seq, sessions) IN
         /\ LastFed(g) = seq[Len(seq)].slot
         /\ FedSlots(g) = FedSlots(f) \cup {x.slot : x \in Range(seq)}
         /\ Begin(g) = IF Len(f.fed) = 0 THEN seq[1].slot ELSE Begin(f)
<1> DEFINE g == FedWith(f, seq, sessions)
           m == Len(f.fed)
           n == Len(seq)
<1>1. g.fed = f.fed \o seq /\ g.history = f.history
  BY DEF FedWith, FoldRecord
<1>2. f.fed \in Seq(Bar) /\ m \in Nat /\ n \in Nat \ {0} /\ f.history \in 0..m
  BY DEF FoldRecord
<1>3. /\ Len(g.fed) = m + n
      /\ \A i \in 1..m : g.fed[i] = f.fed[i]
      /\ \A i \in 1..n : g.fed[m + i] = seq[i]
  BY <1>1, <1>2
<1> HIDE DEF g
<1>4. LastFed(g) = seq[n].slot
  <2>1. g.fed # <<>> /\ g.fed[m + n] = seq[n]
    BY <1>2, <1>3
  <2> QED BY <1>3, <2>1 DEF LastFed, Last
<1>5. FedSlots(g) = FedSlots(f) \cup {x.slot : x \in Range(seq)}
  <2>1. Range(g.fed) = Range(f.fed) \cup Range(seq)
    <3>1. \A i \in 1..(m + n) : i \in 1..m \/ (i - m \in 1..n /\ i = m + (i - m))
      BY <1>2
    <3>2. DOMAIN g.fed = 1..(m + n) /\ DOMAIN f.fed = 1..m /\ DOMAIN seq = 1..n
      BY <1>1, <1>2
    <3>3. \A i \in 1..m : i \in 1..(m + n)
      BY <1>2
    <3>4. \A i \in 1..n : m + i \in 1..(m + n)
      BY <1>2
    <3>5. ASSUME NEW i \in 1..(m + n) PROVE g.fed[i] \in Range(f.fed) \cup Range(seq)
      <4>1. CASE i \in 1..m
        BY <1>3, <3>2, <4>1 DEF Range
      <4>2. CASE i - m \in 1..n /\ i = m + (i - m)
        <5>1. g.fed[i] = seq[i - m]
          BY <1>3, <4>2
        <5> QED BY <3>2, <4>2, <5>1 DEF Range
      <4> QED BY <3>1, <4>1, <4>2
    <3>6. Range(f.fed) \subseteq Range(g.fed)
      BY <1>3, <3>2, <3>3 DEF Range
    <3>7. Range(seq) \subseteq Range(g.fed)
      BY <1>3, <3>2, <3>4 DEF Range
    <3>8. Range(g.fed) \subseteq Range(f.fed) \cup Range(seq)
      BY <3>2, <3>5 DEF Range
    <3> QED BY <3>6, <3>7, <3>8
  <2> QED BY <2>1 DEF FedSlots
<1>6. Begin(g) = IF m = 0 THEN seq[1].slot ELSE Begin(f)
  <2>1. g.fed # <<>> /\ (f.fed = <<>> <=> m = 0)
    BY <1>2, <1>3
  <2>2. f.history > 0 => g.fed[g.history] = f.fed[f.history]
    BY <1>1, <1>2, <1>3
  <2>3. g.fed[1] = IF m = 0 THEN seq[1] ELSE f.fed[1]
    <3>1. m = 0 => g.fed[m + 1] = seq[1] /\ m + 1 = 1
      BY <1>2, <1>3
    <3>2. m # 0 => g.fed[1] = f.fed[1]
      BY <1>2, <1>3
    <3> QED BY <3>1, <3>2
  <2>4. m = 0 => f.history = 0
    BY <1>2
  <2> HIDE DEF m
  <2> QED BY <1>1, <1>2, <2>1, <2>2, <2>3, <2>4 DEF Begin
<1> QED BY <1>4, <1>5, <1>6 DEF g

\* Folding nothing changes none of it.
LEMMA FedNothing ==
  ASSUME NEW f \in FoldRecord, NEW sessions
  PROVE  LET g == FedWith(f, <<>>, sessions) IN
         LastFed(g) = LastFed(f) /\ FedSlots(g) = FedSlots(f) /\ Begin(g) = Begin(f)
<1>1. f.fed \o <<>> = f.fed
  BY DEF FoldRecord
<1>2. FedWith(f, <<>>, sessions).fed = f.fed /\ FedWith(f, <<>>, sessions).history = f.history
  BY <1>1 DEF FedWith, FoldRecord
<1> QED BY <1>2 DEF LastFed, FedSlots, Begin

\* Where a fold ends and what it is made of.
LEMMA FedEnds ==
  ASSUME NEW f \in FoldRecord
  PROVE  /\ LastFed(f) \in Nat
         /\ Len(f.fed) = 0 => LastFed(f) = 0
         /\ Len(f.fed) > 0 => LastFed(f) \in FedSlots(f)
<1>1. f.fed \in Seq(Bar)
  BY DEF FoldRecord
<1>2. CASE f.fed = <<>>
  BY <1>2 DEF LastFed
<1>3. CASE f.fed # <<>>
  <2>1. Len(f.fed) \in 1..Len(f.fed) /\ Len(f.fed) > 0
    BY <1>1, <1>3
  <2>2. f.fed[Len(f.fed)] \in Bar /\ f.fed[Len(f.fed)] \in Range(f.fed)
    BY <1>1, <2>1 DEF Range
  <2>3. LastFed(f) = f.fed[Len(f.fed)].slot
    BY <1>3 DEF LastFed, Last
  <2> QED BY <1>1, <2>1, <2>2, <2>3, BarConstants DEF FedSlots, Bar, Slots
<1> QED BY <1>2, <1>3

\* A fold stays whole when it goes on with rows, none between them left out.
LEMMA WholeOn ==
  ASSUME NEW f \in FoldRecord, f.history <= Len(f.fed), NEW sessions,
         NEW rows, DOMAIN rows \subseteq Slots, Whole(rows, f),
         NEW seq \in Seq(Bar), Len(seq) > 0,
         seq[Len(seq)].slot \in DOMAIN rows, seq[Len(seq)].slot >= LastFed(f),
         \A t \in DOMAIN rows : t > LastFed(f) /\ t < seq[Len(seq)].slot
                                  => t \in {x.slot : x \in Range(seq)}
  PROVE  Whole(rows, FedWith(f, seq, sessions))
<1> DEFINE g == FedWith(f, seq, sessions)
           new == {x.slot : x \in Range(seq)}
           last == seq[Len(seq)].slot
<1>1. /\ LastFed(g) = last /\ FedSlots(g) = FedSlots(f) \cup new
      /\ Len(f.fed) # 0 => Begin(g) = Begin(f)
  BY FedOn
<1>2. DOMAIN rows \subseteq Nat \ {0}
  BY BarConstants DEF Slots
<1>3. /\ LastFed(f) \in Nat
      /\ Len(f.fed) = 0 => LastFed(f) = 0
      /\ Len(f.fed) > 0 => LastFed(f) \in FedSlots(f)
      /\ Len(f.fed) \in Nat
  BY FedEnds DEF FoldRecord
<1> HIDE DEF g, new, last
<1>4. ASSUME NEW t \in DOMAIN rows, t > Begin(g), t < last
      PROVE  t \in FedSlots(g)
  <2>1. CASE t > LastFed(f)
    BY <1>1, <1>4, <2>1 DEF new, last
  <2>2. CASE t = LastFed(f)
    BY <1>1, <1>2, <1>3, <2>2
  <2>3. CASE t < LastFed(f)
    <3>1. Len(f.fed) # 0
      BY <1>2, <1>3, <2>3
    <3> QED BY <1>1, <1>4, <2>3, <3>1 DEF Whole
  <2> QED BY <1>2, <1>3, <2>1, <2>2, <2>3
<1> QED BY <1>1, <1>4 DEF Whole, g, last

\* A fold that is all history leaves no row of it behind.
LEMMA WholeHistory ==
  ASSUME NEW b, DOMAIN b \in SUBSET Slots, \A t \in DOMAIN b : b[t] \in {0, 1},
         NEW f, f.fed = InOrder(b), f.history = Cardinality(DOMAIN b)
  PROVE  /\ \A rows : DOMAIN rows \subseteq Slots => Whole(rows, f)
         /\ \A t \in DOMAIN b : t <= LastFed(f)
         /\ LastFed(f) \in {0} \cup DOMAIN b
<1> DEFINE q == InOrder(b)
           n == Len(q)
<1>1. q \in Seq(Bar) /\ f.history = n /\ n \in Nat
  BY InOrderBars
<1>2. DOMAIN b # {} => /\ n > 0 /\ q[n].slot \in DOMAIN b
                       /\ \A t \in DOMAIN b : t <= q[n].slot
  BY InOrderSlots
<1> HIDE DEF q
<1>3. CASE q = <<>>
  <2>1. LastFed(f) = 0 /\ Begin(f) = LastSlot
    BY <1>1, <1>3 DEF LastFed, Begin, q
  <2>2. DOMAIN b = {}
    <3>1. ~(n > 0)
      BY <1>3
    <3> QED BY <1>2, <3>1
  <2>3. \A rows : DOMAIN rows \subseteq Slots => Whole(rows, f)
    <3>1. \A t \in Slots : ~(t < 0)
      BY BarConstants DEF Slots
    <3>2. ~(0 > LastSlot)
      BY BarConstants
    <3> QED BY <2>1, <3>1, <3>2 DEF Whole
  <2> QED BY <2>1, <2>2, <2>3
<1>4. CASE q # <<>>
  <2>1. n > 0
    BY <1>1, <1>4
  <2>2. LastFed(f) = q[n].slot /\ Begin(f) = q[n].slot
    BY <1>1, <1>4, <2>1 DEF LastFed, Last, Begin, q
  <2>3. q[n].slot \in Nat
    <3>1. q[n] \in Bar
      BY <1>1, <2>1
    <3> QED BY <3>1, BarConstants DEF Bar, Slots
  <2>4. DOMAIN b # {}
    <3>1. {x.slot : x \in Range(q)} = DOMAIN b
      BY InOrderSlots DEF q
    <3>2. q[n] \in Range(q)
      BY <1>1, <2>1 DEF Range
    <3> QED BY <3>1, <3>2
  <2>5. \A rows : DOMAIN rows \subseteq Slots => Whole(rows, f)
    <3>1. \A t \in Slots : t \in Nat
      BY BarConstants DEF Slots
    <3>2. \A t \in Slots : ~(t > q[n].slot /\ t < q[n].slot)
      BY <2>3, <3>1
    <3>3. ~(q[n].slot > q[n].slot)
      BY <2>3
    <3> HIDE DEF n
    <3> QED BY <2>2, <3>2, <3>3 DEF Whole
  <2> QED BY <1>2, <2>2, <2>4, <2>5
<1> QED BY <1>3, <1>4

\* Only a crash counts as one.
LEMMA FaultsCounted ==
  ASSUME CacheInv,
         \/ UNCHANGED faults
         \/ Fail("fetch") \/ Fail("slow") \/ faults' = [faults EXCEPT !.fetch = 1]
  PROVE  faults' \in FaultCount /\ faults'.crash = faults.crash
BY DEF CacheInv, FaultCount, Fail

\* Where no cycle has rows in hand, nothing is behind.
Settled == {"backfill", "catchup", "process"}
LEMMA NothingBehind ==
  ASSUME CacheInv, faults.crash = 0, run.pc \notin Settled, NEW s \in Symbols
  PROVE  \A t \in DOMAIN bars[s] : ~(t > LastFed(fold[s]))
BY DEF CacheInv, InHand, Behind, Settled

\* A step that writes and folds nothing.
LEMMA QuietCache ==
  ASSUME BarsInv, CacheInv, UNCHANGED <<bars, fold>>, clock' \in clock..LastSlot,
         faults' \in FaultCount, faults'.crash = faults.crash,
         run.pc \notin Settled, run'.pc \notin Settled,
         run'.pc = "reconcile" => run'.written = {},
         run'.pc = "persist" => \A s \in run'.todo : run'.exp \in (feed')[s]
  PROVE  CacheInv'
<1>1. ASSUME faults.crash = 0
      PROVE  /\ InHand'
             /\ \A s \in Symbols : Whole(bars[s], fold[s])' /\ (LastFed(fold[s]) \in 0..clock)'
  <2>1. \A s \in Symbols : \A t \in DOMAIN bars[s] : ~(t > LastFed(fold[s]))
    BY <1>1, NothingBehind
  <2>2. InHand'
    BY <2>1 DEF InHand, Behind, Settled
  <2>3. \A s \in Symbols : Whole(bars[s], fold[s]) /\ LastFed(fold[s]) \in 0..clock
    BY <1>1 DEF CacheInv
  <2>4. \A s \in Symbols : LastFed(fold[s]) \in 0..clock'
    <3>1. clock \in Nat /\ clock' \in Nat /\ clock <= clock'
      BY BarConstants DEF BarsInv, BarsType
    <3> QED BY <2>3, <3>1
  <2> QED BY <2>2, <2>3, <2>4
<1>2. \A s \in Symbols : Rows(bars[s])'
  BY DEF CacheInv
<1> QED BY <1>1, <1>2 DEF CacheInv

\* Time, the morning's stages and the ends of a cycle write and fold nothing.
LEMMA QuietCacheSteps ==
  ASSUME BarsInv, CacheInv, BarsInv',
         \/ Tick \/ StartPreflight \/ Candidates \/ RecordParity
         \/ StartCycle \/ FetchExpected \/ RecordSignals
         \/ \E s \in Symbols : SplitOvernight(s)
  PROVE  CacheInv'
<1>0. clock \in 1..LastSlot /\ LastSlot \in Nat /\ run \in RunRecord
  BY BarConstants DEF BarsInv, BarsType
<1>1. CASE Tick
  <2>1. /\ UNCHANGED <<bars, fold>> /\ clock' = clock + 1 /\ clock < LastSlot
        /\ run.pc \in {"idle", "reconcile"} /\ run' = [run EXCEPT !.started = FALSE]
    BY <1>1 DEF Tick
  <2>2. run'.pc = run.pc /\ run'.written = run.written
    BY <1>0, <2>1 DEF RunRecord
  <2>3. faults' \in FaultCount /\ faults'.crash = faults.crash
    BY <1>1, FaultsCounted DEF Tick
  <2>4. faults.crash = 0 => (run'.pc = "reconcile" => run'.written = {})
    BY <2>2 DEF CacheInv, InHand
  <2>5. clock' \in clock..LastSlot
    BY <1>0, <2>1
  <2>6. CASE faults.crash = 0
    BY <2>1, <2>2, <2>3, <2>4, <2>5, <2>6, QuietCache DEF Settled
  <2>7. CASE faults.crash # 0
    BY <2>1, <2>3, <2>7 DEF CacheInv
  <2> QED BY <2>6, <2>7
<1>2. CASE StartPreflight \/ Candidates \/ RecordParity \/ StartCycle \/ RecordSignals
  <2>1. UNCHANGED <<clock, bars, fold, faults>> /\ clock' \in clock..LastSlot
    BY <1>0, <1>2 DEF StartPreflight, Candidates, RecordParity, StartCycle, RecordSignals
  <2>2. run.pc \notin Settled
    BY <1>2 DEF StartPreflight, Candidates, RecordParity, StartCycle, RecordSignals, Settled
  <2>3. /\ run'.pc \notin Settled \cup {"persist"}
        /\ run'.pc = "reconcile" => run'.written = {}
    <3>1. CASE StartPreflight
      BY <3>1 DEF StartPreflight, Idle, Settled
    <3>2. CASE Candidates
      <4>1. run'.pc \in {"parity", "detect"}
        BY <1>0, <3>2 DEF Candidates, Goto, RunRecord
      <4> QED BY <4>1 DEF Settled
    <3>3. CASE RecordParity
      BY <1>0, <3>3, StopParts DEF RecordParity, Settled
    <3>4. CASE StartCycle
      BY <3>4 DEF StartCycle, Idle, Settled
    <3>5. CASE RecordSignals
      BY <1>0, <3>5, StopParts DEF RecordSignals, Settled
    <3> QED BY <1>2, <3>1, <3>2, <3>3, <3>4, <3>5
  <2>4. faults' \in FaultCount /\ faults'.crash = faults.crash
    BY <2>1 DEF CacheInv
  <2> QED BY <2>1, <2>2, <2>3, <2>4, QuietCache
<1>3. CASE FetchExpected
  <2>0. run.pc = "fetch" /\ UNCHANGED <<clock, feed, bars, fold>>
    BY <1>3 DEF FetchExpected
  <2>1. run.pc = "fetch" /\ UNCHANGED <<clock, feed, bars, fold>> /\ clock' \in clock..LastSlot
    BY <1>0, <2>0
  <2>2. PICK missed :
          LET found == {s \in Ingesting : run.exp \in feed[s]} \ missed IN
          /\ faults' = IF missed = {} THEN faults ELSE [faults EXCEPT !.fetch = 1]
          /\ run' = [run EXCEPT !.pc = IF found = {} THEN "record" ELSE "persist", !.todo = found]
    BY <1>3 DEF FetchExpected
  <2>3. faults' \in FaultCount /\ faults'.crash = faults.crash
    BY <2>2, FaultsCounted
  <2> DEFINE found == {s \in Ingesting : run.exp \in feed[s]} \ missed
  <2>4. \A s \in found : run.exp \in feed[s]
    OBVIOUS
  <2>5. run' = [run EXCEPT !.pc = IF found = {} THEN "record" ELSE "persist", !.todo = found]
    BY <2>2
  <2> HIDE DEF found
  <2>6. run'.pc \in {"record", "persist"} /\ run'.exp = run.exp /\ run'.todo = found
    BY <1>0, <2>5 DEF RunRecord
  <2> QED BY <2>1, <2>3, <2>4, <2>6, QuietCache DEF Settled
<1>4. ASSUME NEW s \in Symbols, SplitOvernight(s) PROVE CacheInv'
  <2>1. run.pc = "idle" /\ UNCHANGED <<clock, feed, bars, fold, run, faults>>
    BY <1>4 DEF SplitOvernight
  <2>2. clock' \in clock..LastSlot
    BY <1>0, <2>1
  <2>3. faults' \in FaultCount /\ faults'.crash = faults.crash
    BY <2>1 DEF CacheInv
  <2> QED BY <2>1, <2>2, <2>3, QuietCache DEF Settled
<1> QED BY <1>1, <1>2, <1>3, <1>4

\* A late bar reaches the feed, in the middle of a stage or not.
LEMMA LateCache ==
  ASSUME BarsInv, CacheInv, NEW s \in Symbols, DeliverLate(s) PROVE CacheInv'
<1>1. UNCHANGED <<clock, bars, fold, run, faults>>
  BY DEF DeliverLate
<1>2. \A x \in Symbols : feed[x] \subseteq (feed')[x]
  BY DEF DeliverLate, BarsInv, BarsType
<1>3. run.todo \subseteq Symbols
  BY DEF BarsInv, BarsType, RunRecord
<1>4. InHand => InHand'
  BY <1>1, <1>2, <1>3 DEF InHand, Behind, Ingesting
<1> QED BY <1>1, <1>4 DEF CacheInv, Rows, Whole

\* After a crash nothing is promised.
LEMMA CrashCache == ASSUME CacheInv, Crash PROVE CacheInv'
BY DEF CacheInv, Crash, Fail, FaultCount, Rows

\* The cycle reads the clock and turns to its symbols.
LEMMA ExpectCache == ASSUME BarsInv, CacheInv, ExpectBar PROVE CacheInv'
<1>1. /\ UNCHANGED <<clock, bars, fold, faults>> /\ run.pc = "reconcile"
      /\ run' = [run EXCEPT !.pc = IF Ingesting = {} THEN "record" ELSE "backfill",
                            !.exp = clock, !.todo = Ingesting]
  BY DEF ExpectBar
<1>2. run \in RunRecord
  BY DEF BarsInv, BarsType
<1>3. /\ run'.pc \in {"record", "backfill"} /\ run'.todo = Ingesting
      /\ run'.written = run.written
  BY <1>1, <1>2 DEF RunRecord
<1>4. Ingesting' = Ingesting
  BY <1>1 DEF Ingesting
<1>5. faults.crash = 0 => InHand'
  <2>1. SUFFICES ASSUME faults.crash = 0 PROVE InHand'
    OBVIOUS
  <2>2. \A s \in Symbols : \A t \in DOMAIN bars[s] : ~(t > LastFed(fold[s]))
    BY <1>1, <2>1, NothingBehind DEF Settled
  <2>3. run.written = {}
    BY <1>1, <2>1 DEF CacheInv, InHand
  <2> QED BY <1>1, <1>3, <1>4, <2>2, <2>3 DEF InHand, Behind
<1> QED BY <1>1, <1>5 DEF CacheInv, Rows, Whole

\* A preflight that leaves every symbol's rows folded.
LEMMA MorningCache ==
  ASSUME CacheInv, run.pc \in Morning, run'.pc \in Morning,
         faults' \in FaultCount, faults'.crash = faults.crash,
         \A s \in Symbols : Rows(bars[s])',
         faults.crash = 0 => \A s \in Symbols :
             /\ Whole(bars[s], fold[s])' /\ (LastFed(fold[s]) \in 0..clock)'
             /\ \A t \in DOMAIN (bars')[s] : ~(t > LastFed((fold')[s]))
  PROVE  CacheInv'
<1>1. faults.crash = 0 => InHand'
  BY DEF InHand, Behind, Morning
<1> QED BY <1>1 DEF CacheInv

\* A fold of all that can be fetched is of every row.
LEMMA FoldedHistory ==
  ASSUME BarsInv, NEW s \in Symbols, NEW f,
         f.fed = InOrder(Fetched(s, 1, clock)),
         f.history = Cardinality(DOMAIN Fetched(s, 1, clock))
  PROVE  /\ Whole(bars[s], f) /\ Whole(Fetched(s, 1, clock), f) /\ LastFed(f) \in 0..clock
         /\ \A t \in DOMAIN bars[s] : ~(t > LastFed(f))
         /\ \A t \in DOMAIN Fetched(s, 1, clock) : ~(t > LastFed(f))
<1> DEFINE b == Fetched(s, 1, clock)
<1>1. /\ feed[s] \subseteq 1..clock /\ clock \in 1..LastSlot /\ 1..clock \subseteq Slots
      /\ DOMAIN bars[s] \subseteq feed[s]
  BY BarConstants DEF BarsInv, BarsType, CacheHolds, Slots
<1>2. DOMAIN b = feed[s] /\ \A t \in DOMAIN b : b[t] \in {0, 1}
  <2>1. Scale(s) \in {0, 1}
    BY DEF Scale
  <2> HIDE DEF Scale
  <2> QED BY <1>1, <2>1 DEF Fetched
<1> HIDE DEF b
<1>3. /\ \A rows : DOMAIN rows \subseteq Slots => Whole(rows, f)
      /\ \A t \in DOMAIN b : t <= LastFed(f)
      /\ LastFed(f) \in {0} \cup DOMAIN b
  <2>1. DOMAIN b \in SUBSET Slots
    BY <1>1, <1>2
  <2> QED BY <1>2, <2>1, WholeHistory DEF b
<1>4. LastFed(f) \in 0..clock
  BY <1>1, <1>2, <1>3
<1>5. \A t \in feed[s] : ~(t > LastFed(f))
  BY <1>1, <1>2, <1>3, <1>4
<1> QED BY <1>1, <1>2, <1>3, <1>4, <1>5 DEF b

\* One symbol is bootstrapped.
LEMMA BootstrapCache ==
  ASSUME BarsInv, CacheInv, NEW s \in Symbols, Bootstrap(s) PROVE CacheInv'
<1> DEFINE b == Fetched(s, 1, clock)
           g == [Bootstrapped(b) EXCEPT !.pending = fold[s].pending]
<1>1. /\ run.pc = "bootstrap" /\ run' = Done(s, "candidates") /\ UNCHANGED <<clock, bars>>
      /\ fold' = fold \/ fold' = [fold EXCEPT ![s] = g]
  BY DEF Bootstrap
<1>2. run \in RunRecord /\ fold \in [Symbols -> FoldRecord]
  BY DEF BarsInv, BarsType
<1>3. run.pc \in Morning /\ run'.pc \in Morning
  BY <1>1, <1>2, DoneParts DEF Morning
<1>4. faults' \in FaultCount /\ faults'.crash = faults.crash
  BY FaultsCounted DEF Bootstrap
<1>5. g.fed = InOrder(b) /\ g.history = Cardinality(DOMAIN b)
  BY DEF Bootstrapped
<1> HIDE DEF g, b
<1>6. /\ Whole(bars[s], g) /\ LastFed(g) \in 0..clock
      /\ \A t \in DOMAIN bars[s] : ~(t > LastFed(g))
  BY <1>5, FoldedHistory DEF b
<1>7. ASSUME faults.crash = 0, NEW x \in Symbols
      PROVE  /\ Whole(bars[x], (fold')[x]) /\ LastFed((fold')[x]) \in 0..clock
             /\ \A t \in DOMAIN bars[x] : ~(t > LastFed((fold')[x]))
  <2>1. (fold')[x] = fold[x] \/ (x = s /\ (fold')[x] = g)
    BY <1>1, <1>2
  <2>2. /\ Whole(bars[x], fold[x]) /\ LastFed(fold[x]) \in 0..clock
        /\ \A t \in DOMAIN bars[x] : ~(t > LastFed(fold[x]))
    BY <1>1, <1>7, NothingBehind DEF CacheInv, Settled
  <2> QED BY <1>6, <2>1, <2>2
<1>8. \A x \in Symbols : Rows(bars[x])'
  BY <1>1 DEF CacheInv
<1> QED BY <1>1, <1>3, <1>4, <1>7, <1>8, MorningCache

\* One symbol is looked at for a split: the flag moves no bar.
LEMMA DetectCache ==
  ASSUME BarsInv, CacheInv, NEW s \in Symbols, Detect(s) PROVE CacheInv'
<1>1. /\ run.pc = "detect" /\ UNCHANGED <<clock, bars>>
      /\ \/ /\ fold' = [fold EXCEPT ![s].pending = TRUE]
            /\ run' = [run EXCEPT !.pc = "rebuild", !.written = {s}]
         \/ fold' = fold /\ run' = Done(s, "parity")
  BY DEF Detect
<1>2. run \in RunRecord /\ fold \in [Symbols -> FoldRecord]
  BY DEF BarsInv, BarsType
<1>3. run.pc \in Morning /\ run'.pc \in Morning
  <2>1. run.pc \in Morning
    BY <1>1 DEF Morning
  <2>2. CASE run' = [run EXCEPT !.pc = "rebuild", !.written = {s}]
    BY <1>2, <2>1, <2>2 DEF RunRecord, Morning
  <2>3. CASE run' = Done(s, "parity")
    <3>1. "parity" \in Morning
      BY DEF Morning
    <3>2. run'.pc \in {run.pc, "parity"}
      BY <1>2, <2>3, <3>1, DoneParts
    <3> QED BY <2>1, <3>1, <3>2
  <2> QED BY <1>1, <2>1, <2>2, <2>3
<1>4. faults' \in FaultCount /\ faults'.crash = faults.crash
  <2>1. UNCHANGED faults \/ faults' = [faults EXCEPT !.fetch = 1]
    BY DEF Detect
  <2> QED BY <2>1, FaultsCounted
<1>5. \A x \in Symbols : (fold')[x].fed = fold[x].fed /\ (fold')[x].history = fold[x].history
  <2> DEFINE g == [fold[s] EXCEPT !.pending = TRUE]
  <2>1. g.history = fold[s].history /\ g.fed = fold[s].fed
    BY <1>2 DEF FoldRecord
  <2>2. fold' = fold \/ fold' = [fold EXCEPT ![s] = g]
    BY <1>1
  <2> HIDE DEF g
  <2> QED BY <1>2, <2>1, <2>2
<1>6. \A x \in Symbols : /\ LastFed((fold')[x]) = LastFed(fold[x])
                         /\ Begin((fold')[x]) = Begin(fold[x])
                         /\ FedSlots((fold')[x]) = FedSlots(fold[x])
  BY <1>5 DEF LastFed, Begin, FedSlots
<1>7. ASSUME faults.crash = 0, NEW x \in Symbols
      PROVE  /\ Whole(bars[x], (fold')[x]) /\ LastFed((fold')[x]) \in 0..clock
             /\ \A t \in DOMAIN bars[x] : ~(t > LastFed((fold')[x]))
  <2>1. /\ Whole(bars[x], fold[x]) /\ LastFed(fold[x]) \in 0..clock
        /\ \A t \in DOMAIN bars[x] : ~(t > LastFed(fold[x]))
    BY <1>1, <1>7, NothingBehind DEF CacheInv, Settled
  <2> QED BY <1>6, <2>1 DEF Whole
<1>8. \A x \in Symbols : Rows(bars[x])'
  BY <1>1 DEF CacheInv
<1> QED BY <1>1, <1>3, <1>4, <1>7, <1>8, MorningCache

\* One symbol is rebuilt: rows and fold are the same history.
LEMMA RebuildCache ==
  ASSUME BarsInv, CacheInv, NEW s \in Symbols, Rebuild(s) PROVE CacheInv'
<1> DEFINE h == Fetched(s, 1, clock)
           g == Bootstrapped(h)
<1>1. /\ run.pc = "rebuild" /\ UNCHANGED clock
      /\ run' = [Done(s, "parity") EXCEPT !.written = {},
                    !.pc = IF run.todo = {s} THEN "parity" ELSE "detect"]
      /\ \/ bars' = bars /\ fold' = fold
         \/ bars' = [bars EXCEPT ![s] = h] /\ fold' = [fold EXCEPT ![s] = g]
  BY DEF Rebuild
<1>2. /\ run \in RunRecord /\ fold \in [Symbols -> FoldRecord]
      /\ bars = [x \in Symbols |-> bars[x]]
  BY DEF BarsInv, BarsType
<1>3. run.pc \in Morning /\ run'.pc \in Morning
  <2>1. Done(s, "parity") \in RunRecord
    BY <1>2, DoneParts DEF Morning
  <2> QED BY <1>1, <2>1 DEF RunRecord, Morning
<1>4. faults' \in FaultCount /\ faults'.crash = faults.crash
  BY FaultsCounted DEF Rebuild
<1>5. g.fed = InOrder(h) /\ g.history = Cardinality(DOMAIN h)
  BY DEF Bootstrapped
<1>6. Rows(h)
  BY DEF Rows, Fetched
<1> HIDE DEF g, h
<1>7. Whole(h, g) /\ LastFed(g) \in 0..clock /\ \A t \in DOMAIN h : ~(t > LastFed(g))
  BY <1>5, FoldedHistory DEF h
<1>8. \A x \in Symbols : \/ (bars')[x] = bars[x] /\ (fold')[x] = fold[x]
                         \/ (bars')[x] = h /\ (fold')[x] = g
  BY <1>1, <1>2
<1>9. ASSUME faults.crash = 0, NEW x \in Symbols
      PROVE  /\ Whole((bars')[x], (fold')[x]) /\ LastFed((fold')[x]) \in 0..clock
             /\ \A t \in DOMAIN (bars')[x] : ~(t > LastFed((fold')[x]))
  <2>1. /\ Whole(bars[x], fold[x]) /\ LastFed(fold[x]) \in 0..clock
        /\ \A t \in DOMAIN bars[x] : ~(t > LastFed(fold[x]))
    BY <1>1, <1>9, NothingBehind DEF CacheInv, Settled
  <2> QED BY <1>7, <1>8, <2>1
<1>10. \A x \in Symbols : Rows(bars[x])'
  BY <1>6, <1>8 DEF CacheInv, Rows
<1> QED BY <1>1, <1>3, <1>4, <1>9, <1>10, MorningCache

\* Without a bar in it a table is empty.
LEMMA NoRows == ASSUME NEW b, Rows(b), DOMAIN b = {} PROVE b = <<>>
<1>1. b \in [{} -> Nat]
  BY DEF Rows
<1>2. 1..0 = {}
  OBVIOUS
<1>3. b \in Seq(Nat)
  BY <1>1, <1>2, SeqDef
<1>4. Len(b) = 0
  BY <1>1, <1>2, <1>3
<1> QED BY <1>3, <1>4

\* The last row is the newest; without rows it is none.
LEMMA NewestRow ==
  ASSUME BarsInv, CacheInv, NEW s \in Symbols
  PROVE  /\ DOMAIN bars[s] = {} => LastCached(s) = 0
         /\ DOMAIN bars[s] # {} => LastCached(s) \in DOMAIN bars[s]
         /\ \A u \in DOMAIN bars[s] : u \in Nat \ {0} /\ u <= LastCached(s)
         /\ LastCached(s) \in Nat
<1> DEFINE S == DOMAIN bars[s]
           n == Cardinality(S)
<1>1. S \in SUBSET Slots /\ Slots \subseteq Nat \ {0} /\ IsFiniteSet(S)
  <2>1. S \subseteq feed[s] /\ feed[s] \subseteq 1..clock /\ clock \in 1..LastSlot
    BY DEF BarsInv, BarsType, CacheHolds
  <2>2. 1..clock \subseteq Slots /\ Slots \subseteq Nat \ {0} /\ IsFiniteSet(Slots)
    <3>1. 1..clock \subseteq Slots /\ Slots \subseteq Nat \ {0}
      BY <2>1, BarConstants DEF Slots
    <3>2. IsFiniteSet(Slots)
      BY FS_Interval, BarConstants DEF Slots
    <3> QED BY <3>1, <3>2
  <2> HIDE DEF S
  <2> QED BY <2>1, <2>2, FS_Subset
<1>2. CASE S = {}
  <2>1. bars[s] = <<>>
    BY <1>2, NoRows DEF CacheInv
  <2> QED BY <1>2, <2>1 DEF LastCached
<1>3. CASE S # {}
  <2>1. bars[s] # <<>>
    BY <1>3
  <2>2. n \in 1..n
    <3> HIDE DEF S
    <3>1. n \in Nat /\ n # 0
      BY <1>1, <1>3, FS_EmptySet, FS_CardinalityType
    <3> QED BY <3>1
  <2>3. PICK m \in S : Cardinality({u \in S : u <= m}) = n
    <3> HIDE DEF S
    <3> QED BY <1>1, <2>2, RankTaken
  <2>4. \A u \in S : u <= m
    <3> DEFINE U == {u \in S : u <= m}
    <3>1. U \in SUBSET S
      OBVIOUS
    <3>2. U = S
      <4> HIDE DEF U, S
      <4> QED BY <1>1, <2>3, <3>1, FS_Subset DEF U
    <3> QED BY <3>2
  <2>5. LastCached(s) = CHOOSE t \in S : \A u \in S : u <= t
    BY <2>1 DEF LastCached
  <2> HIDE DEF S
  <2>6. LastCached(s) \in S /\ \A u \in S : u <= LastCached(s)
    BY <2>4, <2>5
  <2> QED BY <1>1, <1>3, <2>6 DEF S
<1> QED BY <1>2, <1>3

\* What is backfilled is newer than every row, and closed before the expected bar.
LEMMA NewerRows ==
  ASSUME BarsInv, CacheInv, NEW s \in Symbols, NEW through \in Int,
         NEW t \in DOMAIN Fetched(s, BackfillFrom(s, through), through)
  PROVE  t <= through /\ t \in Nat \ {0} /\ \A u \in DOMAIN bars[s] : u < t
<1>1. t \in feed[s] /\ t \in BackfillFrom(s, through)..through
  BY DEF Fetched
<1>2. t \in Nat \ {0}
  <2>1. feed[s] \subseteq 1..clock /\ clock \in 1..LastSlot
    BY DEF BarsInv, BarsType
  <2> QED BY <1>1, <2>1, BarConstants
<1>3. ASSUME NEW u \in DOMAIN bars[s] PROVE u < t
  <2>1. LastCached(s) \in Nat /\ u \in Nat \ {0} /\ u <= LastCached(s)
    BY NewestRow
  <2>2. BackfillFrom(s, through) = LastCached(s) + 1
    BY <2>1 DEF BackfillFrom
  <2> HIDE DEF BackfillFrom
  <2> QED BY <1>1, <1>2, <2>1, <2>2
<1> QED BY <1>1, <1>2, <1>3

\* Where the rows of a fold begin is a number.
LEMMA BeginNat == ASSUME NEW f \in FoldRecord, f.history <= Len(f.fed) PROVE Begin(f) \in Nat
<1>1. f.fed \in Seq(Bar) /\ f.history \in 0..Len(f.fed) /\ Len(f.fed) \in Nat
  BY DEF FoldRecord
<1>2. \A i \in 1..Len(f.fed) : f.fed[i].slot \in Nat
  <2>1. \A x \in Bar : x.slot \in Nat
    BY BarConstants DEF Bar, Slots
  <2> QED BY <1>1, <2>1
<1>3. f.fed # <<>> => 1 \in 1..Len(f.fed)
  BY <1>1
<1> QED BY <1>1, <1>2, <1>3, BarConstants DEF Begin

\* Rows that are newer than the others do not open a gap.
LEMMA WholeMerged ==
  ASSUME NEW f \in FoldRecord, f.history <= Len(f.fed), NEW rows, NEW new,
         DOMAIN rows \subseteq Nat, Whole(rows, f),
         \A t \in DOMAIN new : /\ t \in Nat
                               /\ t >= LastFed(f) \/ \A u \in DOMAIN rows : u < t
  PROVE  Whole(Merged(rows, new), f)
<1>1. DOMAIN Merged(rows, new) = DOMAIN rows \cup DOMAIN new
  BY DEF Merged
<1>2. LastFed(f) \in Nat /\ Begin(f) \in Nat
  BY FedEnds, BeginNat
<1>3. ASSUME NEW t \in DOMAIN new, t > Begin(f), t < LastFed(f)
      PROVE  FALSE
  <2>1. LastFed(f) > Begin(f) /\ t \in Nat
    BY <1>2, <1>3
  <2>2. LastFed(f) \in DOMAIN rows
    BY <2>1 DEF Whole
  <2>3. ~(t >= LastFed(f))
    BY <1>2, <1>3, <2>1
  <2>4. LastFed(f) < t
    BY <2>2, <2>3
  <2> QED BY <1>2, <1>3, <2>1, <2>4
<1> QED BY <1>1, <1>3 DEF Whole

\* Missing bars are cached.
LEMMA BackfillCache ==
  ASSUME BarsInv, CacheInv, NEW s \in Symbols, Backfill(s) PROVE CacheInv'
<1> DEFINE new == Fetched(s, BackfillFrom(s, run.exp - 1), run.exp - 1)
           rows == Merged(bars[s], new)
           next == Done(s, "catchup")
<1>1. run.pc = "backfill" /\ s \in run.todo /\ UNCHANGED <<clock, feed, fold>>
  BY DEF Backfill
<1>2. /\ run \in RunRecord /\ run.exp = clock /\ clock \in 1..LastSlot
      /\ bars = [x \in Symbols |-> bars[x]] /\ \A x \in Symbols : CacheHolds(bars[x], x)
      /\ fold \in [Symbols -> FoldRecord]
      /\ \A x \in Symbols : fold[x].history <= Len(fold[x].fed)
  BY <1>1, IngestParts DEF Ingest
<1>3. faults' \in FaultCount /\ faults'.crash = faults.crash
  BY FaultsCounted DEF Backfill
<1>4. /\ next.exp = run.exp /\ next.written = run.written
      /\ run.todo = {s} => next.pc = "catchup"
      /\ run.todo # {s} => next.pc = "backfill" /\ next.todo = run.todo \ {s}
      /\ next \in RunRecord
  BY <1>1, <1>2 DEF Done, RunRecord, Ingest
<1>5. /\ run'.exp = run.exp
      /\ run.todo = {s} => run'.pc = "catchup" /\ run'.todo = Ingesting
      /\ run.todo # {s} => run'.pc = "backfill" /\ run'.todo = run.todo \ {s}
      /\ run.written \subseteq run'.written /\ run'.written \subseteq run.written \cup {s}
      /\ \/ bars' = bars
         \/ bars' = [bars EXCEPT ![s] = rows] /\ (DOMAIN new # {} => s \in run'.written)
  <2> DEFINE w == IF new = <<>> THEN next.written ELSE next.written \cup {s}
             d == IF run.todo = {s} THEN Ingesting ELSE next.todo
  <2>1. \/ bars' = [bars EXCEPT ![s] = rows]
           /\ run' = [next EXCEPT !.written = w, !.todo = d]
        \/ bars' = bars /\ run' = [next EXCEPT !.todo = d]
    BY DEF Backfill
  <2>2. DOMAIN new # {} => w = next.written \cup {s}
    <3> HIDE DEF new, next
    <3>1. DOMAIN new # {} => new # <<>>
      OBVIOUS
    <3> QED BY <3>1
  <2>3. next.written \subseteq w /\ w \subseteq next.written \cup {s}
    OBVIOUS
  <2> HIDE DEF w, new, next, rows
  <2>4. /\ run'.exp = next.exp /\ run'.pc = next.pc /\ run'.todo = d
        /\ \/ run'.written = w /\ bars' = [bars EXCEPT ![s] = rows]
           \/ run'.written = next.written /\ bars' = bars
    BY <1>4, <2>1 DEF RunRecord
  <2> QED BY <1>4, <2>2, <2>3, <2>4
<1>6. \A t \in DOMAIN new : /\ t < run.exp /\ t \in Nat \ {0}
                            /\ \A u \in DOMAIN bars[s] : u < t
  <2>1. run.exp - 1 \in Int
    BY <1>2
  <2>2. \A t \in DOMAIN new : /\ t <= run.exp - 1 /\ t \in Nat \ {0}
                              /\ \A u \in DOMAIN bars[s] : u < t
    BY <2>1, NewerRows
  <2> HIDE DEF new
  <2> QED BY <1>2, <2>2
<1>7. DOMAIN rows = DOMAIN bars[s] \cup DOMAIN new /\ Rows(rows)
  BY DEF Merged, Rows
<1>8. \A x \in Symbols : DOMAIN bars[x] \subseteq Nat \ {0}
  BY NewestRow
<1> HIDE DEF next
<1>9. Whole(bars[s], fold[s]) => Whole(rows, fold[s])
  <2>1. ASSUME Whole(bars[s], fold[s]) PROVE Whole(rows, fold[s])
    <3>1. fold[s] \in FoldRecord /\ fold[s].history <= Len(fold[s].fed) /\ DOMAIN bars[s] \subseteq Nat
      BY <1>2, <1>8
    <3> HIDE DEF new
    <3> QED BY <1>6, <2>1, <3>1, WholeMerged
  <2> QED BY <2>1
<1> HIDE DEF new, rows
<1>10. \A x \in Symbols : (bars')[x] = bars[x] \/ (x = s /\ (bars')[x] = rows)
  BY <1>2, <1>5
<1>11. ASSUME faults.crash = 0, NEW x \in Symbols, NEW t \in DOMAIN (bars')[x], t > LastFed(fold[x])
       PROVE  x \in run'.written /\ t < run.exp
  <2>1. CASE t \in DOMAIN bars[x]
    <3>1. t \in Behind(bars[x], fold[x])
      BY <1>11, <2>1 DEF Behind
    <3>2. x \in run.written /\ t < run.exp
      BY <1>1, <1>11, <3>1 DEF CacheInv, InHand
    <3> QED BY <1>5, <3>2
  <2>2. CASE t \notin DOMAIN bars[x]
    <3>1. x = s /\ t \in DOMAIN new
      BY <1>7, <1>10, <1>11, <2>2
    <3>2. s \in run'.written
      BY <1>5, <1>11, <2>2, <3>1
    <3> QED BY <1>6, <3>1, <3>2
  <2> QED BY <2>1, <2>2
<1>12. ASSUME faults.crash = 0 PROVE InHand'
  <2>1. run.written \cup run.todo \subseteq Ingesting /\ Ingesting' = Ingesting
    BY <1>1, <1>12 DEF CacheInv, InHand, Ingesting
  <2>2. run'.written \subseteq Ingesting
    BY <1>1, <1>5, <2>1
  <2>3. run.todo \ {s} \subseteq Ingesting
    BY <2>1
  <2>4. \A x \in Symbols : \A t \in Behind((bars')[x], fold[x]) : x \in run'.written /\ t < run.exp
    BY <1>11, <1>12 DEF Behind
  <2>5. CASE run.todo = {s}
    BY <1>1, <1>5, <2>2, <2>4, <2>5 DEF InHand
  <2>6. CASE run.todo # {s}
    BY <1>1, <1>5, <2>1, <2>2, <2>3, <2>4, <2>6 DEF InHand
  <2> QED BY <2>5, <2>6
<1>13. ASSUME faults.crash = 0, NEW x \in Symbols
       PROVE  Whole((bars')[x], fold[x]) /\ LastFed(fold[x]) \in 0..clock
  BY <1>9, <1>10, <1>13 DEF CacheInv
<1>14. \A x \in Symbols : Rows((bars')[x])
  BY <1>7, <1>10 DEF CacheInv
<1> QED BY <1>1, <1>3, <1>12, <1>13, <1>14 DEF CacheInv

\* The fold catches up on the rows it is behind.
LEMMA CatchUpCache ==
  ASSUME BarsInv, CacheInv, NEW s \in Symbols, CatchUp(s) PROVE CacheInv'
<1> DEFINE f == fold[s]
           T == {u \in DOMAIN bars[s] : u <= run.exp - 1 /\ u > LastFed(f)}
           seq == IF s \in run.written THEN Unfolded(s, run.exp - 1) ELSE <<>>
<1>1. run.pc = "catchup" /\ s \in run.todo /\ UNCHANGED <<clock, feed, bars, faults>>
      /\ run' = Done(s, "fetch")
  BY DEF CatchUp
<1>2. /\ run \in RunRecord /\ run.exp = clock /\ clock \in 1..LastSlot
      /\ fold \in [Symbols -> FoldRecord]
      /\ \A x \in Symbols : fold[x].history <= Len(fold[x].fed)
      /\ CacheHolds(bars[s], s) /\ feed[s] \subseteq 1..clock
  BY <1>1, IngestParts DEF Ingest, BarsInv, BarsType
<1>3. PICK sessions : fold' = [fold EXCEPT ![s] = FedWith(f, seq, sessions)]
  BY DEF CatchUp
<1> DEFINE g == FedWith(f, seq, sessions)
<1>4. /\ DOMAIN bars[s] \subseteq 1..clock /\ DOMAIN bars[s] \subseteq Slots
      /\ \A t \in DOMAIN bars[s] : bars[s][t] \in {0, 1}
  <2>1. DOMAIN bars[s] \subseteq 1..clock /\ \A t \in DOMAIN bars[s] : bars[s][t] \in {0, 1}
    BY <1>2 DEF CacheHolds
  <2> QED BY <1>2, <2>1, BarConstants DEF Slots
<1>5. s \in run.written =>
        /\ seq \in Seq(Bar) /\ {x.slot : x \in Range(seq)} = T
        /\ T # {} => /\ Len(seq) > 0 /\ seq[Len(seq)].slot \in T
                     /\ \A t \in T : t <= seq[Len(seq)].slot
        /\ T = {} => seq = <<>>
  <2> DEFINE b == [t \in T |-> bars[s][t]]
  <2>1. DOMAIN b = T /\ DOMAIN b \in SUBSET Slots /\ \A t \in DOMAIN b : b[t] \in {0, 1}
    BY <1>4
  <2>2. s \in run.written => seq = InOrder(b)
    BY DEF Unfolded
  <2> HIDE DEF b, T, seq
  <2>3. /\ InOrder(b) \in Seq(Bar) /\ {x.slot : x \in Range(InOrder(b))} = T
        /\ T # {} => /\ Len(InOrder(b)) > 0 /\ InOrder(b)[Len(InOrder(b))].slot \in T
                     /\ \A t \in T : t <= InOrder(b)[Len(InOrder(b))].slot
    BY <2>1, InOrderBars, InOrderSlots
  <2>4. T = {} => InOrder(b) = <<>>
    <3> DEFINE q == InOrder(b)
    <3>1. SUFFICES ASSUME T = {}, q # <<>> PROVE FALSE
      OBVIOUS
    <3>2. 1 \in DOMAIN q
      BY <2>3, <3>1
    <3>3. q[1] \in Range(q)
      BY <3>2 DEF Range
    <3> HIDE DEF q
    <3> QED BY <2>3, <3>1, <3>3 DEF q
  <2> QED BY <2>2, <2>3, <2>4
<1> HIDE DEF seq, T
<1>6. f \in FoldRecord /\ f.history <= Len(f.fed)
  BY <1>2
<1>7. ASSUME faults.crash = 0
      PROVE  /\ Whole(bars[s], g) /\ LastFed(g) \in 0..clock
             /\ \A t \in DOMAIN bars[s] : ~(t > LastFed(g))
  <2>1. Whole(bars[s], f) /\ LastFed(f) \in 0..clock
    BY <1>7 DEF CacheInv
  <2>2. ASSUME NEW t \in DOMAIN bars[s], t > LastFed(f)
        PROVE  s \in run.written /\ t \in T
    <3>1. t \in Behind(bars[s], fold[s])
      BY <2>2 DEF Behind
    <3>2. s \in run.written /\ t < run.exp
      BY <1>1, <1>7, <3>1 DEF CacheInv, InHand
    <3>3. t <= run.exp - 1
      BY <1>2, <1>4, <3>2
    <3> QED BY <2>2, <3>2, <3>3 DEF T
  <2>3. CASE s \in run.written /\ T # {}
    <3> DEFINE last == seq[Len(seq)].slot
    <3>1. last \in DOMAIN bars[s] /\ last > LastFed(f) /\ last \in 1..clock
      BY <1>4, <1>5, <2>3 DEF T
    <3>2. last >= LastFed(f)
      BY <1>2, <2>1, <3>1
    <3>3. \A t \in DOMAIN bars[s] : t > LastFed(f) /\ t < last
                                      => t \in {x.slot : x \in Range(seq)}
      BY <1>5, <2>2, <2>3
    <3>4. Whole(bars[s], g)
      BY <1>4, <1>5, <1>6, <2>1, <2>3, <3>1, <3>2, <3>3, WholeOn
    <3>5. LastFed(g) = last
      BY <1>5, <1>6, <2>3, FedOn
    <3> HIDE DEF last, g
    <3>6. ASSUME NEW t \in DOMAIN bars[s] PROVE ~(t > last)
      <4>1. t \in Nat /\ LastFed(f) \in Nat /\ last \in Nat
        BY <1>2, <1>4, <2>1, <3>1
      <4>2. CASE t > LastFed(f)
        BY <1>5, <2>2, <2>3, <4>1, <4>2 DEF last
      <4>3. CASE ~(t > LastFed(f))
        BY <3>2, <4>1, <4>3
      <4> QED BY <4>2, <4>3
    <3> QED BY <3>1, <3>4, <3>5, <3>6
  <2>4. CASE ~(s \in run.written /\ T # {})
    <3>1. seq = <<>>
      BY <1>5, <2>4 DEF seq
    <3>2. LastFed(g) = LastFed(f) /\ FedSlots(g) = FedSlots(f) /\ Begin(g) = Begin(f)
      BY <1>6, <3>1, FedNothing
    <3>3. \A t \in DOMAIN bars[s] : ~(t > LastFed(f))
      BY <2>2, <2>4
    <3> HIDE DEF g
    <3> QED BY <2>1, <3>2, <3>3 DEF Whole
  <2> QED BY <2>3, <2>4
<1> HIDE DEF g
<1>8. \A x \in Symbols : x # s => (fold')[x] = fold[x]
  BY <1>2, <1>3
<1>9. (fold')[s] = g
  BY <1>2, <1>3 DEF g
<1>10. ASSUME faults.crash = 0 PROVE InHand'
  <2>1. /\ run'.exp = run.exp /\ run'.written = run.written
        /\ run.todo = {s} => run'.pc = "fetch"
        /\ run.todo # {s} => run'.pc = "catchup" /\ run'.todo = run.todo \ {s}
    BY <1>1, <1>2 DEF Done, RunRecord
  <2>2. ASSUME NEW x \in Symbols, NEW t \in Behind(bars[x], (fold')[x])
        PROVE  /\ x # s /\ x \in run.written \cap run.todo /\ t < run.exp
    <3>1. x # s
      BY <1>7, <1>9, <1>10, <2>2 DEF Behind
    <3>2. t \in Behind(bars[x], fold[x])
      BY <1>8, <2>2, <3>1
    <3> QED BY <1>1, <1>10, <3>1, <3>2 DEF CacheInv, InHand
  <2>3. CASE run.todo = {s}
    <3>1. \A x \in Symbols : Behind(bars[x], (fold')[x]) = {}
      BY <2>2, <2>3
    <3> QED BY <1>1, <2>1, <2>3, <3>1 DEF InHand
  <2>4. CASE run.todo # {s}
    <3>1. \A x \in Symbols : \A t \in Behind(bars[x], (fold')[x]) :
             x \in run'.written \cap run'.todo /\ t < run'.exp
      BY <2>1, <2>2, <2>4
    <3> QED BY <1>1, <2>1, <2>4, <3>1 DEF InHand
  <2> QED BY <2>3, <2>4
<1>11. ASSUME faults.crash = 0, NEW x \in Symbols
       PROVE  Whole(bars[x], (fold')[x]) /\ LastFed((fold')[x]) \in 0..clock
  BY <1>7, <1>8, <1>9, <1>11 DEF CacheInv
<1> QED BY <1>1, <1>10, <1>11 DEF CacheInv, Rows

\* The expected bar is cached, and is then the one row to fold.
LEMMA PersistCache ==
  ASSUME BarsInv, CacheInv, NEW s \in Symbols, Persist(s) PROVE CacheInv'
<1> DEFINE new == Fetched(s, run.exp, run.exp)
           rows == Merged(bars[s], new)
<1>1. /\ run.pc = "persist" /\ s \in run.todo /\ UNCHANGED <<clock, feed, fold, faults>>
      /\ bars' = [bars EXCEPT ![s] = rows]
      /\ run' = [run EXCEPT !.pc = "process", !.written = {s}]
  BY DEF Persist
<1>2. /\ run \in RunRecord /\ run.exp = clock /\ clock \in 1..LastSlot
      /\ bars = [x \in Symbols |-> bars[x]] /\ fold \in [Symbols -> FoldRecord]
      /\ \A x \in Symbols : fold[x].history <= Len(fold[x].fed)
  BY <1>1, IngestParts DEF Ingest
<1>3. /\ run'.pc = "process" /\ run'.written = {s} /\ run'.exp = run.exp /\ run'.todo = run.todo
  BY <1>1, <1>2 DEF RunRecord
<1>4. DOMAIN new = feed[s] \cap {run.exp}
  <2>1. run.exp..run.exp = {run.exp}
    BY <1>2
  <2> QED BY <2>1 DEF Fetched
<1>5. DOMAIN rows = DOMAIN bars[s] \cup DOMAIN new /\ Rows(rows)
  BY DEF Merged, Rows
<1>6. DOMAIN bars[s] \subseteq Nat
  BY NewestRow
<1>7. ASSUME faults.crash = 0 PROVE Whole(rows, fold[s])
  <2>1. fold[s] \in FoldRecord /\ fold[s].history <= Len(fold[s].fed)
    BY <1>2
  <2>2. LastFed(fold[s]) \in 0..clock /\ Whole(bars[s], fold[s])
    BY <1>7 DEF CacheInv
  <2>3. \A t \in DOMAIN new : t \in Nat /\ t >= LastFed(fold[s])
    BY <1>2, <1>4, <2>2, BarConstants
  <2> HIDE DEF new
  <2> QED BY <1>6, <2>1, <2>2, <2>3, WholeMerged
<1> HIDE DEF new, rows
<1>8. \A x \in Symbols : (bars')[x] = IF x = s THEN rows ELSE bars[x]
  BY <1>1, <1>2
<1>9. ASSUME faults.crash = 0 PROVE InHand'
  <2>1. /\ \A x \in Symbols : \A t \in DOMAIN bars[x] : ~(t > LastFed(fold[x]))
        /\ \A x \in run.todo : run.exp \in feed[x]
    BY <1>1, <1>9, NothingBehind DEF Settled, CacheInv, InHand
  <2>2. run.exp \in DOMAIN (bars')[s]
    BY <1>1, <1>4, <1>5, <1>8, <2>1
  <2>3. \A x \in Symbols : \A t \in Behind((bars')[x], fold[x]) : x = s /\ t = run.exp
    BY <1>4, <1>5, <1>8, <2>1 DEF Behind
  <2> QED BY <1>1, <1>3, <2>1, <2>2, <2>3 DEF InHand
<1>10. ASSUME faults.crash = 0, NEW x \in Symbols
       PROVE  Whole((bars')[x], fold[x]) /\ LastFed(fold[x]) \in 0..clock
  BY <1>7, <1>8, <1>10 DEF CacheInv
<1>11. \A x \in Symbols : Rows((bars')[x])
  BY <1>5, <1>8 DEF CacheInv
<1> QED BY <1>1, <1>9, <1>10, <1>11 DEF CacheInv

\* The expected bar is folded, after all rows before it.
LEMMA ProcessCache ==
  ASSUME BarsInv, CacheInv, NEW s \in Symbols, Process(s) PROVE CacheInv'
<1> DEFINE f == fold[s]
           bar == [slot |-> run.exp, scale |-> Scale(s)]
           seq == <<bar>>
           next == Done(s, "record")
<1>1. /\ run.pc = "process" /\ run.written = {s} /\ UNCHANGED <<clock, feed, bars, faults>>
      /\ \E sessions : fold' = [fold EXCEPT ![s] = FedWith(f, seq, sessions)]
      /\ \E c : run' = [next EXCEPT !.written = {},
                          !.pc = IF run.todo = {s} THEN "record" ELSE "persist", !.confs = c]
  BY DEF Process
<1>2. /\ run \in RunRecord /\ run.exp = clock /\ clock \in 1..LastSlot
      /\ fold \in [Symbols -> FoldRecord]
      /\ \A x \in Symbols : fold[x].history <= Len(fold[x].fed)
      /\ DOMAIN bars[s] \subseteq 1..clock
  <2>1. run.pc \in Ingest
    BY <1>1 DEF Ingest
  <2>2. /\ run \in RunRecord /\ run.exp = clock /\ clock \in 1..LastSlot
        /\ fold \in [Symbols -> FoldRecord]
        /\ \A x \in Symbols : fold[x].history <= Len(fold[x].fed)
        /\ CacheHolds(bars[s], s)
    BY <2>1, IngestParts
  <2>3. feed[s] \subseteq 1..clock
    BY DEF BarsInv, BarsType
  <2> QED BY <2>2, <2>3 DEF CacheHolds
<1>3. PICK sessions : fold' = [fold EXCEPT ![s] = FedWith(f, seq, sessions)]
  BY <1>1
<1> DEFINE g == FedWith(f, seq, sessions)
<1>4. bar \in Bar
  <2>1. Scale(s) \in {0, 1}
    BY DEF Scale
  <2> HIDE DEF Scale
  <2> QED BY <1>2, <2>1, BarConstants DEF Bar, Slots
<1>5. seq \in Seq(Bar) /\ Len(seq) = 1 /\ seq[Len(seq)].slot = clock
  BY <1>2, <1>4
<1>6. next.todo \subseteq run.todo /\ next \in RunRecord /\ next.exp = run.exp
  <2>1. next = IF run.todo = {s} THEN [run EXCEPT !.pc = "record", !.todo = {}]
                                 ELSE [run EXCEPT !.todo = run.todo \ {s}]
    BY DEF Done
  <2> HIDE DEF next
  <2> QED BY <1>2, <2>1 DEF RunRecord, Ingest
<1> HIDE DEF next, seq, bar
<1>7. run'.pc \in {"record", "persist"} /\ run'.exp = run.exp /\ run'.todo = next.todo
  BY <1>1, <1>6 DEF RunRecord
<1>8. f \in FoldRecord /\ f.history <= Len(f.fed) /\ DOMAIN bars[s] \subseteq Slots
  BY <1>2, BarConstants DEF Slots
<1>9. ASSUME faults.crash = 0
      PROVE  /\ Whole(bars[s], g) /\ LastFed(g) = clock
             /\ \A t \in DOMAIN bars[s] : ~(t > LastFed(g))
  <2>1. /\ Whole(bars[s], f) /\ LastFed(f) \in 0..clock
        /\ run.exp \in DOMAIN bars[s]
        /\ \A t \in Behind(bars[s], f) : t = run.exp
    BY <1>1, <1>9 DEF CacheInv, InHand
  <2>2. \A t \in DOMAIN bars[s] : ~(t > LastFed(f) /\ t < clock)
    BY <1>2, <2>1 DEF Behind
  <2>3. Len(seq) > 0 /\ clock >= LastFed(f)
    BY <1>2, <1>5, <2>1
  <2>4. Whole(bars[s], g)
    BY <1>2, <1>5, <1>8, <2>1, <2>2, <2>3, WholeOn
  <2>5. LastFed(g) = clock
    BY <1>5, <1>8, <2>3, FedOn
  <2> HIDE DEF g
  <2> QED BY <1>2, <2>4, <2>5
<1> HIDE DEF g
<1>10. \A x \in Symbols : x # s => (fold')[x] = fold[x]
  BY <1>2, <1>3
<1>11. (fold')[s] = g
  BY <1>2, <1>3 DEF g
<1>12. ASSUME faults.crash = 0 PROVE InHand'
  <2>1. \A x \in run'.todo : run'.exp \in (feed')[x]
    BY <1>1, <1>6, <1>7, <1>12 DEF CacheInv, InHand
  <2>2. \A x \in Symbols : Behind(bars[x], (fold')[x]) = {}
    <3>1. Behind(bars[s], (fold')[s]) = {}
      BY <1>9, <1>11, <1>12 DEF Behind
    <3>2. ASSUME NEW x \in Symbols, x # s PROVE Behind(bars[x], (fold')[x]) = {}
      BY <1>1, <1>10, <1>12, <3>2 DEF CacheInv, InHand
    <3> QED BY <3>1, <3>2
  <2> QED BY <1>1, <1>7, <2>1, <2>2 DEF InHand
<1>13. ASSUME faults.crash = 0, NEW x \in Symbols
       PROVE  Whole(bars[x], (fold')[x]) /\ LastFed((fold')[x]) \in 0..clock
  BY <1>2, <1>9, <1>10, <1>11, <1>13 DEF CacheInv
<1> QED BY <1>1, <1>12, <1>13 DEF CacheInv, Rows

\* At first everything cached is folded.
LEMMA InitCache == ASSUME Init PROVE CacheInv
<1>1. BarsInv
  BY InitBars
<1>2. faults \in FaultCount /\ run.pc = "idle"
  BY DEF Init, FaultCount, Idle
<1>3. ASSUME NEW s \in Symbols
      PROVE  /\ Rows(bars[s]) /\ Whole(bars[s], fold[s]) /\ LastFed(fold[s]) \in 0..clock
             /\ \A t \in DOMAIN bars[s] : ~(t > LastFed(fold[s]))
  <2>1. CASE bars = [x \in Symbols |-> <<>>] /\ fold = [x \in Symbols |-> NoFold]
    <3>1. LastFed(NoFold) = 0 /\ Begin(NoFold) = LastSlot
      BY DEF LastFed, Begin, NoFold
    <3>2. bars[s] = <<>> /\ fold[s] = NoFold
      BY <2>1
    <3>3. DOMAIN bars[s] = {} /\ Rows(bars[s])
      BY <3>2 DEF Rows
    <3>4. 0 \in 0..clock /\ ~(0 > LastSlot)
      BY <1>1, BarConstants DEF BarsInv, BarsType
    <3> HIDE DEF NoFold
    <3> QED BY <3>1, <3>2, <3>3, <3>4 DEF Whole
  <2>2. CASE /\ bars = [x \in Symbols |-> [t \in feed[x] |-> 0]]
             /\ fold = [x \in Symbols |-> Bootstrapped(bars[x])]
    <3>1. bars[s] = [t \in feed[s] |-> 0] /\ fold[s] = Bootstrapped(bars[s])
      BY <2>2
    <3>2. split[s] = 0 /\ feed[s] \subseteq 1..clock
      BY <1>1 DEF Init, BarsInv, BarsType
    <3>3. bars[s] = Fetched(s, 1, clock)
      <4>1. feed[s] \cap (1..clock) = feed[s] /\ Scale(s) = 0
        BY <3>2 DEF Scale
      <4> QED BY <3>1, <4>1 DEF Fetched
    <3>4. /\ fold[s].fed = InOrder(Fetched(s, 1, clock))
          /\ fold[s].history = Cardinality(DOMAIN Fetched(s, 1, clock))
      BY <3>1, <3>3 DEF Bootstrapped
    <3> QED BY <1>1, <3>1, <3>4, FoldedHistory DEF Rows
  <2> QED BY <2>1, <2>2 DEF Init
<1>4. InHand
  BY <1>2, <1>3 DEF InHand, Behind
<1> QED BY <1>2, <1>3, <1>4 DEF CacheInv

\* Every row is folded or in the hand of the running cycle, until a process dies.
THEOREM CacheInvariant == Spec => []CacheInv
<1>1. ASSUME BarsInv, CacheInv, BarsInv', [Next]_vars PROVE CacheInv'
  <2>1. CASE PreflightStep
    <3>1. CASE Candidates \/ RecordParity
      BY <1>1, <3>1, QuietCacheSteps
    <3>2. ASSUME NEW s \in Symbols, Bootstrap(s) \/ Detect(s) \/ Rebuild(s) PROVE CacheInv'
      BY <1>1, <3>2, BootstrapCache, DetectCache, RebuildCache
    <3> QED BY <2>1, <3>1, <3>2 DEF PreflightStep
  <2>2. CASE CycleStep
    <3>1. CASE ExpectBar \/ FetchExpected \/ RecordSignals
      BY <1>1, <3>1, ExpectCache, QuietCacheSteps
    <3>2. ASSUME NEW s \in Symbols, Backfill(s) \/ CatchUp(s) \/ Persist(s) \/ Process(s)
          PROVE  CacheInv'
      BY <1>1, <3>2, BackfillCache, CatchUpCache, PersistCache, ProcessCache
    <3> QED BY <2>2, <3>1, <3>2 DEF CycleStep
  <2>3. CASE Tick \/ Crash \/ StartPreflight \/ StartCycle
    BY <1>1, <2>3, QuietCacheSteps, CrashCache
  <2>4. ASSUME NEW s \in Symbols, DeliverLate(s) \/ SplitOvernight(s) PROVE CacheInv'
    BY <1>1, <2>4, LateCache, QuietCacheSteps
  <2>5. CASE UNCHANGED vars
    BY <1>1, <2>5 DEF vars, CacheInv, InHand, Behind, Ingesting, Rows, Whole
  <2> QED BY <1>1, <2>1, <2>2, <2>3, <2>4, <2>5 DEF Next
<1> QED BY <1>1, InitCache, BarsInvariant, PTL DEF Spec

\* A bar that is cached is folded, in its turn and before the stage ends; it takes
\* a process that died between the two transactions to lose one.
THEOREM BarsLostOnlyByCrash == Spec => []LostOnlyByCrash
<1>1. ASSUME BarsInv, CacheInv PROVE LostOnlyByCrash
  <2>1. SUFFICES ASSUME faults.crash = 0
                 PROVE  /\ NothingPassedOver
                        /\ run.pc = "idle" => \A s \in Symbols : LastCached(s) <= LastFed(fold[s])
    BY DEF LostOnlyByCrash
  <2>2. NothingPassedOver
    BY <1>1, <2>1 DEF CacheInv, Whole, NothingPassedOver, FedSlots
  <2>3. ASSUME run.pc = "idle", NEW s \in Symbols PROVE LastCached(s) <= LastFed(fold[s])
    <3>1. /\ \A t \in DOMAIN bars[s] : ~(t > LastFed(fold[s]))
          /\ LastFed(fold[s]) \in 0..clock /\ clock \in Nat
      BY <1>1, <2>1, <2>3, NothingBehind, BarConstants DEF Settled, CacheInv, BarsInv, BarsType
    <3>2. /\ DOMAIN bars[s] = {} => LastCached(s) = 0
          /\ DOMAIN bars[s] # {} => LastCached(s) \in DOMAIN bars[s]
          /\ LastCached(s) \in Nat
      BY <1>1, NewestRow
    <3> QED BY <3>1, <3>2
  <2> QED BY <2>2, <2>3
<1> QED BY <1>1, BarsInvariant, CacheInvariant, PTL

(***************************************************************************)
(* A fold keeps to one scale, unless the look for the split has missed it.  *)
(***************************************************************************)
\* The fold is on the scale of the feed, and so are the rows it may still take.
OfScale(f, rows, s) ==
  /\ \A x \in Range(f.fed) : x.scale = Scale(s)
  /\ \A t \in DOMAIN rows : t > LastFed(f) => rows[t] = Scale(s)
Sound(s) ==
  look[s] # "missed" /\ fold[s].bootstrapped /\ ~fold[s].pending => OfScale(fold[s], bars[s], s)

\* Before its split all of a symbol is on the old scale.
Unsplit(s) ==
  split[s] = 0 => /\ \A x \in Range(fold[s].fed) : x.scale = 0
                  /\ \A t \in DOMAIN bars[s] : bars[s][t] = 0
\* The symbols this morning's detection is done with.
Examined == IF run.pc = "parity" THEN Symbols
            ELSE IF run.pc \in {"detect", "rebuild"} THEN Symbols \ run.todo ELSE {}
\* Those, every symbol under this morning's result, and whose split was found before.
Answered(s) == parity = Today \/ s \in Examined \/ look[s] = "found"
\* A result of this morning is older than the session, and newer than any split.
SameMorning ==
  /\ parity <= Today
  /\ parity = Today /\ BetweenSessions => run.started
  /\ run.pc \in Morning => run.started
\* A flagged symbol stays out of the cycle.
FlaggedOut ==
  /\ run.pc = "rebuild" => \A s \in run.written : fold[s].pending
  /\ run.pc \in {"backfill", "catchup", "persist", "process"} => run.todo \subseteq Ingesting
  /\ run.pc = "process" => run.written \subseteq run.todo
  /\ \A c \in run.confs : c.symbol \in Ingesting
ScaleInv ==
  /\ \A s \in Symbols : Unsplit(s) /\ LastFed(fold[s]) <= clock
  /\ \A s \in Symbols : Answered(s) => Sound(s)
  /\ SameMorning /\ FlaggedOut

\* What the scale of a symbol depends on.
LEMMA SameScale ==
  ASSUME UNCHANGED <<clock, split>>
  PROVE  /\ Today' = Today /\ (BetweenSessions' <=> BetweenSessions)
         /\ \A s : /\ Scale(s)' = Scale(s)
                   /\ (bars')[s] = bars[s] /\ (fold')[s] = fold[s]
                        => /\ Unsplit(s)' <=> Unsplit(s)
                           /\ (look')[s] = look[s] => (Sound(s)' <=> Sound(s))
<1>1. Today' = Today /\ (BetweenSessions' <=> BetweenSessions)
  BY DEF Today, BetweenSessions
<1>2. ASSUME NEW s
      PROVE  Scale(s)' = Scale(s)
  BY DEF Scale
<1>3. ASSUME NEW s, (bars')[s] = bars[s], (fold')[s] = fold[s]
      PROVE  /\ Unsplit(s)' <=> Unsplit(s)
             /\ (look')[s] = look[s] => (Sound(s)' <=> Sound(s))
  <2>1. Unsplit(s)' <=> Unsplit(s)
    BY <1>3 DEF Unsplit
  <2>2. OfScale(fold[s], bars[s], s)' <=> OfScale(fold[s], bars[s], s)
    BY <1>2, <1>3 DEF OfScale, LastFed
  <2> QED BY <1>3, <2>1, <2>2 DEF Sound
<1> QED BY <1>1, <1>2, <1>3

\* A step that leaves the symbols as they are.
LEMMA QuietScale ==
  ASSUME ScaleInv, UNCHANGED <<clock, split, look, bars, fold>>,
         \A s \in Symbols : parity' = Today \/ s \in Examined'
                              => parity = Today \/ s \in Examined \/ ~fold[s].bootstrapped,
         SameMorning', FlaggedOut'
  PROVE  ScaleInv'
<1>1. Today' = Today /\ \A s : /\ Unsplit(s)' <=> Unsplit(s)
                               /\ Sound(s)' <=> Sound(s)
  BY SameScale
<1>2. ASSUME NEW s \in Symbols PROVE Unsplit(s)' /\ LastFed((fold')[s]) <= clock'
  BY <1>1 DEF ScaleInv
<1>3. ASSUME NEW s \in Symbols, Answered(s)' PROVE Sound(s)'
  BY <1>1, <1>3 DEF ScaleInv, Sound, Answered
<1> QED BY <1>2, <1>3 DEF ScaleInv

\* A bar closes: a new session has no result yet.
LEMMA TickScale == ASSUME BarsInv, ScaleInv, Tick PROVE ScaleInv'
<1>1. /\ clock \in Nat \ {0} /\ clock' = clock + 1 /\ parity \in Nat
      /\ run.pc \in {"idle", "reconcile"} /\ run' = [run EXCEPT !.started = FALSE]
      /\ UNCHANGED <<split, look, bars, fold, parity>>
      /\ run \in RunRecord /\ run.confs = {}
  <2>1. run.confs = {}
    BY DEF Tick, BarsInv, RunHolds, Ingest
  <2> QED BY <2>1, BarConstants DEF BarsInv, BarsType, Tick
<1>2. run'.pc = run.pc /\ run'.confs = {} /\ run'.started = FALSE
  BY <1>1 DEF RunRecord
<1>3. /\ Today \in Nat /\ Today' \in Nat /\ Today <= Today'
      /\ BetweenSessions' => Today < Today'
  <2> DEFINE n == SlotsPerDay
  <2>1. n \in Nat \ {0}
    BY BarConstants
  <2>2. ASSUME NEW x \in Nat \ {0}, NEW y, y = x + 1
        PROVE  LET d(z) == IF z % n = 0 THEN z \div n ELSE (z - 1) \div n IN
               /\ d(x) \in Nat /\ d(y) \in Nat /\ d(x) <= d(y)
               /\ y % n = 0 => d(x) < d(y)
    <3> DEFINE q == (x - 1) \div n
               r == (x - 1) % n
    <3>1. q \in Nat /\ r \in 0..(n - 1) /\ x = n * q + r + 1
      BY <2>1
    <3>2. CASE r + 1 < n
      <4>1. x \div n = q /\ x % n = r + 1
        BY <2>1, <3>1, <3>2
      <4>2. (y - 1) \div n = q
        BY <2>2, <4>1
      <4>3. y % n = 0 => y \div n = q + 1
        BY <2>1, <2>2, <3>1, <3>2
      <4> QED BY <2>2, <3>1, <4>1, <4>2, <4>3
    <3>3. CASE r + 1 = n
      <4>1. x = n * (q + 1)
        BY <2>1, <3>1, <3>3
      <4>2. x \div n = q + 1 /\ x % n = 0
        <5> HIDE DEF q, n
        <5>1. q + 1 \in Nat
          BY <3>1
        <5>2. \A m \in Nat : (n * m) \div n = m /\ (n * m) % n = 0
          BY <2>1
        <5> QED BY <4>1, <5>1, <5>2
      <4>3. (y - 1) \div n = q + 1
        BY <2>2, <4>2
      <4>4. y % n = 0 => y \div n = q + 2
        BY <2>1, <2>2, <3>1, <4>1
      <4> QED BY <2>2, <3>1, <4>2, <4>3, <4>4
    <3> QED BY <2>1, <3>1, <3>2, <3>3
  <2> QED BY <1>1, <2>2 DEF Today, BetweenSessions, Day
<1>4. ScaleInv
  OBVIOUS
<1>5. SameMorning'
  BY <1>1, <1>2, <1>3, <1>4 DEF ScaleInv, SameMorning, Morning
<1>6. FlaggedOut'
  BY <1>1, <1>2 DEF FlaggedOut
<1>7. ASSUME NEW s \in Symbols PROVE Unsplit(s)' /\ LastFed((fold')[s]) <= clock'
  <2>1. Unsplit(s)'
    BY <1>1, <1>4 DEF ScaleInv, Unsplit
  <2>2. fold[s] \in FoldRecord
    BY DEF BarsInv, BarsType
  <2>3. LastFed(fold[s]) \in Nat /\ LastFed(fold[s]) <= clock
    BY <1>4, <2>2, FedEnds DEF ScaleInv
  <2> QED BY <1>1, <2>1, <2>3
<1>8. ASSUME NEW s \in Symbols, Answered(s)' PROVE Sound(s)'
  <2>1. Examined' = {}
    BY <1>1, <1>2 DEF Examined
  <2>2. parity = Today \/ look[s] = "found"
    BY <1>1, <1>3, <1>4, <1>8, <2>1 DEF ScaleInv, SameMorning, Answered
  <2>3. Sound(s)
    BY <1>4, <2>2 DEF ScaleInv, Answered
  <2>4. OfScale(fold[s], bars[s], s)' <=> OfScale(fold[s], bars[s], s)
    BY <1>1 DEF OfScale, LastFed, Scale
  <2> QED BY <1>1, <2>3, <2>4 DEF Sound
<1> QED BY <1>5, <1>6, <1>7, <1>8 DEF ScaleInv

\* A split comes before the morning's result.
LEMMA SplitScale ==
  ASSUME BarsInv, ScaleInv, LookType, NEW s \in Symbols, SplitOvernight(s)
  PROVE  ScaleInv'
<1>1. /\ run.pc = "idle" /\ BetweenSessions /\ split[s] = 0 /\ ~run.started
      /\ split' = [split EXCEPT ![s] = Today]
      /\ look' = [look EXCEPT ![s] = "none"]
      /\ UNCHANGED <<clock, bars, fold, parity, run>>
      /\ split \in [Symbols -> 0..LastSlot]
  BY DEF SplitOvernight, BarsInv, BarsType
<1>2. Today' = Today /\ BetweenSessions'
  BY <1>1 DEF Today, BetweenSessions
<1>3. parity # Today /\ Examined' = {}
  BY <1>1 DEF ScaleInv, SameMorning, Examined
<1>4. \A x \in Symbols : Unsplit(x)'
  <2>1. \A x \in Symbols : (split')[x] = 0 => split[x] = 0
    BY <1>1
  <2> QED BY <1>1, <2>1 DEF ScaleInv, Unsplit
<1>5. SameMorning' /\ FlaggedOut'
  BY <1>1, <1>2 DEF ScaleInv, SameMorning, FlaggedOut, Ingesting
<1>6. ASSUME NEW x \in Symbols, Answered(x)' PROVE Sound(x)'
  <2>1. (look')[x] = "found"
    BY <1>1, <1>2, <1>3, <1>6 DEF Answered
  <2>2. x # s /\ look[x] = "found"
    BY <1>1, <2>1 DEF LookType
  <2>3. Sound(x)
    BY <2>2 DEF ScaleInv, Answered
  <2>4. Scale(x)' = Scale(x)
    BY <1>1, <2>2 DEF Scale
  <2>5. OfScale(fold[x], bars[x], x)' <=> OfScale(fold[x], bars[x], x)
    BY <1>1, <2>4 DEF OfScale, LastFed
  <2> QED BY <1>1, <2>1, <2>2, <2>3, <2>5 DEF Sound
<1> QED BY <1>1, <1>2, <1>4, <1>5, <1>6 DEF ScaleInv

\* The steps that move no bar and look at no symbol.
LEMMA QuietScaleSteps ==
  ASSUME BarsInv, ScaleInv,
         \/ Crash \/ StartPreflight \/ Candidates \/ RecordParity
         \/ StartCycle \/ ExpectBar \/ FetchExpected \/ RecordSignals
         \/ \E s \in Symbols : DeliverLate(s)
  PROVE  ScaleInv'
<1>1. /\ run \in RunRecord /\ fold \in [Symbols -> FoldRecord] /\ clock \in Nat
      /\ run.pc \in Morning => BetweenSessions /\ run.confs = {}
      /\ run.confs # {} => run.pc \in Ingest
      /\ SameMorning /\ FlaggedOut
  BY BarConstants DEF BarsInv, BarsType, RunHolds, ScaleInv, Morning, Ingest
<1>2. UNCHANGED <<clock, split, look, bars, fold>>
  BY DEF Crash, StartPreflight, Candidates, RecordParity, StartCycle, ExpectBar, FetchExpected,
         RecordSignals, DeliverLate
<1>3. Today' = Today /\ (BetweenSessions' <=> BetweenSessions) /\ Ingesting' = Ingesting
  BY <1>2 DEF Today, BetweenSessions, Ingesting
<1>4. Stop.pc = "idle" /\ Stop.started = run.started /\ Stop.confs = {} /\ Stop.todo = {}
  BY DEF Stop, Idle
<1>5. CASE Crash \/ RecordSignals
  <2>1. run' = Stop /\ parity' = parity
    BY <1>5 DEF Crash, RecordSignals
  <2>2. SameMorning' /\ FlaggedOut' /\ Examined' = {}
    BY <1>1, <1>3, <1>4, <2>1 DEF SameMorning, FlaggedOut, Examined, Morning
  <2> QED BY <1>2, <1>3, <2>1, <2>2, QuietScale
<1>6. CASE RecordParity
  <2>1. run' = Stop /\ parity' = Today /\ run.pc = "parity"
    BY <1>6 DEF RecordParity
  <2>2. run.pc \in Morning
    BY <2>1 DEF Morning
  <2>3. Today \in Nat
    BY <1>1, <2>2, BarConstants DEF Today
  <2>4. SameMorning' /\ FlaggedOut' /\ Examined = Symbols
    BY <1>1, <1>3, <1>4, <2>1, <2>2, <2>3 DEF SameMorning, FlaggedOut, Examined, Morning
  <2> QED BY <1>2, <2>4, QuietScale
<1>7. CASE StartPreflight \/ StartCycle
  <2>1. /\ parity' = parity /\ run'.pc \in {"bootstrap", "reconcile"}
        /\ run'.started = TRUE /\ run'.confs = {}
    BY <1>7 DEF StartPreflight, StartCycle, Idle
  <2>2. SameMorning' /\ FlaggedOut' /\ Examined' = {}
    BY <1>1, <1>3, <2>1 DEF SameMorning, FlaggedOut, Examined
  <2> QED BY <1>2, <1>3, <2>1, <2>2, QuietScale
<1>8. CASE Candidates
  <2> DEFINE some == {s \in Symbols : fold[s].bootstrapped}
  <2>1. run.pc = "candidates" /\ parity' = parity
    BY <1>8 DEF Candidates
  <2>2. run.started /\ run.confs = {}
    BY <1>1, <2>1 DEF SameMorning, Morning
  <2>3. run' = IF some = {} THEN [run EXCEPT !.pc = "parity"]
                            ELSE [run EXCEPT !.pc = "detect", !.todo = some]
    BY <1>8 DEF Candidates, Goto
  <2>4. \A s \in some : fold[s].bootstrapped
    OBVIOUS
  <2>5. \A s \in Symbols \ some : ~fold[s].bootstrapped
    OBVIOUS
  <2> HIDE DEF some
  <2>6. /\ run'.started = TRUE /\ run'.confs = {}
        /\ \/ some = {} /\ run'.pc = "parity"
           \/ run'.pc = "detect" /\ run'.todo = some
    <3>1. run.started = TRUE
      BY <1>1, <2>2 DEF RunRecord
    <3> QED BY <1>1, <2>2, <2>3, <3>1 DEF RunRecord
  <2>7. SameMorning' /\ FlaggedOut'
    BY <1>1, <1>3, <2>1, <2>6 DEF SameMorning, FlaggedOut
  <2>8. \A s \in Examined' : s \in Symbols /\ ~fold[s].bootstrapped
    BY <2>5, <2>6 DEF Examined
  <2> QED BY <1>2, <1>3, <2>1, <2>7, <2>8, QuietScale
<1>9. CASE ExpectBar
  <2>1. /\ run.pc = "reconcile" /\ parity' = parity
        /\ run'.pc \in {"record", "backfill"} /\ run'.todo = Ingesting
        /\ run'.started = run.started /\ run'.confs = run.confs
    BY <1>1, <1>9 DEF ExpectBar, RunRecord
  <2>2. SameMorning' /\ FlaggedOut' /\ Examined' = {}
    BY <1>1, <1>3, <2>1 DEF SameMorning, FlaggedOut, Examined, Morning
  <2> QED BY <1>2, <1>3, <2>1, <2>2, QuietScale
<1>10. CASE FetchExpected
  <2>1. /\ run.pc = "fetch" /\ parity' = parity
        /\ run'.pc \in {"record", "persist"} /\ run'.todo \subseteq Ingesting
        /\ run'.started = run.started /\ run'.confs = run.confs
    <3>1. run.pc = "fetch" /\ parity' = parity
      BY <1>10 DEF FetchExpected
    <3>2. PICK found \in SUBSET Ingesting :
            run' = [run EXCEPT !.pc = IF found = {} THEN "record" ELSE "persist", !.todo = found]
      BY <1>10 DEF FetchExpected
    <3> QED BY <1>1, <3>1, <3>2 DEF RunRecord
  <2>2. SameMorning' /\ FlaggedOut' /\ Examined' = {}
    BY <1>1, <1>3, <2>1 DEF SameMorning, FlaggedOut, Examined, Morning
  <2> QED BY <1>2, <1>3, <2>1, <2>2, QuietScale
<1>11. CASE \E s \in Symbols : DeliverLate(s)
  <2>1. UNCHANGED <<parity, run>>
    BY <1>11 DEF DeliverLate
  <2>2. SameMorning' /\ FlaggedOut' /\ Examined' = Examined
    BY <1>1, <1>2, <1>3, <2>1 DEF SameMorning, FlaggedOut, Examined
  <2> QED BY <1>2, <1>3, <2>1, <2>2, QuietScale
<1> QED BY <1>5, <1>6, <1>7, <1>8, <1>9, <1>10, <1>11

\* Bars in order keep the scale of their rows.
LEMMA InOrderScale ==
  ASSUME NEW b, DOMAIN b \in SUBSET Slots
  PROVE  \A x \in Range(InOrder(b)) : x.slot \in DOMAIN b /\ x.scale = b[x.slot]
<1> DEFINE n == Cardinality(DOMAIN b)
           at(i) == CHOOSE t \in DOMAIN b : Cardinality({u \in DOMAIN b : u <= t}) = i
           bar(i) == [slot |-> at(i), scale |-> b[at(i)]]
<1>1. \A i \in 1..n : at(i) \in DOMAIN b
  BY RankTaken
<1>2. InOrder(b) = [i \in 1..n |-> bar(i)]
  BY DEF InOrder
<1>3. \A i \in 1..n : bar(i).slot \in DOMAIN b /\ bar(i).scale = b[bar(i).slot]
  <2> HIDE DEF at
  <2> QED BY <1>1
<1> HIDE DEF n, bar
<1> QED BY <1>2, <1>3 DEF Range

\* A history that is folded is of one scale, and leaves no row behind.
LEMMA HistoryScale ==
  ASSUME BarsInv, NEW s \in Symbols, NEW f, NEW rows,
         f.fed = InOrder(Fetched(s, 1, clock)),
         f.history = Cardinality(DOMAIN Fetched(s, 1, clock)),
         rows = bars[s] \/ rows = Fetched(s, 1, clock)
  PROVE  OfScale(f, rows, s) /\ LastFed(f) <= clock
<1> DEFINE b == Fetched(s, 1, clock)
<1>1. DOMAIN b \in SUBSET Slots /\ \A t \in DOMAIN b : b[t] = Scale(s)
  <2>1. feed[s] \subseteq Slots
    BY BarConstants DEF BarsInv, BarsType, Slots
  <2> QED BY <2>1 DEF Fetched
<1>2. \A x \in Range(InOrder(b)) : x.scale = Scale(s)
  <2> HIDE DEF b
  <2> QED BY <1>1, InOrderScale
<1>3. /\ LastFed(f) \in 0..clock
      /\ \A t \in DOMAIN bars[s] : ~(t > LastFed(f))
      /\ \A t \in DOMAIN b : ~(t > LastFed(f))
  BY FoldedHistory
<1>4. clock \in Nat
  BY BarConstants DEF BarsInv, BarsType
<1> HIDE DEF b
<1> QED BY <1>2, <1>3, <1>4 DEF OfScale, b

\* A step on one symbol alone: it has to say something of that one.
LEMMA SymbolScale ==
  ASSUME ScaleInv, UNCHANGED <<clock, split, parity>>, NEW s \in Symbols,
         \A x \in Symbols :
           x # s => (bars')[x] = bars[x] /\ (fold')[x] = fold[x] /\ (look')[x] = look[x],
         Examined' \subseteq Examined \cup {s},
         Unsplit(s)', LastFed((fold')[s]) <= clock,
         Answered(s)' => Sound(s)',
         SameMorning', FlaggedOut'
  PROVE  ScaleInv'
<1>1. /\ Today' = Today
      /\ \A x \in Symbols : x # s => (Unsplit(x)' <=> Unsplit(x)) /\ (Sound(x)' <=> Sound(x))
  BY SameScale
<1>2. ASSUME NEW x \in Symbols
      PROVE  Unsplit(x)' /\ LastFed((fold')[x]) <= clock'
  BY <1>1 DEF ScaleInv
<1>3. ASSUME NEW x \in Symbols, Answered(x)' PROVE Sound(x)'
  BY <1>1, <1>3 DEF ScaleInv, Answered
<1> QED BY <1>2, <1>3 DEF ScaleInv

\* One symbol is bootstrapped.
LEMMA BootstrapScale ==
  ASSUME BarsInv, ScaleInv, NEW s \in Symbols, Bootstrap(s) PROVE ScaleInv'
<1> DEFINE b == Fetched(s, 1, clock)
           g == [Bootstrapped(b) EXCEPT !.pending = fold[s].pending]
<1>1. /\ run.pc = "bootstrap" /\ run' = Done(s, "candidates")
      /\ UNCHANGED <<clock, split, look, bars, parity>>
      /\ fold' = fold \/ fold' = [fold EXCEPT ![s] = g]
  BY DEF Bootstrap
<1>2. /\ run \in RunRecord /\ fold \in [Symbols -> FoldRecord] /\ run.confs = {}
      /\ SameMorning
  BY <1>1, MorningParts DEF Morning, ScaleInv
<1>3. /\ run'.pc \in {"bootstrap", "candidates"} /\ run'.confs = {} /\ run'.started = run.started
  BY <1>1, <1>2 DEF Done, RunRecord
<1>4. Today' = Today /\ (BetweenSessions' <=> BetweenSessions) /\ Scale(s)' = Scale(s)
      /\ (look')[s] = look[s]
      /\ (\A x : (bars')[x] = bars[x] /\ (fold')[x] = fold[x]
                   => (Unsplit(x)' <=> Unsplit(x)) /\ (Sound(x)' <=> Sound(x)))
  BY <1>1, SameScale
<1>5. SameMorning' /\ FlaggedOut' /\ Examined' = {}
  BY <1>1, <1>2, <1>3, <1>4 DEF SameMorning, FlaggedOut, Examined, Morning
<1>6. g.fed = InOrder(b) /\ g.history = Cardinality(DOMAIN b)
  BY DEF Bootstrapped
<1> HIDE DEF g, b
<1>7. OfScale(g, bars[s], s) /\ LastFed(g) <= clock
  BY <1>6, HistoryScale DEF b
<1>8. \A x \in Symbols : x # s => (fold')[x] = fold[x]
  BY <1>1, <1>2
<1>9. CASE (fold')[s] = fold[s]
  <2>1. Unsplit(s)' /\ LastFed((fold')[s]) <= clock /\ (Answered(s)' => Sound(s)')
    BY <1>1, <1>4, <1>5, <1>9 DEF ScaleInv, Answered
  <2> QED BY <1>1, <1>5, <1>8, <2>1, SymbolScale
<1>10. CASE (fold')[s] = g
  <2>1. OfScale(fold[s], bars[s], s)'
    BY <1>1, <1>4, <1>7, <1>10 DEF OfScale, LastFed
  <2>2. Unsplit(s)'
    <3>1. split[s] = 0 => \A t \in DOMAIN bars[s] : bars[s][t] = 0
      BY DEF ScaleInv, Unsplit
    <3>2. split[s] = 0 => \A x \in Range(g.fed) : x.scale = 0
      BY <1>7 DEF OfScale, Scale
    <3> QED BY <1>1, <1>10, <3>1, <3>2 DEF Unsplit
  <2>3. Sound(s)'
    BY <2>1 DEF Sound
  <2> QED BY <1>1, <1>5, <1>7, <1>8, <1>10, <2>2, <2>3, SymbolScale
<1> QED BY <1>1, <1>2, <1>9, <1>10

\* What a look for a split comes to: it flags the symbol, or finds nothing or a conflict.
LEMMA DetectFlags ==
  ASSUME LookType, NEW s \in Symbols, Detect(s)
  PROVE  /\ \A x \in Symbols : x # s => (look')[x] = look[x]
         /\ \/ /\ fold' = [fold EXCEPT ![s].pending = TRUE]
               /\ run' = [run EXCEPT !.pc = "rebuild", !.written = {s}]
            \/ /\ fold' = fold /\ run' = Done(s, "parity")
               /\ (look')[s] = IF split[s] # 0 /\ look[s] = "none" THEN "missed" ELSE look[s]
<1>1. PICK v : /\ look' = [look EXCEPT ![s] = Looked(s, v)]
               /\ IF v = "split"
                    THEN /\ fold' = [fold EXCEPT ![s].pending = TRUE]
                         /\ run' = [run EXCEPT !.pc = "rebuild", !.written = {s}]
                    ELSE fold' = fold /\ run' = Done(s, "parity")
  BY DEF Detect
<1>2. (look')[s] = Looked(s, v) /\ \A x \in Symbols : x # s => (look')[x] = look[x]
  BY <1>1 DEF LookType
<1> QED BY <1>1, <1>2 DEF Looked

\* One symbol is looked at for a split.
LEMMA DetectScale ==
  ASSUME BarsInv, ScaleInv, LookType, NEW s \in Symbols, Detect(s)
  PROVE  ScaleInv'
<1>1. /\ run.pc = "detect" /\ UNCHANGED <<clock, split, bars, parity>>
      /\ \A x \in Symbols : x # s => (look')[x] = look[x]
  BY DetectFlags DEF Detect
<1>2. /\ run \in RunRecord /\ fold \in [Symbols -> FoldRecord] /\ run.confs = {}
      /\ SameMorning /\ Unsplit(s) /\ LastFed(fold[s]) <= clock
  BY <1>1, MorningParts DEF Morning, ScaleInv
<1>3. /\ Today' = Today /\ (BetweenSessions' <=> BetweenSessions) /\ Scale(s)' = Scale(s)
      /\ (fold')[s] = fold[s] => (Unsplit(s)' <=> Unsplit(s))
  BY <1>1, SameScale
<1>4. CASE /\ fold' = [fold EXCEPT ![s].pending = TRUE]
           /\ run' = [run EXCEPT !.pc = "rebuild", !.written = {s}]
  <2> DEFINE g == [fold[s] EXCEPT !.pending = TRUE]
  <2>1. g.fed = fold[s].fed /\ g.pending = TRUE
    BY <1>2 DEF FoldRecord
  <2>2. fold' = [fold EXCEPT ![s] = g]
    BY <1>4
  <2> HIDE DEF g
  <2>3. (fold')[s].fed = fold[s].fed /\ (fold')[s].pending = TRUE
        /\ \A x \in Symbols : x # s => (fold')[x] = fold[x]
    BY <1>2, <2>1, <2>2
  <2>4. /\ run'.pc = "rebuild" /\ run'.written = {s} /\ run'.todo = run.todo /\ run'.confs = {}
        /\ run'.started = run.started
    BY <1>2, <1>4 DEF RunRecord
  <2>5. Unsplit(s)' /\ LastFed((fold')[s]) <= clock /\ Sound(s)'
    BY <1>1, <1>2, <2>3 DEF Unsplit, LastFed, Sound
  <2>6. SameMorning' /\ FlaggedOut' /\ Examined' = Examined
    BY <1>1, <1>2, <1>3, <2>3, <2>4 DEF SameMorning, FlaggedOut, Examined, Morning
  <2> QED BY <1>1, <2>3, <2>5, <2>6, SymbolScale
<1>5. CASE /\ fold' = fold /\ run' = Done(s, "parity")
           /\ (look')[s] = IF split[s] # 0 /\ look[s] = "none" THEN "missed" ELSE look[s]
  <2>1. /\ run'.confs = {} /\ run'.started = run.started
        /\ \/ run'.pc = "parity" /\ run.todo = {s}
           \/ run'.pc = "detect" /\ run'.todo = run.todo \ {s}
    BY <1>1, <1>2, <1>5 DEF Done, RunRecord
  <2>2. SameMorning' /\ FlaggedOut' /\ Examined' \subseteq Examined \cup {s}
    BY <1>1, <1>2, <1>3, <2>1 DEF SameMorning, FlaggedOut, Examined, Morning
  <2>3. Sound(s)'
    <3>1. CASE split[s] = 0
      BY <1>1, <1>2, <1>5, <3>1 DEF Sound, Unsplit, OfScale, Scale, LastFed
    <3>2. CASE split[s] # 0 /\ look[s] = "none"
      BY <1>5, <3>2 DEF Sound
    <3>3. CASE split[s] # 0 /\ look[s] = "missed"
      BY <1>5, <3>3 DEF Sound
    <3>4. CASE split[s] # 0 /\ look[s] = "found"
      <4>1. Sound(s)
        BY <3>4 DEF ScaleInv, Answered
      <4>2. (look')[s] = look[s]
        BY <1>5, <3>4
      <4> QED BY <1>1, <1>5, <4>1, <4>2, SameScale
    <3> QED BY <3>1, <3>2, <3>3, <3>4 DEF LookType
  <2>4. Unsplit(s)' /\ LastFed((fold')[s]) <= clock
    BY <1>2, <1>3, <1>5
  <2> QED BY <1>1, <1>5, <2>2, <2>3, <2>4, SymbolScale
<1> QED BY <1>4, <1>5, DetectFlags

\* One symbol is rebuilt, or stays flagged.
LEMMA RebuildScale ==
  ASSUME BarsInv, ScaleInv, NEW s \in Symbols, Rebuild(s) PROVE ScaleInv'
<1> DEFINE h == Fetched(s, 1, clock)
           g == Bootstrapped(h)
<1>1. /\ run.pc = "rebuild" /\ run.written = {s} /\ UNCHANGED <<clock, split, look, parity>>
      /\ run' = [Done(s, "parity") EXCEPT !.written = {},
                    !.pc = IF run.todo = {s} THEN "parity" ELSE "detect"]
      /\ \/ bars' = bars /\ fold' = fold
         \/ bars' = [bars EXCEPT ![s] = h] /\ fold' = [fold EXCEPT ![s] = g]
  BY DEF Rebuild
<1>2. /\ run \in RunRecord /\ fold \in [Symbols -> FoldRecord] /\ run.confs = {}
      /\ bars = [x \in Symbols |-> bars[x]]
      /\ SameMorning /\ Unsplit(s) /\ LastFed(fold[s]) <= clock /\ fold[s].pending
  BY <1>1, MorningParts DEF Morning, ScaleInv, FlaggedOut
<1>3. /\ Today' = Today /\ (BetweenSessions' <=> BetweenSessions) /\ Scale(s)' = Scale(s)
      /\ (bars')[s] = bars[s] /\ (fold')[s] = fold[s]
           => (Unsplit(s)' <=> Unsplit(s)) /\ (Sound(s)' <=> Sound(s))
  BY <1>1, SameScale
<1>4. /\ run'.confs = {} /\ run'.started = run.started
      /\ \/ run'.pc = "parity" /\ run.todo = {s}
         \/ run'.pc = "detect" /\ run'.todo = run.todo \ {s}
  <2> DEFINE next == Done(s, "parity")
  <2>1. /\ next \in RunRecord /\ next.confs = {} /\ next.started = run.started
        /\ run.todo # {s} => next.todo = run.todo \ {s}
    BY <1>1, <1>2 DEF Done, RunRecord, Morning
  <2> HIDE DEF next
  <2>2. run' = [next EXCEPT !.written = {}, !.pc = IF run.todo = {s} THEN "parity" ELSE "detect"]
    BY <1>1 DEF next
  <2> QED BY <2>1, <2>2 DEF RunRecord
<1>5. SameMorning' /\ FlaggedOut' /\ Examined' \subseteq Examined \cup {s}
  BY <1>1, <1>2, <1>3, <1>4 DEF SameMorning, FlaggedOut, Examined, Morning
<1>6. g.fed = InOrder(h) /\ g.history = Cardinality(DOMAIN h)
  BY DEF Bootstrapped
<1>7. \A t \in DOMAIN h : h[t] = Scale(s)
  BY DEF Fetched
<1> HIDE DEF g, h
<1>8. OfScale(g, h, s) /\ LastFed(g) <= clock
  BY <1>6, HistoryScale DEF h
<1>9. \A x \in Symbols : x # s => (bars')[x] = bars[x] /\ (fold')[x] = fold[x]
  BY <1>1, <1>2
<1>10. CASE bars' = bars /\ fold' = fold
  <2>1. Sound(s)'
    BY <1>2, <1>10 DEF Sound
  <2> QED BY <1>1, <1>2, <1>3, <1>5, <1>9, <1>10, <2>1, SymbolScale
<1>11. CASE bars' = [bars EXCEPT ![s] = h] /\ fold' = [fold EXCEPT ![s] = g]
  <2>1. (bars')[s] = h /\ (fold')[s] = g
    BY <1>2, <1>11
  <2>2. OfScale(fold[s], bars[s], s)'
    BY <1>3, <1>8, <2>1 DEF OfScale, LastFed
  <2>3. Unsplit(s)'
    <3>1. split[s] = 0 => /\ \A x \in Range(g.fed) : x.scale = 0
                          /\ \A t \in DOMAIN h : h[t] = 0
      BY <1>7, <1>8 DEF OfScale, Scale
    <3> QED BY <1>1, <2>1, <3>1 DEF Unsplit
  <2>4. Sound(s)'
    BY <2>2 DEF Sound
  <2> QED BY <1>1, <1>5, <1>8, <1>9, <2>1, <2>3, <2>4, SymbolScale
<1> QED BY <1>1, <1>10, <1>11

\* Fetched rows that are merged are of the scale of now.
LEMMA MergedScale ==
  ASSUME BarsInv, ScaleInv, UNCHANGED <<clock, split, look, fold, parity>>, NEW s \in Symbols,
         NEW from, NEW to, bars' = [bars EXCEPT ![s] = Merged(bars[s], Fetched(s, from, to))],
         Examined' \subseteq Examined, SameMorning', FlaggedOut'
  PROVE  ScaleInv'
<1> DEFINE new == Fetched(s, from, to)
           rows == Merged(bars[s], new)
<1>1. \A t \in DOMAIN new : new[t] = Scale(s)
  BY DEF Fetched
<1>2. \A t \in DOMAIN rows : (t \in DOMAIN bars[s] /\ rows[t] = bars[s][t])
                               \/ (t \in DOMAIN new /\ rows[t] = new[t])
  BY DEF Merged
<1> HIDE DEF new, rows
<1>3. \A t \in DOMAIN rows : (t \in DOMAIN bars[s] /\ rows[t] = bars[s][t]) \/ rows[t] = Scale(s)
  BY <1>1, <1>2
<1>4. (bars')[s] = rows /\ \A x \in Symbols : x # s => (bars')[x] = bars[x]
  <2>1. bars = [x \in Symbols |-> bars[x]]
    BY DEF BarsInv, BarsType
  <2>2. bars' = [bars EXCEPT ![s] = rows]
    BY DEF rows, new
  <2> QED BY <2>1, <2>2
<1>5. Today' = Today /\ Scale(s)' = Scale(s)
  BY SameScale
<1>6. Unsplit(s)'
  BY <1>3, <1>4 DEF ScaleInv, Unsplit, Scale
<1>7. ASSUME Answered(s)' PROVE Sound(s)'
  <2>1. Sound(s)
    BY <1>5, <1>7 DEF ScaleInv, Answered
  <2>2. OfScale(fold[s], bars[s], s) => OfScale(fold[s], bars[s], s)'
    BY <1>3, <1>4, <1>5 DEF OfScale, LastFed
  <2> QED BY <2>1, <2>2 DEF Sound
<1>8. LastFed((fold')[s]) <= clock
  BY DEF ScaleInv
<1> QED BY <1>4, <1>6, <1>7, <1>8, SymbolScale

\* The gap before the expected bar, and that bar, are cached.
LEMMA CachedScale ==
  ASSUME BarsInv, ScaleInv, NEW s \in Symbols, Backfill(s) \/ Persist(s) PROVE ScaleInv'
<1>1. run.pc \in {"backfill", "persist"} /\ s \in run.todo
      /\ UNCHANGED <<clock, split, look, fold, parity>>
  BY DEF Backfill, Persist
<1>2. /\ run \in RunRecord /\ SameMorning /\ FlaggedOut /\ run.todo \subseteq Ingesting
      /\ Today' = Today /\ (BetweenSessions' <=> BetweenSessions) /\ Ingesting' = Ingesting
  BY <1>1, SameScale DEF BarsInv, BarsType, ScaleInv, FlaggedOut, Ingesting
<1>3. /\ run'.pc \in {"backfill", "catchup", "process"} /\ run'.todo \subseteq Ingesting
      /\ run'.pc = "process" => run'.written \subseteq run'.todo
      /\ run'.confs = run.confs /\ run'.started = run.started
  <2>1. CASE Backfill(s)
    <3> DEFINE next == Done(s, "catchup")
    <3>1. /\ next \in RunRecord /\ next.confs = run.confs /\ next.started = run.started
          /\ next.pc = IF run.todo = {s} THEN "catchup" ELSE "backfill"
          /\ run.todo # {s} => next.todo = run.todo \ {s}
      <4>1. run.pc = "backfill"
        BY <2>1 DEF Backfill
      <4> QED BY <1>2, <4>1 DEF Done, RunRecord, Ingest
    <3> HIDE DEF next
    <3>2. \E w : run' = [next EXCEPT !.written = w,
                                     !.todo = IF run.todo = {s} THEN Ingesting ELSE next.todo]
      <4>1. \/ \E w : run' = [next EXCEPT !.written = w, !.todo = IF run.todo = {s} THEN Ingesting ELSE @]
            \/ run' = [next EXCEPT !.todo = IF run.todo = {s} THEN Ingesting ELSE @]
        BY <2>1 DEF Backfill, next
      <4>2. next = [next EXCEPT !.written = next.written]
        BY <3>1 DEF RunRecord
      <4>3. [next EXCEPT !.todo = IF run.todo = {s} THEN Ingesting ELSE @]
              = [next EXCEPT !.written = next.written, !.todo = IF run.todo = {s} THEN Ingesting ELSE @]
        BY <3>1 DEF RunRecord
      <4> QED BY <4>1, <4>3
    <3> QED BY <1>2, <3>1, <3>2 DEF RunRecord
  <2>2. CASE Persist(s)
    <3>1. run' = [run EXCEPT !.pc = "process", !.written = {s}]
      BY <2>2 DEF Persist
    <3> QED BY <1>1, <1>2, <3>1 DEF RunRecord
  <2> QED BY <2>1, <2>2
<1>4. SameMorning' /\ FlaggedOut' /\ Examined' = {}
  BY <1>1, <1>2, <1>3 DEF SameMorning, FlaggedOut, Examined, Morning
<1>5. CASE bars' = bars
  BY <1>1, <1>2, <1>4, <1>5, QuietScale
<1>6. ASSUME NEW from, NEW to, bars' = [bars EXCEPT ![s] = Merged(bars[s], Fetched(s, from, to))]
      PROVE  ScaleInv'
  <2>1. Examined' \subseteq Examined
    BY <1>4
  <2> QED BY <1>1, <1>4, <1>6, <2>1, MergedScale
<1> QED BY <1>5, <1>6 DEF Backfill, Persist


\* What is folded joins what was, and flags nothing.
LEMMA FedJoins ==
  ASSUME NEW f \in FoldRecord, f.history <= Len(f.fed), NEW sessions, NEW seq \in Seq(Bar)
  PROVE  LET g == FedWith(f, seq, sessions) IN
         /\ g.bootstrapped = f.bootstrapped /\ g.pending = f.pending
         /\ \A x \in Range(g.fed) : x \in Range(f.fed) \/ x \in Range(seq)
         /\ seq = <<>> => LastFed(g) = LastFed(f)
         /\ seq # <<>> => LastFed(g) \in {x.slot : x \in Range(seq)}
<1> DEFINE g == FedWith(f, seq, sessions)
           m == Len(f.fed)
           n == Len(seq)
<1>1. g.fed = f.fed \o seq /\ g.bootstrapped = f.bootstrapped /\ g.pending = f.pending
  BY DEF FedWith, FoldRecord
<1>2. f.fed \in Seq(Bar) /\ m \in Nat /\ n \in Nat
  BY DEF FoldRecord
<1>3. /\ DOMAIN g.fed = 1..(m + n)
      /\ \A i \in 1..m : g.fed[i] = f.fed[i]
      /\ \A i \in 1..(m + n) : i \in 1..m \/ (i - m \in 1..n /\ g.fed[i] = seq[i - m])
  BY <1>1, <1>2
<1>4. DOMAIN f.fed = 1..m /\ DOMAIN seq = 1..n
  BY <1>2
<1>5. \A x \in Range(g.fed) : x \in Range(f.fed) \/ x \in Range(seq)
  <2> HIDE DEF g, m, n
  <2>1. ASSUME NEW i \in 1..(m + n) PROVE g.fed[i] \in Range(f.fed) \/ g.fed[i] \in Range(seq)
    <3>1. CASE i \in 1..m
      BY <1>3, <1>4, <3>1 DEF Range
    <3>2. CASE i - m \in 1..n /\ g.fed[i] = seq[i - m]
      BY <1>4, <3>2 DEF Range
    <3> QED BY <1>3, <3>1, <3>2
  <2> QED BY <1>3, <2>1 DEF Range
<1>6. CASE seq = <<>>
  BY <1>1, <1>5, <1>6, FedNothing
<1>7. CASE seq # <<>>
  <2>1. n > 0 /\ n \in 1..n
    BY <1>2, <1>7
  <2>2. LastFed(g) = seq[n].slot
    BY <2>1, FedOn
  <2>3. seq[n] \in Range(seq)
    BY <1>4, <2>1 DEF Range
  <2> QED BY <1>1, <1>5, <1>7, <2>2, <2>3
<1> QED BY <1>6, <1>7

\* Bars on the scale of their symbol are folded, each behind the last one.
LEMMA FoldScale ==
  ASSUME BarsInv, ScaleInv, UNCHANGED <<clock, split, look, bars, parity>>,
         NEW s \in Symbols, NEW sessions, NEW seq \in Seq(Bar),
         fold' = [fold EXCEPT ![s] = FedWith(fold[s], seq, sessions)],
         \A x \in Range(seq) : LastFed(fold[s]) <= x.slot /\ x.slot <= clock,
         split[s] = 0 => \A x \in Range(seq) : x.scale = 0,
         OfScale(fold[s], bars[s], s) => \A x \in Range(seq) : x.scale = Scale(s),
         Examined' = {}, SameMorning', Ingesting' = Ingesting => FlaggedOut'
  PROVE  ScaleInv'
<1> DEFINE f == fold[s]
           g == FedWith(f, seq, sessions)
<1>1. /\ fold \in [Symbols -> FoldRecord] /\ f \in FoldRecord /\ f.history <= Len(f.fed)
      /\ clock \in Nat /\ DOMAIN bars[s] \subseteq Slots
      /\ Unsplit(s) /\ LastFed(f) <= clock
  <2>1. CacheHolds(bars[s], s) /\ feed[s] \subseteq 1..clock /\ clock \in 1..LastSlot
    BY DEF BarsInv, BarsType
  <2>2. DOMAIN bars[s] \subseteq Slots
    BY <2>1, BarConstants DEF CacheHolds, Slots
  <2> QED BY <2>1, <2>2, BarConstants DEF BarsInv, BarsType, ScaleInv
<1>2. /\ g.bootstrapped = f.bootstrapped /\ g.pending = f.pending
      /\ \A x \in Range(g.fed) : x \in Range(f.fed) \/ x \in Range(seq)
      /\ seq = <<>> => LastFed(g) = LastFed(f)
      /\ seq # <<>> => LastFed(g) \in {x.slot : x \in Range(seq)}
  BY <1>1, FedJoins
<1>3. /\ (fold')[s] = g /\ (bars')[s] = bars[s]
      /\ \A x \in Symbols : x # s => (bars')[x] = bars[x] /\ (fold')[x] = fold[x]
  BY <1>1
<1> HIDE DEF g
<1>4. LastFed(f) <= LastFed(g) /\ LastFed(g) <= clock
  <2>1. LastFed(f) \in Nat
    BY <1>1, FedEnds
  <2> QED BY <1>1, <1>2, <2>1
<1>5. Ingesting' = Ingesting
  <2>1. \A x \in Symbols : (fold')[x].pending = fold[x].pending
    BY <1>2, <1>3
  <2> QED BY <2>1 DEF Ingesting
<1>6. Unsplit(s)'
  BY <1>1, <1>2, <1>3 DEF Unsplit
<1>7. Today' = Today /\ Scale(s)' = Scale(s)
  BY SameScale
<1>8. ASSUME Answered(s)' PROVE Sound(s)'
  <2>1. Sound(s)
    BY <1>7, <1>8 DEF ScaleInv, Answered
  <2>2. ASSUME OfScale(f, bars[s], s) PROVE OfScale(g, bars[s], s)
    <3>1. \A x \in Range(g.fed) : x.scale = Scale(s)
      BY <1>2, <2>2 DEF OfScale
    <3>2. ASSUME NEW t \in DOMAIN bars[s], t > LastFed(g) PROVE bars[s][t] = Scale(s)
      <4>1. t \in Nat /\ LastFed(f) \in Nat /\ LastFed(g) \in Int
        <5>1. LastFed(f) \in Nat
          BY <1>1, FedEnds
        <5>2. \A i \in DOMAIN seq : seq[i] \in Bar
          OBVIOUS
        <5>3. \A x \in Range(seq) : x \in Bar
          BY <5>2 DEF Range
        <5>4. \A x \in Range(seq) : x.slot \in Int
          BY <5>3, BarConstants DEF Bar, Slots
        <5> QED BY <1>1, <1>2, <5>1, <5>4, BarConstants DEF Slots
      <4>2. t > LastFed(f)
        BY <1>4, <3>2, <4>1
      <4> QED BY <2>2, <4>2 DEF OfScale
    <3> QED BY <3>1, <3>2 DEF OfScale
  <2>3. OfScale(g, bars[s], s) => OfScale(fold[s], bars[s], s)'
    BY <1>3, <1>7 DEF OfScale, LastFed
  <2>4. (fold')[s].bootstrapped = f.bootstrapped /\ (fold')[s].pending = f.pending
    BY <1>2, <1>3
  <2> QED BY <2>1, <2>2, <2>3, <2>4 DEF Sound
<1>9. LastFed((fold')[s]) <= clock
  BY <1>3, <1>4
<1> QED BY <1>3, <1>5, <1>6, <1>8, <1>9, SymbolScale

\* The fold of one symbol catches up on what was backfilled.
LEMMA CatchUpScale ==
  ASSUME BarsInv, ScaleInv, NEW s \in Symbols, CatchUp(s) PROVE ScaleInv'
<1> DEFINE seq == IF s \in run.written THEN Unfolded(s, run.exp - 1) ELSE <<>>
           T == {u \in DOMAIN bars[s] : u <= run.exp - 1 /\ u > LastFed(fold[s])}
           b == [t \in T |-> bars[s][t]]
<1>1. /\ run.pc = "catchup" /\ UNCHANGED <<clock, split, look, bars, parity>>
      /\ run' = Done(s, "fetch")
      /\ \E sessions : fold' = [fold EXCEPT ![s] = FedWith(fold[s], seq, sessions)]
  BY DEF CatchUp
<1>2. /\ run \in RunRecord /\ run.exp = clock /\ clock \in 1..LastSlot
      /\ fold[s] \in FoldRecord
      /\ DOMAIN bars[s] \subseteq 1..clock
      /\ SameMorning /\ FlaggedOut /\ Unsplit(s) /\ BarsType
  <2>1. run \in RunRecord /\ run.exp = clock /\ clock \in 1..LastSlot
        /\ fold \in [Symbols -> FoldRecord] /\ CacheHolds(bars[s], s)
    BY <1>1, IngestParts DEF Ingest
  <2>2. feed[s] \subseteq 1..clock /\ BarsType
    BY DEF BarsInv, BarsType
  <2> QED BY <2>1, <2>2 DEF CacheHolds, ScaleInv
<1>3. run.exp - 1 \in Int
  BY <1>2
<1>4. seq \in Seq(Bar)
  BY <1>2, <1>3, UnfoldedBars
<1>5. \A x \in Range(seq) : x.slot \in T /\ x.scale = bars[s][x.slot]
  <2>1. DOMAIN b = T /\ T \subseteq Slots
    BY <1>2, BarConstants DEF Slots
  <2>2. \A t \in T : b[t] = bars[s][t]
    OBVIOUS
  <2>3. Unfolded(s, run.exp - 1) = InOrder(b)
    BY DEF Unfolded
  <2> HIDE DEF b, T
  <2>4. \A x \in Range(InOrder(b)) : x.slot \in T /\ x.scale = bars[s][x.slot]
    BY <2>1, <2>2, InOrderScale
  <2>5. \A x \in Range(<<>>) : FALSE
    BY DEF Range
  <2> QED BY <2>3, <2>4, <2>5
<1>6. \A t \in T : t \in DOMAIN bars[s] /\ t > LastFed(fold[s]) /\ LastFed(fold[s]) <= t /\ t <= clock
  <2>1. LastFed(fold[s]) \in Nat
    BY <1>2, FedEnds
  <2> QED BY <1>2, <2>1
<1> HIDE DEF seq, T, b
<1>7. /\ \A x \in Range(seq) : LastFed(fold[s]) <= x.slot /\ x.slot <= clock
      /\ split[s] = 0 => \A x \in Range(seq) : x.scale = 0
      /\ OfScale(fold[s], bars[s], s) => \A x \in Range(seq) : x.scale = Scale(s)
  BY <1>2, <1>5, <1>6 DEF Unsplit, OfScale
<1>8. /\ run'.confs = run.confs /\ run'.started = run.started
      /\ run'.pc \in {"catchup", "fetch"} /\ run'.todo \subseteq run.todo
  BY <1>1, <1>2 DEF Done, RunRecord
<1>9. Today' = Today /\ (BetweenSessions' <=> BetweenSessions)
  BY <1>1, SameScale
<1>10. SameMorning' /\ Examined' = {}
  BY <1>1, <1>2, <1>8, <1>9 DEF SameMorning, Examined, Morning
<1>11. Ingesting' = Ingesting => FlaggedOut'
  BY <1>1, <1>2, <1>8 DEF FlaggedOut
<1> QED BY <1>1, <1>4, <1>7, <1>10, <1>11, FoldScale

\* The expected bar of one symbol is folded, and perhaps confirmed.
LEMMA ProcessScale ==
  ASSUME BarsInv, ScaleInv, NEW s \in Symbols, Process(s) PROVE ScaleInv'
<1> DEFINE bar == [slot |-> run.exp, scale |-> Scale(s)]
           seq == <<bar>>
           next == Done(s, "record")
<1>1. /\ run.pc = "process" /\ run.written = {s} /\ UNCHANGED <<clock, split, look, bars, parity>>
      /\ \E sessions : fold' = [fold EXCEPT ![s] = FedWith(fold[s], seq, sessions)]
      /\ \E c : /\ run' = [next EXCEPT !.written = {},
                             !.pc = IF run.todo = {s} THEN "record" ELSE "persist", !.confs = c]
                /\ c = next.confs \/ c = next.confs \cup {Confirmation(s, run.exp)}
  <2>1. PICK confirms \in BOOLEAN :
          /\ fold' = [fold EXCEPT ![s] = FedWith(@, seq, IF confirms THEN {Day(run.exp)} ELSE {})]
          /\ run' = [next EXCEPT !.written = {},
                       !.pc = IF run.todo = {s} THEN "record" ELSE "persist",
                       !.confs = IF confirms THEN @ \cup {Confirmation(s, run.exp)} ELSE @]
    BY DEF Process
  <2>2. run.pc = "process" /\ run.written = {s} /\ UNCHANGED <<clock, split, look, bars, parity>>
    BY DEF Process
  <2> HIDE DEF next, seq
  <2> QED BY <2>1, <2>2
<1>2. /\ run \in RunRecord /\ run.exp = clock /\ clock \in 1..LastSlot
      /\ fold[s] \in FoldRecord /\ SameMorning /\ FlaggedOut /\ LastFed(fold[s]) <= clock
  <2>1. run \in RunRecord /\ run.exp = clock /\ clock \in 1..LastSlot
        /\ fold \in [Symbols -> FoldRecord]
    BY <1>1, IngestParts DEF Ingest
  <2> QED BY <2>1 DEF ScaleInv
<1>3. bar \in Bar /\ bar.slot = clock /\ bar.scale = Scale(s)
  BY <1>2, BarConstants DEF Bar, Slots, Scale
<1>4. next \in RunRecord /\ next.confs = run.confs /\ next.started = run.started
      /\ next.todo \subseteq run.todo
  BY <1>1, <1>2 DEF Done, RunRecord, Ingest
<1> HIDE DEF bar, next
<1>5. seq \in Seq(Bar) /\ \A x \in Range(seq) : x = bar
  BY <1>3 DEF Range
<1> HIDE DEF seq
<1>6. /\ \A x \in Range(seq) : LastFed(fold[s]) <= x.slot /\ x.slot <= clock
      /\ split[s] = 0 => \A x \in Range(seq) : x.scale = 0
      /\ OfScale(fold[s], bars[s], s) => \A x \in Range(seq) : x.scale = Scale(s)
  BY <1>2, <1>3, <1>5 DEF Scale
<1>7. /\ run'.pc \in {"record", "persist"} /\ run'.todo \subseteq run.todo
      /\ run'.started = run.started
      /\ \A c \in run'.confs : c \in run.confs \/ c.symbol = s
  <2>1. Confirmation(s, run.exp).symbol = s
    BY DEF Confirmation
  <2> QED BY <1>1, <1>4, <2>1 DEF RunRecord
<1>8. s \in Ingesting /\ run.todo \subseteq Ingesting
  BY <1>1, <1>2 DEF FlaggedOut
<1>9. Today' = Today /\ (BetweenSessions' <=> BetweenSessions)
  BY <1>1, SameScale
<1>10. SameMorning' /\ Examined' = {}
  BY <1>1, <1>2, <1>7, <1>9 DEF SameMorning, Examined, Morning
<1>11. Ingesting' = Ingesting => FlaggedOut'
  BY <1>2, <1>7, <1>8 DEF FlaggedOut
<1> QED BY <1>1, <1>5, <1>6, <1>10, <1>11, FoldScale

\* The first morning: nothing has split, and there is no result yet.
LEMMA InitScale == ASSUME Init PROVE ScaleInv
<1>1. BarsInv
  BY InitBars
<1>2. /\ clock = SlotsPerDay /\ SlotsPerDay \in Nat \ {0}
      /\ split = [s \in Symbols |-> 0] /\ parity = 0
      /\ run.pc = "idle" /\ run.todo = {} /\ run.confs = {} /\ run.started = FALSE
  BY BarConstants DEF Init, Idle
<1>3. Today = 1 /\ BetweenSessions
  BY <1>2 DEF Today, BetweenSessions
<1>4. /\ SameMorning /\ FlaggedOut /\ Examined = {}
      /\ \A s \in Symbols : look[s] = "none"
  BY <1>2, <1>3 DEF Init, SameMorning, FlaggedOut, Examined, Morning
<1>5. ASSUME NEW s \in Symbols PROVE Unsplit(s) /\ LastFed(fold[s]) <= clock
  <2>1. CASE bars = [x \in Symbols |-> <<>>] /\ fold = [x \in Symbols |-> NoFold]
    <3>1. bars[s] = <<>> /\ fold[s].fed = <<>>
      BY <2>1 DEF NoFold
    <3>2. LastFed(fold[s]) = 0
      BY <3>1 DEF LastFed
    <3>3. DOMAIN bars[s] = {} /\ \A x \in Range(fold[s].fed) : FALSE
      BY <3>1 DEF Range
    <3> QED BY <1>2, <3>2, <3>3 DEF Unsplit
  <2>2. CASE /\ bars = [x \in Symbols |-> [t \in feed[x] |-> 0]]
             /\ fold = [x \in Symbols |-> Bootstrapped(bars[x])]
    <3>1. bars[s] = [t \in feed[s] |-> 0] /\ fold[s] = Bootstrapped(bars[s])
      BY <2>2
    <3>2. Scale(s) = 0 /\ feed[s] \subseteq 1..clock
      BY <1>1, <1>2 DEF Scale, BarsInv, BarsType
    <3>3. bars[s] = Fetched(s, 1, clock)
      <4>1. feed[s] \cap (1..clock) = feed[s]
        BY <3>2
      <4> QED BY <3>1, <3>2, <4>1 DEF Fetched
    <3>4. /\ fold[s].fed = InOrder(Fetched(s, 1, clock))
          /\ fold[s].history = Cardinality(DOMAIN Fetched(s, 1, clock))
      BY <3>1, <3>3 DEF Bootstrapped
    <3>5. OfScale(fold[s], bars[s], s) /\ LastFed(fold[s]) <= clock
      BY <1>1, <3>4, HistoryScale
    <3> QED BY <3>1, <3>2, <3>5 DEF OfScale, Unsplit
  <2> QED BY <2>1, <2>2 DEF Init
<1> QED BY <1>2, <1>3, <1>4, <1>5 DEF ScaleInv, Answered

\* Under a result of this morning the fold of every symbol that is not flagged is of the
\* scale of the feed, and so are the cached rows it may still take, unless the look for
\* its split has missed it (_run_split_detection_and_rebuild, split_pending).
THEOREM ScaleInvariant == Spec => []ScaleInv
<1>1. ASSUME BarsInv, ScaleInv, LookType, [Next]_vars PROVE ScaleInv'
  <2>1. CASE PreflightStep
    <3>1. CASE Candidates \/ RecordParity
      BY <1>1, <3>1, QuietScaleSteps
    <3>2. ASSUME NEW s \in Symbols, Bootstrap(s) \/ Detect(s) \/ Rebuild(s) PROVE ScaleInv'
      BY <1>1, <3>2, BootstrapScale, DetectScale, RebuildScale
    <3> QED BY <2>1, <3>1, <3>2 DEF PreflightStep
  <2>2. CASE CycleStep
    <3>1. CASE ExpectBar \/ FetchExpected \/ RecordSignals
      BY <1>1, <3>1, QuietScaleSteps
    <3>2. ASSUME NEW s \in Symbols, Backfill(s) \/ CatchUp(s) \/ Persist(s) \/ Process(s)
          PROVE  ScaleInv'
      BY <1>1, <3>2, CachedScale, CatchUpScale, ProcessScale
    <3> QED BY <2>2, <3>1, <3>2 DEF CycleStep
  <2>3. CASE Tick \/ Crash \/ StartPreflight \/ StartCycle
    BY <1>1, <2>3, TickScale, QuietScaleSteps
  <2>4. ASSUME NEW s \in Symbols, DeliverLate(s) \/ SplitOvernight(s) PROVE ScaleInv'
    BY <1>1, <2>4, QuietScaleSteps, SplitScale
  <2>5. CASE UNCHANGED vars
    <3>1. UNCHANGED <<clock, split, look, bars, fold, parity, run>>
      BY <2>5 DEF vars
    <3>2. Today' = Today /\ (BetweenSessions' <=> BetweenSessions) /\ Ingesting' = Ingesting
      BY <3>1 DEF Today, BetweenSessions, Ingesting
    <3>3. SameMorning' /\ FlaggedOut' /\ Examined' = Examined
      BY <1>1, <3>1, <3>2 DEF ScaleInv, SameMorning, FlaggedOut, Examined
    <3> QED BY <1>1, <3>1, <3>2, <3>3, QuietScale
  <2> QED BY <1>1, <2>1, <2>2, <2>3, <2>4, <2>5 DEF Next
<1> QED BY <1>1, InitScale, BarsInvariant, LooksKnown, PTL DEF Spec

\* Rows are recorded by the last part of a cycle alone, and entered under a result
\* of the same morning.
LEMMA EnteredRows ==
  ASSUME BarsInv, ScaleInv, [Next]_vars, NEW x \in signals' \ signals, x.entered
  PROVE  x.symbol \in Symbols /\ ~fold[x.symbol].pending /\ Sound(x.symbol)
<1>1. RecordSignals
  BY DEF Next, vars, PreflightStep, CycleStep, Tick, Crash, StartPreflight, StartCycle,
         Candidates, RecordParity, Bootstrap, Detect, Rebuild, ExpectBar, FetchExpected,
         Backfill, CatchUp, Persist, Process, DeliverLate, SplitOvernight
<1>2. PICK c \in run.confs :
        x = [symbol |-> c.symbol, slot |-> c.slot, entered |-> parity = Today]
  BY <1>1 DEF RecordSignals
<1>3. x.symbol = c.symbol /\ parity = Today
  BY <1>2
<1>4. c.symbol \in Ingesting
  BY DEF ScaleInv, FlaggedOut
<1>5. c.symbol \in Symbols /\ ~fold[c.symbol].pending
  BY <1>4 DEF Ingesting
<1> QED BY <1>3, <1>5 DEF ScaleInv, Answered

\* No entry is taken on a fold that mixes bars from before and after a split, whatever
\* crashed, failed to be fetched or came late, and whatever the corporate-actions feed
\* said, unless a preflight's look for the split had missed it
\* (_run_split_detection_and_rebuild, split_pending).
THEOREM EntriesKeepOneScale == Spec => EntriesOnOneScale
<1> DEFINE A == \A x \in signals' \ signals :
                  x.entered /\ fold[x.symbol].bootstrapped /\ look[x.symbol] # "missed"
                    => OneScale(fold[x.symbol])
<1>1. ASSUME BarsInv, ScaleInv, [Next]_vars PROVE [A]_vars
  <2>1. SUFFICES ASSUME NEW x \in signals' \ signals, x.entered,
                        fold[x.symbol].bootstrapped, look[x.symbol] # "missed"
                 PROVE  OneScale(fold[x.symbol])
    OBVIOUS
  <2>2. ~fold[x.symbol].pending /\ Sound(x.symbol)
    BY <1>1, <2>1, EnteredRows
  <2>3. \A y \in Range(fold[x.symbol].fed) : y.scale = Scale(x.symbol)
    BY <2>1, <2>2 DEF Sound, OfScale
  <2> QED BY <2>3 DEF OneScale
<1>2. Spec => [][A]_vars
  <2> HIDE DEF A
  <2> QED BY <1>1, BarsInvariant, ScaleInvariant, PTL DEF Spec
<1> QED BY <1>2 DEF EntriesOnOneScale
=============================================================================
