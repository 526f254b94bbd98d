--------------------------- MODULE SlcLevelsProofs ---------------------------
(***************************************************************************)
(* The live reducer keeps the levels the batch scan keeps, with the same    *)
(* knowledge of each, and builds the four-hour bars of the batch            *)
(* aggregation, whatever bars are missing (LevelsAgree); a bar that is      *)
(* folded twice confirms nothing the second time (RepeatConfirmsNothing);   *)
(* and session by session the two signal the same, but for what only the    *)
(* bar after a confirmation shows (Parity). One level and one bar come      *)
(* first, then all levels and one bar, then the four-hour buckets, then the *)
(* two engines bar by bar, last what they signal.                           *)
(***************************************************************************)
EXTENDS SlcLevels, WellFoundedInduction, TLAPS

(***************************************************************************)
(* One level and one bar.                                                   *)
(***************************************************************************)
\* A stochastic crosses nothing from where it stands, or without a prior.
LEMMA NoCrossing ==
  ASSUME NEW dir, NEW k, NEW prior \in {"none", k}
  PROVE  ~Crosses(dir, prior, k)
BY DEF Crosses

\* A level; one that waits to be reclaimed has forgotten its prior.
Level == {v \in LevelRecord : v.state = "waiting_reclaim" => v.prior = "none"}

\* What a level becomes is a level.
LEMMA LevelParts ==
  ASSUME NEW v \in Level, NEW k \in K
  PROVE  /\ v.dir \in {"long", "short"}
         /\ v.state \in {"fresh", "waiting_reclaim", "reclaimed"}
         /\ \A s \in {"waiting_reclaim", "reclaimed"} :
              Unarmed(v, s) \in Level /\ Unarmed(v, s).prior = "none"
         /\ v.state # "waiting_reclaim" =>
              /\ [v EXCEPT !.prior = k] \in Level
              /\ \A a \in BOOLEAN :
                   [v EXCEPT !.touched = TRUE, !.armed = a, !.prior = k] \in Level
<1>1. v \in LevelRecord /\ (v.state = "waiting_reclaim" => v.prior = "none")
  BY DEF Level
<1>2. \A s \in {"waiting_reclaim", "reclaimed"} :
              Unarmed(v, s) \in LevelRecord /\ Unarmed(v, s).prior = "none"
  BY <1>1 DEF LevelRecord, Unarmed, K
<1>3. [v EXCEPT !.prior = k] \in LevelRecord /\ [v EXCEPT !.prior = k].state = v.state
  BY <1>1 DEF LevelRecord
<1>4. \A a \in BOOLEAN :
         LET w == [v EXCEPT !.touched = TRUE, !.armed = a, !.prior = k]
         IN w \in LevelRecord /\ w.state = v.state
  BY <1>1 DEF LevelRecord
<1>5. v.dir \in {"long", "short"} /\ v.state \in {"fresh", "waiting_reclaim", "reclaimed"}
  BY <1>1 DEF LevelRecord
<1> QED BY <1>1, <1>2, <1>3, <1>4, <1>5 DEF Level

\* What a step on a level may come to, after a bar with stochastic k.
Steps(v, k) ==
  {Keep(w) : w \in {u \in Level : u.prior \in {"none", k}}}
    \union {[result |-> "invalidate", level |-> w] : w \in LevelRecord}
    \union {[result |-> "confirm_pending", level |-> w] :
              w \in {u \in LevelRecord : Crosses(v.dir, v.prior, k) /\ v.state # "waiting_reclaim"}}

\* The cases of _advance_level.
LEMMA Advance ==
  ASSUME NEW l, NEW v \in Level, NEW b, b.k \in K, b.rel[l] \in Relations
  PROVE  AdvanceLevel(l, v, b) \in Steps(v, b.k)
<1> DEFINE a == AdvanceLevel(l, v, b)
<1>0. /\ v \in LevelRecord /\ v.dir \in {"long", "short"}
      /\ v.state \in {"fresh", "waiting_reclaim", "reclaimed"}
      /\ v.state = "waiting_reclaim" => v.prior = "none"
  BY LevelParts DEF Level
<1>1. CASE Expired(l, b.slot)
  BY <1>0, <1>1 DEF AdvanceLevel, Invalidate, Steps
<1>2. CASE ~Expired(l, b.slot) /\ v.state = "fresh" /\ b.rel[l] = "against"
  <2>1. a = Keep(Unarmed(v, "waiting_reclaim"))
    BY <1>2 DEF AdvanceLevel, Reclaims, Touches
  <2> QED BY <2>1, LevelParts DEF Steps
<1>3. CASE ~Expired(l, b.slot) /\ v.state = "waiting_reclaim"
  <2>1. a = IF Reclaims(b.rel[l]) THEN Keep(Unarmed(v, "reclaimed")) ELSE Keep(v)
    BY <1>3 DEF AdvanceLevel, Reclaims, Touches
  <2>2. v.prior = "none"
    BY <1>0, <1>3
  <2> QED BY <2>1, <2>2, LevelParts DEF Steps
<1>4. CASE ~Expired(l, b.slot) /\ v.state = "reclaimed" /\ b.rel[l] = "against"
  <2>1. a = Invalidate(v)
    BY <1>4 DEF AdvanceLevel, Reclaims, Touches
  <2> QED BY <1>0, <2>1 DEF Invalidate, Steps
<1>5. CASE ~Expired(l, b.slot) /\ v.state # "waiting_reclaim" /\ b.rel[l] = "clear"
  <2> DEFINE w == [v EXCEPT !.prior = b.k]
  <2>1. a = IF v.touched THEN Invalidate(v) ELSE Keep(w)
    BY <1>5 DEF AdvanceLevel, Reclaims, Touches
  <2>2. w \in Level
    BY <1>5, LevelParts
  <2>3. w.prior = b.k
    BY <1>0 DEF LevelRecord
  <2> HIDE DEF w
  <2> QED BY <1>0, <2>1, <2>2, <2>3 DEF Invalidate, Steps
<1>6. CASE ~Expired(l, b.slot) /\ v.state # "waiting_reclaim" /\ Touches(b.rel[l])
  <2>1. a = Touch(v, b)
    BY <1>6 DEF AdvanceLevel, Reclaims, Touches
  <2> DEFINE armed == v.armed \/ Extreme(v.dir, b.k)
             w == [v EXCEPT !.touched = TRUE, !.armed = armed, !.prior = b.k]
  <2>2. armed \in BOOLEAN
    BY <1>0 DEF LevelRecord, Extreme
  <2>3. w \in Level
    BY <1>6, <2>2, LevelParts
  <2>4. w.prior = b.k
    BY <1>0 DEF LevelRecord
  <2>5. w \in LevelRecord
    BY <2>3 DEF Level
  <2>6. \/ a = Keep(w)
        \/ a = Invalidate(w)
        \/ a = ConfirmPending(w) /\ Crosses(v.dir, v.prior, b.k)
    BY <2>1 DEF Touch
  <2> HIDE DEF w, a
  <2>7. CASE a = Keep(w)
    BY <2>3, <2>4, <2>7 DEF Steps, a
  <2>8. CASE a = Invalidate(w)
    BY <2>5, <2>8 DEF Steps, Invalidate, a
  <2>9. CASE a = ConfirmPending(w) /\ Crosses(v.dir, v.prior, b.k)
    BY <1>6, <2>5, <2>9 DEF Steps, ConfirmPending, a
  <2> QED BY <2>6, <2>7, <2>8, <2>9
<1> QED BY <1>0, <1>1, <1>2, <1>3, <1>4, <1>5, <1>6 DEF Relations, Touches

\* _advance_level keeps what the batch scan neither settles nor confirms, and as
\* the scan goes on with it.
LEMMA AdvanceAsScan ==
  ASSUME NEW l \in Int, NEW v \in Level, NEW b, b.slot \in Int, b.k \in K,
         b.rel[l] \in Relations
  PROVE  /\ (AdvanceLevel(l, v, b).result = "keep")
              <=> (Unsettled(l, v, b) /\ ~Confirms(l, v, b))
         /\ AdvanceLevel(l, v, b).result = "keep"
              => AdvanceLevel(l, v, b).level = Scanned(v, b.rel[l], b.k)
<1> DEFINE a == AdvanceLevel(l, v, b)
           settled == ~(Unsettled(l, v, b) /\ ~Confirms(l, v, b))
           scanned == Scanned(v, b.rel[l], b.k)
<1>0. /\ v \in LevelRecord /\ v.dir \in {"long", "short"}
      /\ v.state \in {"fresh", "waiting_reclaim", "reclaimed"}
  BY LevelParts DEF Level
<1>a. SessionsElapsed(l, b.slot) \in Int /\ MaxSessions \in Nat
  BY LevelConstants DEF SessionsElapsed, Day
<1>b. b.rel[l] \in {"against", "inside", "beyond", "clear"}
  BY DEF Relations
<1> SUFFICES /\ (a.result = "keep") <=> ~settled
             /\ a.result = "keep" => a.level = scanned
  OBVIOUS
<1>1. CASE Expired(l, b.slot)
  <2>1. a = Invalidate(v)
    BY <1>1 DEF AdvanceLevel
  <2>2. settled
    BY <1>1, <1>a DEF Expired, Unsettled
  <2> QED BY <2>1, <2>2 DEF Invalidate
<1>2. CASE ~Expired(l, b.slot) /\ v.state = "fresh" /\ b.rel[l] = "against"
  <2>1. a = Keep(Unarmed(v, "waiting_reclaim"))
    BY <1>2 DEF AdvanceLevel, Reclaims, Touches
  <2>2. ~settled
    BY <1>2, <1>a DEF Unsettled, Confirms, Touches, Expired
  <2>3. scanned = Unarmed(v, "waiting_reclaim")
    BY <1>2 DEF Scanned
  <2> QED BY <2>1, <2>2, <2>3 DEF Keep
<1>3. CASE ~Expired(l, b.slot) /\ v.state = "waiting_reclaim"
  <2>1. a = IF Reclaims(b.rel[l]) THEN Keep(Unarmed(v, "reclaimed")) ELSE Keep(v)
    BY <1>3 DEF AdvanceLevel, Reclaims, Touches
  <2>2. ~settled
    BY <1>3, <1>a DEF Unsettled, Confirms, Touches, Expired
  <2>3. scanned = IF Reclaims(b.rel[l]) THEN Unarmed(v, "reclaimed") ELSE v
    BY <1>3 DEF Scanned
  <2> QED BY <2>1, <2>2, <2>3 DEF Keep
<1>4. CASE ~Expired(l, b.slot) /\ v.state = "reclaimed" /\ b.rel[l] = "against"
  <2>1. a = Invalidate(v)
    BY <1>4 DEF AdvanceLevel, Reclaims, Touches
  <2>2. settled
    BY <1>4 DEF Unsettled
  <2> QED BY <2>1, <2>2 DEF Invalidate
<1>5. CASE ~Expired(l, b.slot) /\ v.state # "waiting_reclaim" /\ b.rel[l] = "clear"
  <2>1. a = IF v.touched THEN Invalidate(v) ELSE Keep([v EXCEPT !.prior = b.k])
    BY <1>5 DEF AdvanceLevel, Reclaims, Touches
  <2>2. settled <=> v.touched
    BY <1>5, <1>a DEF Unsettled, Confirms, Touches, Expired
  <2>3. scanned = [v EXCEPT !.prior = b.k]
    BY <1>5 DEF Scanned
  <2> QED BY <2>1, <2>2, <2>3 DEF Keep, Invalidate
<1>6. CASE ~Expired(l, b.slot) /\ v.state # "waiting_reclaim" /\ Touches(b.rel[l])
  <2> DEFINE w == [v EXCEPT !.touched = TRUE, !.armed = v.armed \/ Extreme(v.dir, b.k),
                            !.prior = b.k]
             confirmed == /\ v.armed \/ Extreme(v.dir, b.k)
                          /\ Crosses(v.dir, v.prior, b.k)
                          /\ b.trend = Structure(v.dir)
  <2>1. a = Touch(v, b)
    BY <1>6 DEF AdvanceLevel, Reclaims, Touches
  <2>2. settled <=> confirmed
    BY <1>6, <1>a DEF Unsettled, Confirms, Touches, Expired
  <2>3. scanned = w
    BY <1>6 DEF Scanned, Touches
  <2>4. /\ ~confirmed => a = Keep(w)
        /\ confirmed => a \in {Invalidate(w), ConfirmPending(w)}
    BY <2>1 DEF Touch
  <2> HIDE DEF w, confirmed, scanned, settled, a
  <2> QED BY <2>2, <2>3, <2>4 DEF Keep, Invalidate, ConfirmPending
<1> HIDE DEF a, settled, scanned
<1> QED BY <1>0, <1>1, <1>2, <1>3, <1>4, <1>5, <1>6, <1>b DEF Touches

\* _advance_level confirms what the batch scan confirms, unless it is too late to enter.
LEMMA AdvanceConfirms ==
  ASSUME NEW l \in Int, NEW v \in Level, NEW b, b.slot \in Int, b.k \in K,
         b.rel[l] \in Relations
  PROVE  (AdvanceLevel(l, v, b).result = "confirm_pending")
           <=> (Unsettled(l, v, b) /\ Confirms(l, v, b) /\ EntryNotLate(b.slot))
<1> DEFINE a == AdvanceLevel(l, v, b)
           scans == Unsettled(l, v, b) /\ Confirms(l, v, b)
<1>a. /\ v.state \in {"fresh", "waiting_reclaim", "reclaimed"}
      /\ b.rel[l] \in {"against", "inside", "beyond", "clear"}
  BY LevelParts DEF Relations
<1>b. SessionsElapsed(l, b.slot) \in Int /\ MaxSessions \in Nat
  BY LevelConstants DEF SessionsElapsed, Day
<1>0. /\ v.state \in {"fresh", "waiting_reclaim", "reclaimed"}
      /\ b.rel[l] \in {"against", "inside", "beyond", "clear"}
      /\ SessionsElapsed(l, b.slot) \in Int /\ MaxSessions \in Nat
  BY <1>a, <1>b
<1>1. CASE ~Expired(l, b.slot) /\ v.state # "waiting_reclaim" /\ Touches(b.rel[l])
  <2> DEFINE confirmed == /\ v.armed \/ Extreme(v.dir, b.k)
                          /\ Crosses(v.dir, v.prior, b.k)
                          /\ b.trend = Structure(v.dir)
  <2>1. a = Touch(v, b)
    BY <1>1 DEF AdvanceLevel, Reclaims, Touches
  <2>2. scans <=> confirmed
    BY <1>0, <1>1 DEF Unsettled, Confirms, Touches, Expired
  <2>3. (a.result = "confirm_pending") <=> (confirmed /\ EntryNotLate(b.slot))
    BY <2>1 DEF Touch, Keep, Invalidate, ConfirmPending
  <2> QED BY <2>2, <2>3
<1>2. CASE ~(~Expired(l, b.slot) /\ v.state # "waiting_reclaim" /\ Touches(b.rel[l]))
  <2>1. ~scans
    BY <1>0, <1>2 DEF Unsettled, Confirms, Expired
  <2>2. \E w : a \in {Keep(w), Invalidate(w)}
    BY <1>0, <1>2 DEF AdvanceLevel, Reclaims, Touches, Expired
  <2> QED BY <2>1, <2>2 DEF Keep, Invalidate
<1> QED BY <1>1, <1>2

(***************************************************************************)
(* One bar through the reducer.                                             *)
(***************************************************************************)
\* Levels by their bases, and bars that say how they lie to each of them.
Typed(A) == /\ DOMAIN A \subseteq Int /\ A = [l \in DOMAIN A |-> A[l]]
            /\ \A l \in DOMAIN A : A[l] \in Level
BarFor(L, b) == /\ b.slot \in Int /\ b.k \in K /\ b.impulse \in {"long", "short", "none"}
                /\ \A l \in L : b.rel[l] \in Relations

\* The parts of _process_new_bar.
Stepped(A, b) ==
  [l \in DOMAIN A |->
     IF b.slot <= l + ImpulseBars THEN Keep(A[l]) ELSE AdvanceLevel(l, A[l], b)]
Confirmed(A, b) == {l \in DOMAIN A : Stepped(A, b)[l].result = "confirm_pending"}
Found(bars, b, fold) == DetectNewLevels(bars, b, fold)
KeptLevels(A, bars, b, fold) ==
  {l \in DOMAIN A : Stepped(A, b)[l].result = "keep"} \cup DOMAIN Found(bars, b, fold)

\* The levels a bar leaves active.
LEMMA BarActive ==
  ASSUME NEW r, NEW bars, NEW b, NEW fold
  PROVE  ProcessNewBar(r, bars, b, fold).active =
           [l \in KeptLevels(r.active, bars, b, fold) |->
              IF l \in DOMAIN r.active THEN Stepped(r.active, b)[l].level
                                       ELSE Found(bars, b, fold)[l]]
<1>1. DOMAIN Stepped(r.active, b) = DOMAIN r.active
  BY DEF Stepped
<1> QED BY <1>1 DEF ProcessNewBar, KeptLevels, Found, Stepped

\* What a bar confirms, it confirms for a level that is done with.
LEMMA BarConfirms ==
  ASSUME NEW r, NEW bars, NEW b, NEW fold
  PROVE  LET n == ProcessNewBar(r, bars, b, fold) IN
         /\ n.confirmations = r.confirmations \/ Confirmed(r.active, b) # {}
         /\ \A c \in n.confirmations : c \in r.confirmations \/ c.fold = fold
<1>1. DOMAIN Stepped(r.active, b) = DOMAIN r.active
  BY DEF Stepped
<1>2. ProcessNewBar(r, bars, b, fold).confirmations = r.confirmations
        \/ /\ Confirmed(r.active, b) # {}
           /\ ProcessNewBar(r, bars, b, fold).confirmations = r.confirmations \cup
                {[level |-> Winner(Confirmed(r.active, b)), slot |-> b.slot, fold |-> fold]}
  BY <1>1 DEF ProcessNewBar, Confirmed, Stepped
<1> DEFINE n == ProcessNewBar(r, bars, b, fold)
<1> HIDE DEF n
<1>3. n.confirmations = r.confirmations
        \/ /\ Confirmed(r.active, b) # {}
           /\ n.confirmations = r.confirmations \cup
                {[level |-> Winner(Confirmed(r.active, b)), slot |-> b.slot, fold |-> fold]}
  BY <1>2 DEF n
<1> QED BY <1>3 DEF n

\* The level a bar may reveal.
LEMMA FoundLevels ==
  ASSUME NEW bars, NEW b, NEW fold, b.slot \in Int, b.impulse \in {"long", "short", "none"}
  PROVE  LET f == Found(bars, b, fold) IN
         /\ DOMAIN f \subseteq {b.slot - ImpulseBars}
         /\ \A l \in DOMAIN f : f[l] \in Level
         /\ fold # 1 => DOMAIN f = {}
<1>1. \A d \in {"long", "short"} : NewLevel(d) \in Level
  BY DEF NewLevel, Level, LevelRecord, K
<1> DEFINE i == IF fold = 1 THEN b.impulse ELSE "none"
<1>2. Found(bars, b, fold) = Detected(bars, b.slot, i)
  BY DEF Found, DetectNewLevels
<1>3. i \in {"long", "short", "none"} /\ (fold # 1 => i = "none")
  OBVIOUS
<1> HIDE DEF i
<1>4. CASE i = "none"
  BY <1>2, <1>4 DEF Detected
<1>5. CASE i # "none"
  BY <1>1, <1>2, <1>3, <1>5 DEF Detected
<1> QED BY <1>4, <1>5

\* What the fold of one bar leaves: levels, each of them new or with a prior the
\* bar has set, and confirmations of this fold at most.
LEMMA FoldOnce ==
  ASSUME NEW r, Typed(r.active), NEW bars, NEW b, BarFor(DOMAIN r.active, b), NEW fold
  PROVE  LET n == ProcessNewBar(r, bars, b, fold) IN
         /\ Typed(n.active)
         /\ \A l \in DOMAIN n.active :
              \/ b.slot <= l + ImpulseBars
              \/ l \in DOMAIN r.active /\ n.active[l].prior \in {"none", b.k}
         /\ \A c \in n.confirmations : c \in r.confirmations \/ c.fold = fold
<1> DEFINE n == ProcessNewBar(r, bars, b, fold)
           A == r.active
           S == Stepped(A, b)
           f == Found(bars, b, fold)
<1>1. /\ n.active = [l \in KeptLevels(A, bars, b, fold) |->
                       IF l \in DOMAIN A THEN S[l].level ELSE f[l]]
      /\ \A c \in n.confirmations : c \in r.confirmations \/ c.fold = fold
  BY BarActive, BarConfirms
<1>2. /\ DOMAIN f \subseteq {b.slot - ImpulseBars} /\ ImpulseBars \in Nat /\ b.slot \in Int
      /\ \A l \in DOMAIN f : f[l] \in Level
  BY FoundLevels, LevelConstants DEF BarFor
<1>3. ASSUME NEW l \in DOMAIN A, S[l].result = "keep"
      PROVE  /\ S[l].level \in Level
             /\ b.slot <= l + ImpulseBars \/ S[l].level.prior \in {"none", b.k}
  <2>1. A[l] \in Level /\ b.k \in K /\ b.rel[l] \in Relations
    BY DEF Typed, BarFor
  <2>2. CASE b.slot <= l + ImpulseBars
    BY <2>1, <2>2 DEF Stepped, Keep
  <2>3. CASE ~(b.slot <= l + ImpulseBars)
    <3>1. S[l] = AdvanceLevel(l, A[l], b)
      BY <2>3 DEF Stepped
    <3>2. S[l] \in Steps(A[l], b.k)
      BY <3>1, <2>1, Advance
    <3> HIDE DEF S
    <3> QED BY <1>3, <3>2 DEF Steps, Keep
  <2> QED BY <2>2, <2>3
<1>4. ASSUME NEW l \in DOMAIN f, l \in DOMAIN A
      PROVE  S[l].result = "keep"
  BY <1>2, <1>4 DEF Stepped, Keep, Typed
<1>5. KeptLevels(A, bars, b, fold) \subseteq Int
  BY <1>2 DEF KeptLevels, Typed
<1>6. ASSUME NEW l \in KeptLevels(A, bars, b, fold)
      PROVE  /\ n.active[l] \in Level
             /\ \/ b.slot <= l + ImpulseBars
                \/ l \in DOMAIN A /\ n.active[l].prior \in {"none", b.k}
  <2>1. CASE l \in DOMAIN A
    <3>1. S[l].result = "keep"
      BY <1>4, <2>1 DEF KeptLevels
    <3>2. n.active[l] = S[l].level
      BY <1>1, <2>1
    <3> HIDE DEF S, n, A
    <3> QED BY <1>3, <2>1, <3>1, <3>2
  <2>2. CASE l \notin DOMAIN A
    <3>1. l \in DOMAIN f /\ n.active[l] = f[l]
      BY <1>1, <2>2 DEF KeptLevels
    <3> HIDE DEF f, n, A
    <3> QED BY <1>2, <3>1
  <2> QED BY <2>1, <2>2
<1>7. DOMAIN n.active = KeptLevels(A, bars, b, fold) /\ n.active = [l \in DOMAIN n.active |-> n.active[l]]
  BY <1>1
<1> HIDE DEF n, A, S, f
<1>8. Typed(n.active)
  BY <1>5, <1>6, <1>7 DEF Typed
<1> QED BY <1>1, <1>6, <1>7, <1>8 DEF n, A

\* The second fold of a bar confirms nothing.
LEMMA FoldTwice ==
  ASSUME NEW r, Typed(r.active), NEW bars, NEW b, NEW fold, b.k \in K, b.slot \in Int,
         \A l \in DOMAIN r.active :
           \/ b.slot <= l + ImpulseBars
           \/ b.rel[l] \in Relations /\ r.active[l].prior \in {"none", b.k}
  PROVE  ProcessNewBar(r, bars, b, fold).confirmations = r.confirmations
<1>1. ASSUME NEW l \in DOMAIN r.active, Stepped(r.active, b)[l].result = "confirm_pending"
      PROVE  FALSE
  <2> DEFINE v == r.active[l]
             a == AdvanceLevel(l, v, b)
  <2>1. ~(b.slot <= l + ImpulseBars) /\ a.result = "confirm_pending"
    BY <1>1 DEF Stepped, Keep
  <2>2. v \in Level /\ b.rel[l] \in Relations /\ v.prior \in {"none", b.k}
    BY <2>1 DEF Typed
  <2>3. a \in Steps(v, b.k)
    BY <2>2, Advance
  <2> HIDE DEF a, v
  <2>4. Crosses(v.dir, v.prior, b.k)
    BY <2>1, <2>3 DEF Steps, Keep
  <2> QED BY <2>2, <2>4, NoCrossing
<1>2. Confirmed(r.active, b) = {}
  BY <1>1 DEF Confirmed
<1> DEFINE n == ProcessNewBar(r, bars, b, fold)
<1>3. n.confirmations = r.confirmations \/ Confirmed(r.active, b) # {}
  BY BarConfirms
<1> QED BY <1>2, <1>3

\* A bar later than the impulse of every level leaves the reducer the levels it
\* leaves the batch scan, none of them with an impulse still to come.
LEMMA LevelsSame ==
  ASSUME NEW r, Typed(r.active), NEW bars, NEW b, BarFor(DOMAIN r.active, b),
         NEW g, g.scan = r.active, NEW risky,
         \A l \in DOMAIN r.active : l + ImpulseBars < b.slot
  PROVE  LET n == ProcessNewBar(r, bars, b, 1) IN
         /\ n.active = GenerateSignals(g, bars, b, risky).scan
         /\ \A l \in DOMAIN n.active : l + ImpulseBars <= b.slot
<1> DEFINE A == r.active
           S == Stepped(A, b)
           f == Found(bars, b, 1)
           kept == KeptLevels(A, bars, b, 1)
           unsettled == {l \in DOMAIN A : Unsettled(l, A[l], b)}
           confirming == {l \in unsettled : Confirms(l, A[l], b)}
           scan == (unsettled \ confirming) \cup DOMAIN f
<1>1. ProcessNewBar(r, bars, b, 1).active =
        [l \in kept |-> IF l \in DOMAIN A THEN S[l].level ELSE f[l]]
  BY BarActive
<1>2. f = Detected(bars, b.slot, b.impulse)
  BY DEF Found, DetectNewLevels
<1>3. GenerateSignals(g, bars, b, risky).scan =
        [l \in scan |-> IF l \in DOMAIN A THEN Scanned(A[l], b.rel[l], b.k) ELSE f[l]]
  BY <1>2 DEF GenerateSignals
<1>4. DOMAIN f \subseteq {b.slot - ImpulseBars} /\ ImpulseBars \in Nat /\ b.slot \in Int
  BY FoundLevels, LevelConstants DEF BarFor
<1>5. ASSUME NEW l \in DOMAIN A
      PROVE  /\ l \in Int /\ l \notin DOMAIN f
             /\ S[l].result = "keep" <=> l \in unsettled \ confirming
             /\ S[l].result = "keep" => S[l].level = Scanned(A[l], b.rel[l], b.k)
  <2>1. l \in Int /\ A[l] \in Level /\ b.k \in K /\ b.rel[l] \in Relations
    BY DEF Typed, BarFor
  <2>2. ~(b.slot <= l + ImpulseBars) /\ l \notin DOMAIN f
    BY <1>4, <2>1
  <2>3. S[l] = AdvanceLevel(l, A[l], b)
    BY <2>2 DEF Stepped
  <2>4. /\ S[l].result = "keep" <=> (Unsettled(l, A[l], b) /\ ~Confirms(l, A[l], b))
        /\ S[l].result = "keep" => S[l].level = Scanned(A[l], b.rel[l], b.k)
    BY <1>4, <2>1, <2>3, AdvanceAsScan
  <2> HIDE DEF S, f, A
  <2> QED BY <2>1, <2>2, <2>4
<1>6. kept = scan
  <2>1. kept = {l \in DOMAIN A : S[l].result = "keep"} \cup DOMAIN f
    BY DEF KeptLevels
  <2> HIDE DEF A, S, f, kept
  <2> QED BY <1>5, <2>1
<1>7. \A l \in kept : (IF l \in DOMAIN A THEN S[l].level ELSE f[l])
                       = (IF l \in DOMAIN A THEN Scanned(A[l], b.rel[l], b.k) ELSE f[l])
  <2> HIDE DEF A, S, f, kept
  <2> QED BY <1>5, <1>6
<1>8. \A l \in kept : l + ImpulseBars <= b.slot
  <2>1. ASSUME NEW l \in kept PROVE l + ImpulseBars <= b.slot
    <3>1. CASE l \in DOMAIN A
      BY <1>4, <1>5, <3>1
    <3>2. CASE l \in DOMAIN f
      BY <1>4, <3>2
    <3> QED BY <1>6, <2>1, <3>1, <3>2
  <2> QED BY <2>1
<1> HIDE DEF A, S, f, kept, unsettled, confirming, scan
<1> QED BY <1>1, <1>3, <1>6, <1>7, <1>8

\* The levels a bar confirms in the reducer are those the batch scan confirms, unless it
\* is too late to enter.
LEMMA ConfirmedSame ==
  ASSUME NEW r, Typed(r.active), NEW b, BarFor(DOMAIN r.active, b),
         \A l \in DOMAIN r.active : l + ImpulseBars < b.slot
  PROVE  Confirmed(r.active, b) =
           IF EntryNotLate(b.slot)
           THEN {l \in DOMAIN r.active : Unsettled(l, r.active[l], b) /\ Confirms(l, r.active[l], b)}
           ELSE {}
<1> DEFINE A == r.active
<1>1. ASSUME NEW l \in DOMAIN A
      PROVE  (Stepped(A, b)[l].result = "confirm_pending")
                <=> (Unsettled(l, A[l], b) /\ Confirms(l, A[l], b) /\ EntryNotLate(b.slot))
  <2>1. l \in Int /\ A[l] \in Level /\ b.k \in K /\ b.rel[l] \in Relations /\ b.slot \in Int
    BY DEF Typed, BarFor
  <2>2. ~(b.slot <= l + ImpulseBars)
    BY <2>1, LevelConstants
  <2>3. Stepped(A, b)[l] = AdvanceLevel(l, A[l], b)
    BY <2>2 DEF Stepped
  <2> QED BY <2>1, <2>3, AdvanceConfirms
<1> HIDE DEF A
<1>2. Confirmed(A, b) = {l \in DOMAIN A : Unsettled(l, A[l], b) /\ Confirms(l, A[l], b)
                                            /\ EntryNotLate(b.slot)}
  BY <1>1 DEF Confirmed
<1> QED BY <1>2 DEF A

\* Numbers below a bound have a greatest.
LEMMA Greatest ==
  ASSUME NEW S \in SUBSET Int, S # {}, NEW n \in Int, \A l \in S : l <= n
  PROVE  \E m \in S : \A l \in S : l <= m
<1> DEFINE T == {n - l : l \in S}
<1>1. T \subseteq Nat
  BY SMT
<1>2. T # {}
  BY Zenon
<1>3. PICK x \in T : \A y \in T : ~(<<y, x>> \in OpToRel(<, Nat))
  <2> HIDE DEF T
  <2> QED BY <1>1, <1>2, NatLessThanWellFounded, WFMin
<1>4. \A y \in T : ~(y < x)
  <2> HIDE DEF T
  <2> QED BY <1>1, <1>3 DEF OpToRel
<1>5. PICK m \in S : x = n - m
  BY <1>3
<1>6. ASSUME NEW l \in S PROVE l <= m
  <2>1. n - l \in T /\ n - l \in Int /\ x \in Int
    BY <1>5
  <2>2. ~(n - l < x)
    BY <1>4, <2>1
  <2> QED BY <1>5, <2>2
<1> QED BY <1>6

\* The winner of the candidates of a bar is the newest of them.
LEMMA WinnerIsNewest ==
  ASSUME NEW S \in SUBSET Int, S # {}, NEW n \in Int, \A l \in S : l <= n
  PROVE  Winner(S) \in S /\ \A l \in S : l <= Winner(S)
<1>1. \E m \in S : \A l \in S : l <= m
  BY Greatest
<1> QED BY <1>1 DEF Winner

\* A bar with candidates adds one confirmation, for the newest of them, unless the session
\* has had its signal or has no ATR.
Signals(r, b) == Confirmed(r.active, b) # {} /\ Day(b.slot) \notin r.signaled /\ b.atr
Signal(r, b) == [level |-> Winner(Confirmed(r.active, b)), slot |-> b.slot, fold |-> 1]
LEMMA BarSignals ==
  ASSUME NEW r, NEW bars, NEW b
  PROVE  /\ ProcessNewBar(r, bars, b, 1).confirmations =
              r.confirmations \cup IF Signals(r, b) THEN {Signal(r, b)} ELSE {}
         /\ ProcessNewBar(r, bars, b, 1).signaled =
              IF Signals(r, b) THEN Marked(r.signaled, b.slot, TRUE) ELSE r.signaled
<1>1. DOMAIN Stepped(r.active, b) = DOMAIN r.active
  BY DEF Stepped
<1> DEFINE candidates == Confirmed(r.active, b)
           unsignaled == candidates # {} /\ Day(b.slot) \notin r.signaled
           n == ProcessNewBar(r, bars, b, 1)
<1>2. /\ n.signaled = IF unsignaled THEN Marked(r.signaled, b.slot, b.atr) ELSE r.signaled
      /\ n.confirmations = r.confirmations \cup
           IF unsignaled /\ b.atr
           THEN {[level |-> Winner(candidates), slot |-> b.slot, fold |-> 1]} ELSE {}
  BY <1>1 DEF ProcessNewBar, Confirmed, Stepped
<1>3. unsignaled /\ ~b.atr => Marked(r.signaled, b.slot, b.atr) = r.signaled
  BY DEF Marked
<1>4. b.atr => Marked(r.signaled, b.slot, b.atr) = Marked(r.signaled, b.slot, TRUE)
  BY DEF Marked
<1> HIDE DEF n, candidates
<1> QED BY <1>2, <1>3, <1>4 DEF n, candidates, Signals, Signal

(***************************************************************************)
(* The four-hour bars.                                                      *)
(***************************************************************************)
\* A number stays in its class as long as its remainder has room.
LEMMA WithinDay ==
  ASSUME NEW x \in Int, NEW n \in Nat \ {0}, NEW d \in Int, (x % n) + d \in 0..(n - 1)
  PROVE  (x + d) % n = (x % n) + d
OBVIOUS

\* Where a slot lies in its session.
LEMMA SlotRange ==
  ASSUME NEW t \in Int
  PROVE  SlotOfDay(t) \in 1..BarsPerDay
BY LevelConstants DEF SlotOfDay

\* Slots of one session lie to each other in it as they do at large.
LEMMA SlotNear ==
  ASSUME NEW t \in Int, NEW u \in Int, SlotOfDay(t) + (u - t) \in 1..BarsPerDay
  PROVE  SlotOfDay(u) = SlotOfDay(t) + (u - t)
<1> DEFINE x == t - 1
           d == u - t
<1>1. x \in Int /\ d \in Int /\ BarsPerDay \in Nat \ {0} /\ x + d = u - 1
  BY LevelConstants
<1>2. SlotOfDay(t) = (x % BarsPerDay) + 1 /\ x % BarsPerDay \in Int
  BY <1>1 DEF SlotOfDay
<1>3. (x % BarsPerDay) + d \in 0..(BarsPerDay - 1)
  BY <1>1, <1>2
<1>4. (x + d) % BarsPerDay = (x % BarsPerDay) + d
  <2> HIDE DEF x, d
  <2> QED BY <1>1, <1>3, WithinDay
<1>5. SlotOfDay(u) = ((u - 1) % BarsPerDay) + 1
  BY DEF SlotOfDay
<1> HIDE DEF x
<1> QED BY <1>1, <1>2, <1>4, <1>5

\* The slots of a four-hour bar are those from its first on, as many as it takes.
InBucket(s) == s..(s + Expected(s) - 1)

\* Every slot lies in a four-hour bucket, which all the slots in it have in common.
LEMMA Buckets ==
  ASSUME NEW t \in Int
  PROVE  /\ BucketStart(t) \in Int /\ Expected(BucketStart(t)) \in Nat
         /\ t \in InBucket(BucketStart(t))
         /\ \A u \in InBucket(BucketStart(t)) : BucketStart(u) = BucketStart(t)
<1> DEFINE s == BucketStart(t)
           o == SlotOfDay(t)
<1>1. o \in 1..BarsPerDay /\ SplitSlot \in 1..BarsPerDay /\ BarsPerDay \in Nat \ {0}
  BY SlotRange, LevelConstants
<1>2. CASE o <= SplitSlot
  <2>1. s = t - o + 1
    BY <1>2 DEF BucketStart
  <2>2. o + (s - t) = 1 /\ s \in Int
    BY <1>1, <2>1
  <2>3. SlotOfDay(s) = 1
    <3> HIDE DEF s, o
    <3>1. o + (s - t) \in 1..BarsPerDay
      BY <1>1, <2>2
    <3> QED BY <2>2, <3>1, SlotNear DEF o
  <2>4. Expected(s) = SplitSlot
    BY <2>3 DEF Expected
  <2>5. ASSUME NEW u \in InBucket(s)
        PROVE  BucketStart(u) = s
    <3> HIDE DEF s, o
    <3>1. u \in Int /\ o + (u - t) \in 1..SplitSlot
      BY <1>1, <2>1, <2>4, <2>5 DEF InBucket
    <3>2. SlotOfDay(u) = o + (u - t)
      <4>1. o + (u - t) \in 1..BarsPerDay
        BY <1>1, <3>1
      <4> QED BY <3>1, <4>1, SlotNear DEF o
    <3> QED BY <1>1, <2>1, <3>1, <3>2 DEF BucketStart
  <2> HIDE DEF s, o
  <2>6. t \in InBucket(s)
    BY <1>1, <1>2, <2>1, <2>4 DEF InBucket
  <2> QED BY <1>1, <2>2, <2>4, <2>5, <2>6 DEF s
<1>3. CASE ~(o <= SplitSlot)
  <2>1. s = t - o + 1 + SplitSlot
    BY <1>3 DEF BucketStart
  <2>2. o + (s - t) = 1 + SplitSlot /\ s \in Int
    BY <1>1, <2>1
  <2>3. SlotOfDay(s) = 1 + SplitSlot
    <3> HIDE DEF s, o
    <3>1. o + (s - t) \in 1..BarsPerDay
      BY <1>1, <1>3, <2>2
    <3> QED BY <2>2, <3>1, SlotNear DEF o
  <2>4. Expected(s) = BarsPerDay - SplitSlot
    BY <1>1, <2>3 DEF Expected
  <2>5. ASSUME NEW u \in InBucket(s)
        PROVE  BucketStart(u) = s
    <3> HIDE DEF s, o
    <3>1. u \in Int /\ o + (u - t) \in (SplitSlot + 1)..BarsPerDay
      BY <1>1, <2>1, <2>4, <2>5 DEF InBucket
    <3>2. SlotOfDay(u) = o + (u - t)
      <4>1. o + (u - t) \in 1..BarsPerDay
        BY <1>1, <3>1
      <4> QED BY <3>1, <4>1, SlotNear DEF o
    <3> QED BY <1>1, <2>1, <3>1, <3>2 DEF BucketStart
  <2> HIDE DEF s, o
  <2>6. t \in InBucket(s)
    BY <1>1, <1>3, <2>1, <2>4 DEF InBucket
  <2> QED BY <1>1, <2>2, <2>4, <2>5, <2>6 DEF s
<1> QED BY <1>1, <1>2, <1>3

\* Four-hour bars start at slots of their own.
LEMMA BucketPositive ==
  ASSUME NEW t \in Nat \ {0}
  PROVE  BucketStart(t) \in Nat \ {0}
<1>1. \A x \in Nat, n \in Nat \ {0} : x % n \in Nat /\ x % n <= x
  OBVIOUS
<1>2. BarsPerDay \in Nat \ {0} /\ SplitSlot \in Nat /\ t - 1 \in Nat
  BY LevelConstants
<1>3. SlotOfDay(t) \in Nat /\ SlotOfDay(t) <= t
  BY <1>1, <1>2 DEF SlotOfDay
<1> QED BY <1>2, <1>3 DEF BucketStart

\* The open bucket holds bars that came, and not all of its bars.
BucketKnown(k, bars) ==
  \/ k = NoBucket
  \/ \E s, c \in Nat \ {0} :
       /\ k = [start |-> s, count |-> c] /\ s = BucketStart(s)
       /\ c < Expected(s) /\ s..(s + c - 1) \subseteq bars
\* And it is the newest bar's, when every bar of it so far came.
BucketOpen(k, bars, newest) ==
  LET s == BucketStart(newest) IN
  (s..newest \subseteq bars /\ newest + 1 \in InBucket(s))
    => k = [start |-> s, count |-> (newest - s) + 1]
NewestOf(bars, newest) ==
  /\ newest \in Nat /\ \A u \in bars : u <= newest
  /\ bars # {} => newest \in bars

\* The newest bar adds its own four-hour bar to the aggregation, or nothing: when it is
\* the last of that bar and all the others came.
LEMMA AggregatedStep ==
  ASSUME NEW bars \in SUBSET (Nat \ {0}), NEW t \in Nat \ {0}, \A u \in bars : u < t
  PROVE  LET s == BucketStart(t) IN
         /\ Aggregated(bars \cup {t}) =
              Aggregated(bars) \cup (IF InBucket(s) \subseteq bars \cup {t} THEN {s} ELSE {})
         /\ InBucket(s) \subseteq bars \cup {t}
              <=> t = s + Expected(s) - 1 /\ s..(t - 1) \subseteq bars
<1> DEFINE s == BucketStart(t)
           now == bars \cup {t}
<1>1. \A B : Aggregated(B) = {BucketStart(u) : u \in {v \in B : InBucket(BucketStart(v)) \subseteq B}}
  BY DEF Aggregated, InBucket
<1>2. /\ s \in Nat \ {0} /\ Expected(s) \in Nat /\ t \in InBucket(s)
      /\ \A u \in InBucket(s) : BucketStart(u) = s
  BY Buckets, BucketPositive
<1>3. ASSUME NEW u \in now, InBucket(BucketStart(u)) \subseteq now, BucketStart(u) # s
      PROVE  u \in bars /\ InBucket(BucketStart(u)) \subseteq bars
  <2>1. u \in bars
    BY <1>3
  <2>2. t \notin InBucket(BucketStart(u))
    BY <1>3, <2>1, Buckets
  <2> QED BY <1>3, <2>1, <2>2
<1>4. Aggregated(now) \subseteq Aggregated(bars) \cup (IF InBucket(s) \subseteq now THEN {s} ELSE {})
  <2> HIDE DEF now, s
  <2> QED BY <1>1, <1>3
<1>5. Aggregated(bars) \cup (IF InBucket(s) \subseteq now THEN {s} ELSE {}) \subseteq Aggregated(now)
  <2>1. bars \subseteq now /\ t \in now
    OBVIOUS
  <2>2. s = BucketStart(t)
    OBVIOUS
  <2> HIDE DEF now, s
  <2> QED BY <1>1, <2>1, <2>2
<1>6. InBucket(s) \subseteq now <=> t = s + Expected(s) - 1 /\ s..(t - 1) \subseteq bars
  <2> HIDE DEF s
  <2>1. ASSUME InBucket(s) \subseteq now
        PROVE  t = s + Expected(s) - 1 /\ s..(t - 1) \subseteq bars
    <3>1. s + Expected(s) - 1 \in InBucket(s) /\ t <= s + Expected(s) - 1 /\ t >= s
      BY <1>2 DEF InBucket
    <3>2. t = s + Expected(s) - 1
      BY <2>1, <3>1, <1>2
    <3>3. ASSUME NEW u \in s..(t - 1) PROVE u \in bars
      BY <2>1, <3>2, <3>3, <1>2 DEF InBucket
    <3> QED BY <3>2, <3>3
  <2>2. ASSUME t = s + Expected(s) - 1, s..(t - 1) \subseteq bars
        PROVE  InBucket(s) \subseteq now
    BY <2>2, <1>2 DEF InBucket
  <2> QED BY <2>1, <2>2
<1> QED BY <1>4, <1>5, <1>6

\* The bucket the reducer carries stands for all the bars of it that came: it becomes a
\* four-hour bar exactly when the aggregation over the whole history gets one.
LEMMA BucketStep ==
  ASSUME NEW bars \in SUBSET (Nat \ {0}), NEW newest, NewestOf(bars, newest),
         NEW t \in Nat \ {0}, t > newest,
         NEW k, BucketKnown(k, bars), BucketOpen(k, bars, newest)
  PROVE  LET b == BucketAfter(k, t)
             whole == b.start # 0 /\ b.count = Expected(b.start)
             left == IF whole THEN NoBucket ELSE b
         IN
         /\ BucketKnown(left, bars \cup {t}) /\ BucketOpen(left, bars \cup {t}, t)
         /\ Aggregated(bars \cup {t}) = IF whole THEN Aggregated(bars) \cup {b.start}
                                                 ELSE Aggregated(bars)
<1> DEFINE s == BucketStart(t)
           now == bars \cup {t}
           b == BucketAfter(k, t)
           whole == b.start # 0 /\ b.count = Expected(b.start)
           left == IF whole THEN NoBucket ELSE b
           full == InBucket(s) \subseteq now
<1> SUFFICES /\ BucketKnown(left, now) /\ BucketOpen(left, now, t)
             /\ Aggregated(now) = IF whole THEN Aggregated(bars) \cup {b.start}
                                           ELSE Aggregated(bars)
  OBVIOUS
<1>1. /\ s \in Nat \ {0} /\ Expected(s) \in Nat /\ t \in InBucket(s)
      /\ \A u \in InBucket(s) : BucketStart(u) = s
      /\ t >= s /\ t <= s + Expected(s) - 1
  BY Buckets, BucketPositive DEF InBucket
<1>2. BucketStart(s) = s
  BY <1>1 DEF InBucket
<1>3. /\ Aggregated(now) = Aggregated(bars) \cup (IF full THEN {s} ELSE {})
      /\ full <=> t = s + Expected(s) - 1 /\ s..(t - 1) \subseteq bars
  BY AggregatedStep DEF NewestOf
<1>4. \A c \in Nat : k = [start |-> s, count |-> c] => c \in Nat \ {0} /\ s..(s + c - 1) \subseteq bars
  <2> HIDE DEF s
  <2> SUFFICES ASSUME NEW c \in Nat, k = [start |-> s, count |-> c]
               PROVE  c \in Nat \ {0} /\ s..(s + c - 1) \subseteq bars
    OBVIOUS
  <2>1. k # NoBucket
    BY <1>1 DEF NoBucket
  <2>2. PICK x, y \in Nat \ {0} : k = [start |-> x, count |-> y] /\ x..(x + y - 1) \subseteq bars
    BY <2>1 DEF BucketKnown
  <2>3. x = s /\ y = c
    BY <2>2
  <2> QED BY <2>2, <2>3
<1>5. ASSUME b = [start |-> s, count |-> (t - s) + 1], s..(t - 1) \subseteq bars
      PROVE  /\ BucketKnown(left, now) /\ BucketOpen(left, now, t)
             /\ Aggregated(now) = IF whole THEN Aggregated(bars) \cup {b.start} ELSE Aggregated(bars)
  <2>1. b.start = s /\ b.count = (t - s) + 1
    BY <1>5
  <2>2. whole <=> full
    <3> HIDE DEF s, b, full
    <3> QED BY <1>1, <1>3, <1>5, <2>1
  <2>3. s..t \subseteq now
    <3> HIDE DEF s
    <3> QED BY <1>1, <1>5
  <2>4. CASE whole
    <3>1. left = NoBucket
      BY <2>4
    <3>2. t + 1 \notin InBucket(s)
      BY <1>1, <1>3, <2>2, <2>4 DEF InBucket
    <3> HIDE DEF s, now, b, left, full, whole
    <3> QED BY <1>3, <2>1, <2>2, <2>4, <3>1, <3>2 DEF BucketKnown, BucketOpen, s
  <2>5. CASE ~whole
    <3> DEFINE c == (t - s) + 1
    <3>1. left = [start |-> s, count |-> c]
      BY <1>5, <2>5
    <3>2. c \in Nat \ {0} /\ s..(s + c - 1) \subseteq now /\ c < Expected(s)
      <4>1. c # Expected(s)
        BY <1>1, <2>1, <2>5
      <4>2. s + c - 1 = t /\ c \in Nat \ {0} /\ c <= Expected(s)
        <5> HIDE DEF s
        <5> QED BY <1>1
      <4> HIDE DEF s, c, now
      <4> QED BY <1>1, <2>3, <4>1, <4>2
    <3> HIDE DEF now, b, left, full, whole, c
    <3>3. BucketKnown(left, now)
      <4> HIDE DEF s
      <4> QED BY <1>1, <1>2, <3>1, <3>2 DEF BucketKnown
    <3>4. BucketOpen(left, now, t)
      BY <3>1 DEF BucketOpen, s, c
    <3> QED BY <1>3, <2>2, <2>5, <3>3, <3>4
  <2> QED BY <2>4, <2>5
<1>6. CASE t = s
  <2>1. b = [start |-> s, count |-> 1]
    <3>1. ~(k.start = s /\ t = s + k.count)
      BY <1>1, <1>4, <1>6 DEF BucketKnown, NoBucket
    <3> HIDE DEF s
    <3> QED BY <1>6, <3>1 DEF BucketAfter, s
  <2>2. (t - s) + 1 = 1 /\ s..(t - 1) = {}
    BY <1>1, <1>6
  <2> HIDE DEF s, b, left, whole, now
  <2> QED BY <1>5, <2>1, <2>2
<1>7. CASE t # s /\ s..(t - 1) \subseteq bars
  <2>1. newest = t - 1 /\ s..newest \subseteq bars
    <3>1. t - 1 \in bars
      BY <1>1, <1>7
    <3> QED BY <1>7, <3>1 DEF NewestOf
  <2>2. t - 1 \in InBucket(s) /\ t - 1 + 1 = t
    BY <1>1, <1>7 DEF InBucket
  <2>3. BucketStart(newest) = s
    BY <1>1, <2>1, <2>2
  <2>4. k = [start |-> s, count |-> t - s]
    <3>1. newest + 1 = t /\ (newest - s) + 1 = t - s
      BY <1>1, <2>1
    <3> HIDE DEF s
    <3> QED BY <1>1, <2>1, <2>3, <3>1 DEF BucketOpen
  <2>5. b = [start |-> s, count |-> (t - s) + 1]
    <3>1. k.start = s /\ k.count = t - s /\ t = s + (t - s)
      BY <1>1, <2>4
    <3>2. b = [k EXCEPT !.count = @ + 1]
      BY <3>1 DEF BucketAfter
    <3> HIDE DEF s, b
    <3> QED BY <2>4, <3>2
  <2> HIDE DEF s, b, left, whole, now
  <2> QED BY <1>5, <1>7, <2>5
<1>8. CASE t # s /\ ~(s..(t - 1) \subseteq bars)
  <2>1. ~(k.start = s /\ t = s + k.count)
    <3>1. ASSUME k.start = s, t = s + k.count PROVE FALSE
      <4>1. PICK c \in Nat \ {0} : k = [start |-> s, count |-> c] /\ s..(s + c - 1) \subseteq bars
        BY <1>1, <3>1 DEF BucketKnown, NoBucket
      <4>2. s + c - 1 = t - 1
        BY <1>1, <3>1, <4>1
      <4> QED BY <1>8, <4>1, <4>2
    <3> QED BY <3>1
  <2>2. b = NoBucket \/ b = k
    BY <1>8, <2>1 DEF BucketAfter
  <2>3. ~whole /\ ~full
    <3>1. ~whole
      <4> HIDE DEF b
      <4> QED BY <2>2 DEF BucketKnown, NoBucket
    <3> HIDE DEF s, whole, full
    <3> QED BY <1>3, <1>8, <3>1
  <2>4. BucketKnown(b, now)
    <3> HIDE DEF b, s
    <3> QED BY <2>2 DEF BucketKnown
  <2>5. ~(s..t \subseteq now)
    <3>1. PICK u \in s..(t - 1) : u \notin bars
      BY <1>8
    <3> QED BY <1>1, <3>1
  <2> HIDE DEF now, b, whole, full
  <2>6. BucketOpen(b, now, t)
    BY <2>5 DEF BucketOpen
  <2> QED BY <1>3, <2>3, <2>4, <2>6
<1> HIDE DEF s, now, b, whole, left
<1> QED BY <1>6, <1>7, <1>8

\* What one bar does to the four-hour bars.
LEMMA BarBucket ==
  ASSUME NEW bars \in SUBSET (Nat \ {0}), NEW newest, NewestOf(bars, newest),
         NEW t \in Nat \ {0}, t > newest,
         NEW r, BucketKnown(r.bucket, bars), BucketOpen(r.bucket, bars, newest),
         r.bars4h = Aggregated(bars), NEW b, b.slot = t, NEW now, now = bars \cup {t}
  PROVE  LET n == ProcessNewBar(r, now, b, 1) IN
         /\ BucketKnown(n.bucket, now) /\ BucketOpen(n.bucket, now, t)
         /\ n.bars4h = Aggregated(now)
<1> DEFINE n == ProcessNewBar(r, now, b, 1)
           k == BucketAfter(r.bucket, t)
           whole == k.start # 0 /\ k.count = Expected(k.start)
           left == IF whole THEN NoBucket ELSE k
<1>1. /\ n.bucket = left
      /\ n.bars4h = IF whole THEN r.bars4h \cup {k.start} ELSE r.bars4h
  BY DEF ProcessNewBar
<1>2. /\ BucketKnown(left, now) /\ BucketOpen(left, now, t)
      /\ Aggregated(now) = IF whole THEN Aggregated(bars) \cup {k.start} ELSE Aggregated(bars)
  BY BucketStep
<1> HIDE DEF n, k, whole, left
<1> QED BY <1>1, <1>2 DEF n

(***************************************************************************)
(* The two engines, bar by bar.                                             *)
(***************************************************************************)
\* Until a bar is folded twice, the reducer and the batch engine have the same
\* levels, all of them with their impulse behind them, and the reducer's open
\* bucket is what the bars so far leave open.
Alike ==
  /\ Typed(reducer.active) /\ reducer.active = batch.scan
  /\ \A l \in DOMAIN reducer.active : l + ImpulseBars <= Newest
  /\ BucketKnown(reducer.bucket, seen) /\ BucketOpen(reducer.bucket, seen, Newest)
  /\ reducer.bars4h = Aggregated(seen)
LevelsInv ==
  /\ seen \subseteq Nat \ {0} /\ NewestOf(seen, Newest)
  /\ RepeatConfirmsNothing
  /\ repeats = 0 => Alike

\* A bar later than all is the newest one.
LEMMA NewestNext ==
  ASSUME NEW bars \in SUBSET (Nat \ {0}), NEW newest, NewestOf(bars, newest),
         NEW t \in Nat \ {0}, t > newest
  PROVE  /\ bars \cup {t} \in SUBSET (Nat \ {0}) /\ NewestOf(bars \cup {t}, t)
         /\ \A u \in bars : u < t
         /\ bars \cup {t} # {}
         /\ (CHOOSE v \in bars \cup {t} : \A u \in bars \cup {t} : u <= v) = t
<1>1. \A u \in bars : u < t
  BY DEF NewestOf
<1> DEFINE now == bars \cup {t}
           P(v) == \A u \in now : u <= v
<1>2. P(t) /\ t \in now
  BY <1>1
<1>3. \A v \in now : P(v) => v = t
  BY <1>1
<1>4. NewestOf(now, t) /\ now \in SUBSET (Nat \ {0})
  BY <1>2 DEF NewestOf
<1>5. (CHOOSE v \in now : P(v)) = t
  <2>1. (CHOOSE v \in now : P(v)) \in now /\ P(CHOOSE v \in now : P(v))
    <3> HIDE DEF P, now
    <3> QED BY <1>2
  <2> HIDE DEF P, now
  <2> QED BY <1>3, <2>1
<1> QED BY <1>1, <1>2, <1>4, <1>5

\* The first bar of all finds the two engines alike.
LEMMA InitLevels == ASSUME Init PROVE LevelsInv
<1> DEFINE none == [l \in {} |-> NewLevel("long")]
<1>1. /\ seen = {} /\ repeats = 0 /\ Newest = 0
      /\ reducer.active = none /\ batch.scan = none /\ DOMAIN none = {}
      /\ reducer.bucket = NoBucket /\ reducer.bars4h = {} /\ reducer.confirmations = {}
  BY DEF Init, Newest
<1>2. Typed(none)
  BY DEF Typed
<1>3. BucketOpen(NoBucket, {}, 0)
  <2>1. BucketStart(0) \in Int /\ BucketStart(0) <= 0
    BY Buckets DEF InBucket
  <2>2. 0 \in BucketStart(0)..0
    BY <2>1
  <2> QED BY <2>2 DEF BucketOpen
<1>4. Aggregated({}) = {}
  BY DEF Aggregated
<1>5. NewestOf({}, 0) /\ BucketKnown(NoBucket, {})
  BY DEF NewestOf, BucketKnown
<1> HIDE DEF none
<1> QED BY <1>1, <1>2, <1>3, <1>4, <1>5 DEF LevelsInv, Alike, RepeatConfirmsNothing

\* What the two actions have in common: a bar later than all, with prices for all.
LEMMA NewBars ==
  ASSUME LevelsInv, repeats = 0, NEW t \in Slots, t > Newest, seen' = seen \cup {t},
         NEW b \in Prices(t)
  PROVE  LET n == ProcessNewBar(reducer, seen', b, 1) IN
         /\ seen' \subseteq Nat \ {0} /\ NewestOf(seen', t) /\ Newest' = t
         /\ b.slot = t /\ BarFor(DOMAIN reducer.active, b)
         /\ Typed(n.active)
         /\ \A risky : GenerateSignals(batch, seen', b, risky).scan = n.active
         /\ \A l \in DOMAIN n.active : l + ImpulseBars <= t
         /\ \A l \in DOMAIN n.active :
              \/ t <= l + ImpulseBars
              \/ l \in DOMAIN reducer.active /\ n.active[l].prior \in {"none", b.k}
         /\ \A c \in n.confirmations : c.fold = 1
         /\ BucketKnown(n.bucket, seen') /\ BucketOpen(n.bucket, seen', t)
         /\ n.bars4h = Aggregated(seen')
<1> DEFINE n == ProcessNewBar(reducer, seen', b, 1)
<1>1. t \in Nat \ {0} /\ seen \in SUBSET (Nat \ {0}) /\ NewestOf(seen, Newest)
  BY LevelConstants DEF Slots, LevelsInv
<1>2. /\ Typed(reducer.active) /\ reducer.active = batch.scan
      /\ \A l \in DOMAIN reducer.active : l + ImpulseBars <= Newest
      /\ BucketKnown(reducer.bucket, seen) /\ BucketOpen(reducer.bucket, seen, Newest)
      /\ reducer.bars4h = Aggregated(seen)
      /\ \A c \in reducer.confirmations : c.fold = 1
  BY DEF LevelsInv, Alike, RepeatConfirmsNothing
<1>3. seen' \subseteq Nat \ {0} /\ NewestOf(seen', t) /\ Newest' = t
  BY <1>1, NewestNext DEF Newest
<1>4. b.slot = t /\ BarFor(DOMAIN reducer.active, b)
  <2> DEFINE tracked == DOMAIN reducer.active \cup DOMAIN batch.scan
  <2>1. /\ b.slot = t /\ b.k \in KZones /\ b.rel \in [tracked -> Relations]
        /\ b.impulse \in Directions \cup {"none"}
    BY DEF Prices
  <2>2. KZones \subseteq K /\ Directions \subseteq {"long", "short"}
    BY LevelConstants
  <2>3. b.slot \in Int /\ b.k \in K
    BY <1>1, <2>1, <2>2
  <2>5. b.impulse \in {"long", "short", "none"}
    BY <2>1, <2>2
  <2>4. \A l \in DOMAIN reducer.active : b.rel[l] \in Relations
    BY <2>1
  <2> HIDE DEF tracked
  <2> QED BY <2>1, <2>3, <2>4, <2>5 DEF BarFor
<1>5. \A l \in DOMAIN reducer.active : l + ImpulseBars < b.slot
  BY <1>1, <1>2, <1>4, LevelConstants DEF Typed, NewestOf
<1>6. \A risky : GenerateSignals(batch, seen', b, risky).scan = n.active
  BY <1>2, <1>4, <1>5, LevelsSame
<1>9. \A l \in DOMAIN n.active : l + ImpulseBars <= b.slot
  BY <1>2, <1>4, <1>5, LevelsSame
<1>7. /\ Typed(n.active)
      /\ \A l \in DOMAIN n.active :
           \/ b.slot <= l + ImpulseBars
           \/ l \in DOMAIN reducer.active /\ n.active[l].prior \in {"none", b.k}
      /\ \A c \in n.confirmations : c \in reducer.confirmations \/ c.fold = 1
  <2>1. Typed(reducer.active)
    BY <1>2
  <2>2. BarFor(DOMAIN reducer.active, b)
    BY <1>4
  <2> QED BY <2>1, <2>2, FoldOnce, ZenonT(30)
<1>8. /\ BucketKnown(n.bucket, seen') /\ BucketOpen(n.bucket, seen', t)
      /\ n.bars4h = Aggregated(seen')
  <2>1. b.slot = t
    BY <1>4
  <2> QED BY <1>1, <1>2, <2>1, BarBucket
<1> HIDE DEF n
<1> QED BY <1>2, <1>3, <1>4, <1>6, <1>7, <1>8, <1>9 DEF n

\* A bar that comes once.
LEMMA NewBarInv ==
  ASSUME LevelsInv, NEW t \in Slots, NewBar(t) PROVE LevelsInv'
<1>1. repeats = 0 /\ t > Newest /\ seen' = seen \cup {t}
  BY DEF NewBar
<1>2. PICK b \in Prices(t), risky \in SUBSET batch.awaiting :
        /\ reducer' = ProcessNewBar(reducer, seen', b, 1)
        /\ batch' = GenerateSignals(batch, seen', b, risky)
  BY DEF NewBar
<1> DEFINE n == ProcessNewBar(reducer, seen', b, 1)
<1>3. /\ seen' \subseteq Nat \ {0} /\ NewestOf(seen', t) /\ Newest' = t
      /\ Typed(n.active)
      /\ \A c \in n.confirmations : c.fold = 1
  BY <1>1, NewBars
<1>5. n.active = GenerateSignals(batch, seen', b, risky).scan
  <2>1. \A x : GenerateSignals(batch, seen', b, x).scan = n.active
    BY <1>1, NewBars
  <2> QED BY <2>1
<1>7. \A l \in DOMAIN n.active : l + ImpulseBars <= t
  BY <1>1, NewBars
<1>6. /\ BucketKnown(n.bucket, seen') /\ BucketOpen(n.bucket, seen', t)
      /\ n.bars4h = Aggregated(seen')
  BY <1>1, NewBars
<1> HIDE DEF n
<1>4. reducer' = n
  BY <1>2 DEF n
<1> QED BY <1>2, <1>3, <1>4, <1>5, <1>6, <1>7 DEF LevelsInv, Alike, RepeatConfirmsNothing

\* A bar that comes twice.
LEMMA NewBarTwiceInv ==
  ASSUME LevelsInv, NEW t \in Slots, NewBarTwice(t) PROVE LevelsInv'
<1>1. repeats = 0 /\ repeats' = 1 /\ t > Newest /\ seen' = seen \cup {t}
  BY DEF NewBarTwice
<1>2. PICK b \in Prices(t), risky \in SUBSET batch.awaiting :
        reducer' = ProcessNewBar(ProcessNewBar(reducer, seen', b, 1), seen', b, 2)
  BY DEF NewBarTwice
<1> DEFINE n == ProcessNewBar(reducer, seen', b, 1)
           m == ProcessNewBar(n, seen', b, 2)
<1>3. /\ seen' \subseteq Nat \ {0} /\ NewestOf(seen', t) /\ Newest' = t
      /\ b.slot = t /\ BarFor(DOMAIN reducer.active, b)
      /\ Typed(n.active)
      /\ \A l \in DOMAIN n.active :
           \/ t <= l + ImpulseBars
           \/ l \in DOMAIN reducer.active /\ n.active[l].prior \in {"none", b.k}
      /\ \A c \in n.confirmations : c.fold = 1
  BY <1>1, NewBars
<1> HIDE DEF n
<1>4. b.k \in K /\ b.slot \in Int /\ \A l \in DOMAIN reducer.active : b.rel[l] \in Relations
  BY <1>3 DEF BarFor
<1>5. \A l \in DOMAIN n.active :
        \/ b.slot <= l + ImpulseBars
        \/ b.rel[l] \in Relations /\ n.active[l].prior \in {"none", b.k}
  BY <1>3, <1>4
<1>6. m.confirmations = n.confirmations
  BY <1>3, <1>4, <1>5, FoldTwice
<1>7. reducer' = m
  BY <1>2 DEF n
<1> HIDE DEF m
<1>8. \A c \in reducer'.confirmations : c.fold = 1
  BY <1>3, <1>6, <1>7
<1> QED BY <1>1, <1>3, <1>8 DEF LevelsInv, RepeatConfirmsNothing

\* The invariant, from the first bar on.
THEOREM LevelsInvariant == Spec => []LevelsInv
<1>1. ASSUME LevelsInv, [Next]_vars PROVE LevelsInv'
  <2>1. ASSUME NEW t \in Slots, NewBar(t) \/ NewBarTwice(t) PROVE LevelsInv'
    BY <1>1, <2>1, NewBarInv, NewBarTwiceInv
  <2>2. CASE UNCHANGED vars
    <3> QED BY <1>1, <2>2 DEF vars, LevelsInv, Alike, RepeatConfirmsNothing, Newest
  <2> QED BY <1>1, <2>1, <2>2 DEF Next
<1>2. Init => LevelsInv
  BY InitLevels
<1> QED BY <1>1, <1>2, PTL DEF Spec

\* The live reducer never parts from the batch scan: the same levels with the same
\* knowledge of each, and the four-hour bars of the batch aggregation, over any
\* history and whatever bars are missing from it.
THEOREM EnginesHoldSameLevels == Spec => []LevelsAgree
<1>1. LevelsInv => LevelsAgree
  BY DEF LevelsInv, Alike, LevelsAgree
<1> QED BY <1>1, LevelsInvariant, PTL

\* A bar that two cycles expect, and that is therefore folded twice, confirms
\* nothing the second time.
THEOREM SecondFoldConfirmsNothing == Spec => []RepeatConfirmsNothing
<1>1. LevelsInv => RepeatConfirmsNothing
  BY DEF LevelsInv
<1> QED BY <1>1, LevelsInvariant, PTL

(***************************************************************************)
(* The confirmations of the reducer and the signals of the batch engine.    *)
(***************************************************************************)
\* The confirmations of the batch scan that only the next bar can still turn down.
Pair(c) == [level |-> c.level, slot |-> c.slot]
Standing(g) == {a \in g.awaiting : a.atr /\ EntryNotLate(a.slot)}
Offered(g) == g.candidates \cup {Pair(a) : a \in Standing(g)}

SameSession(c, e) == Day(c.slot) = Day(e.slot)
Ahead(c, e) == c.slot < e.slot \/ (c.slot = e.slot /\ e.level <= c.level)

Placed ==
  /\ \A a \in batch.awaiting : a.slot = Newest /\ a.level \in Int
  /\ \A e \in batch.candidates : e.slot \in Nat /\ e.slot < Newest /\ e.level \in Int
  /\ \A c \in reducer.confirmations : c.slot \in Nat /\ c.slot <= Newest /\ c.level \in Int
\* The reducer has marked the sessions it confirmed in; it forgets only past ones.
Spent ==
  /\ \A c \in reducer.confirmations : Day(c.slot) = Day(Newest) => Day(Newest) \in reducer.signaled
  /\ \A d \in reducer.signaled : \E c \in reducer.confirmations : Day(c.slot) = d
\* Whatever the batch engine offers, the reducer has confirmed in that session by then.
Answered ==
  \A e \in Offered(batch) : \E c \in reducer.confirmations : SameSession(c, e) /\ c.slot <= e.slot
\* Where nothing was turned down, the reducer's confirmation is offered, and nothing that
\* is offered goes before it.
Leading ==
  \A c \in reducer.confirmations : Day(c.slot) \notin rejected =>
    /\ Pair(c) \in Offered(batch)
    /\ \A e \in Offered(batch) : SameSession(c, e) => Ahead(c, e)
ParityInv == repeats = 0 => Placed /\ Spent /\ Answered /\ Leading

\* Sessions follow one another.
LEMMA DayMonotone ==
  ASSUME NEW t \in Int, NEW u \in Int, t <= u
  PROVE  Day(t) \in Int /\ Day(u) \in Int /\ Day(t) <= Day(u)
<1> DEFINE x == t - 1
           y == u - 1
<1>1. x \in Int /\ y \in Int /\ x <= y /\ BarsPerDay \in Nat \ {0}
  BY LevelConstants
<1>2. \A n \in Nat \ {0} : x \div n \in Int /\ y \div n \in Int /\ x \div n <= y \div n
  <2> HIDE DEF x, y
  <2> QED BY <1>1
<1> QED BY <1>1, <1>2 DEF Day

\* A session the newest bar opens has no confirmation; one it goes on with has the mark.
LEMMA MarkedSession ==
  ASSUME Placed, Spent, NEW t \in Nat, t > Newest, Newest \in Nat
  PROVE  Day(t) \in reducer.signaled
           <=> \E c \in reducer.confirmations : Day(c.slot) = Day(t)
<1>1. ASSUME NEW c \in reducer.confirmations, Day(c.slot) = Day(t)
      PROVE  Day(t) \in reducer.signaled
  <2>1. c.slot \in Nat /\ c.slot <= Newest
    BY DEF Placed
  <2>2. Day(c.slot) <= Day(Newest) /\ Day(Newest) <= Day(t) /\ Day(t) \in Int /\ Day(Newest) \in Int
    BY <2>1, DayMonotone
  <2>3. Day(c.slot) = Day(Newest)
    BY <1>1, <2>2
  <2> QED BY <1>1, <2>3 DEF Spent
<1> QED BY <1>1 DEF Spent

\* What a bar does to the confirmations and the candidates: it offers those it confirms,
\* drops what it turns down, and confirms the newest unless the session had its signal.
LEMMA BarOffers ==
  ASSUME LevelsInv, ParityInv, repeats = 0, NEW t \in Slots, NEW b \in Prices(t),
         t > Newest, seen' = seen \cup {t}, NEW risky,
         reducer' = ProcessNewBar(reducer, seen', b, 1),
         batch' = GenerateSignals(batch, seen', b, risky),
         rejected' = rejected \cup TurnedDown(t, risky)
  PROVE  \E S \in SUBSET Int :
           LET new == {[level |-> l, slot |-> t] : l \in S}
               signals == S # {} /\ Day(t) \notin reducer.signaled
           IN
           /\ S # {} => Winner(S) \in S /\ \A l \in S : l <= Winner(S)
           /\ new \subseteq Offered(batch') /\ Offered(batch') \subseteq Offered(batch) \cup new
           /\ \A e \in Offered(batch) : Day(e.slot) \notin rejected' => e \in Offered(batch')
           /\ reducer'.confirmations = reducer.confirmations \cup
                IF signals THEN {[level |-> Winner(S), slot |-> t, fold |-> 1]} ELSE {}
           /\ reducer'.signaled = IF signals THEN Marked(reducer.signaled, t, TRUE) ELSE reducer.signaled
           /\ \A a \in batch'.awaiting : a.slot = t /\ a.level \in Int
           /\ \A e \in batch'.candidates : e.slot \in Nat /\ e.slot < t /\ e.level \in Int
<1> DEFINE A == reducer.active
           confirming == {l \in {k \in DOMAIN A : Unsettled(k, A[k], b)} : Confirms(l, A[l], b)}
           accepted == {a \in batch.awaiting : Accepted(a, t, risky)}
           S == IF b.atr THEN Confirmed(A, b) ELSE {}
           new == {[level |-> l, slot |-> t] : l \in S}
           signals == S # {} /\ Day(t) \notin reducer.signaled
<1>1. /\ t \in Nat \ {0} /\ Newest \in Nat
      /\ Typed(A) /\ A = batch.scan /\ \A l \in DOMAIN A : l + ImpulseBars <= Newest
      /\ Placed /\ Spent /\ Answered /\ Leading
  BY LevelConstants DEF Slots, LevelsInv, Alike, NewestOf, ParityInv
<1>2. b.slot = t /\ BarFor(DOMAIN A, b) /\ b.atr \in BOOLEAN
  <2>1. b.slot = t /\ BarFor(DOMAIN A, b)
    BY NewBars
  <2> QED BY <2>1 DEF Prices
<1>3. /\ DOMAIN A \subseteq Int /\ \A l \in DOMAIN A : l <= Newest /\ l + ImpulseBars < t
  BY <1>1, LevelConstants DEF Typed
<1>4. Confirmed(A, b) = IF EntryNotLate(t) THEN confirming ELSE {}
  <2>1. Confirmed(A, b) = IF EntryNotLate(t)
           THEN {l \in DOMAIN A : Unsettled(l, A[l], b) /\ Confirms(l, A[l], b)} ELSE {}
    BY <1>1, <1>2, <1>3, ConfirmedSame
  <2>2. {l \in DOMAIN A : Unsettled(l, A[l], b) /\ Confirms(l, A[l], b)} = confirming
    OBVIOUS
  <2> QED BY <2>1, <2>2
<1>5. /\ batch'.awaiting = {[level |-> l, slot |-> t, atr |-> b.atr] : l \in confirming}
      /\ batch'.candidates = batch.candidates \cup {Pair(a) : a \in accepted}
  BY <1>1, <1>2 DEF GenerateSignals, Undecided, Pair
<1>6. /\ reducer'.confirmations = reducer.confirmations \cup
           IF signals THEN {[level |-> Winner(S), slot |-> t, fold |-> 1]} ELSE {}
      /\ reducer'.signaled = IF signals THEN Marked(reducer.signaled, t, TRUE) ELSE reducer.signaled
  <2>1. /\ reducer'.confirmations = reducer.confirmations \cup
             IF Signals(reducer, b) THEN {Signal(reducer, b)} ELSE {}
        /\ reducer'.signaled =
             IF Signals(reducer, b) THEN Marked(reducer.signaled, b.slot, TRUE) ELSE reducer.signaled
    BY BarSignals
  <2>2. signals <=> Signals(reducer, b)
    BY <1>2 DEF Signals
  <2>3. signals => Signal(reducer, b) = [level |-> Winner(S), slot |-> t, fold |-> 1]
    BY <1>2 DEF Signal
  <2> HIDE DEF S, signals
  <2> QED BY <1>2, <2>1, <2>2, <2>3
<1>7. S \in SUBSET Int /\ (S # {} => Winner(S) \in S /\ \A l \in S : l <= Winner(S))
  <2>1. S \subseteq DOMAIN A
    BY DEF Confirmed
  <2>2. S \in SUBSET Int /\ \A l \in S : l <= Newest
    BY <1>3, <2>1
  <2> HIDE DEF S
  <2>3. Newest \in Int
    BY <1>1
  <2> QED BY <2>2, <2>3, WinnerIsNewest
<1>8. {Pair(a) : a \in Standing(batch')} = new
  <2>1. ASSUME NEW a \in Standing(batch') PROVE Pair(a) \in new
    <3>1. PICK l \in confirming : a = [level |-> l, slot |-> t, atr |-> b.atr]
      BY <1>5 DEF Standing
    <3>2. b.atr /\ EntryNotLate(t)
      BY <3>1 DEF Standing
    <3> HIDE DEF confirming
    <3> QED BY <1>4, <3>1, <3>2 DEF Pair
  <2>2. ASSUME NEW e \in new PROVE e \in {Pair(a) : a \in Standing(batch')}
    <3>1. PICK l \in S : e = [level |-> l, slot |-> t]
      OBVIOUS
    <3>2. b.atr /\ EntryNotLate(t) /\ l \in confirming
      BY <1>4, <3>1
    <3> DEFINE a == [level |-> l, slot |-> t, atr |-> b.atr]
    <3>3. a \in Standing(batch') /\ Pair(a) = e
      <4> HIDE DEF confirming
      <4> QED BY <1>5, <3>1, <3>2 DEF Standing, Pair
    <3> QED BY <3>3
  <2> QED BY <2>1, <2>2
<1>9. accepted \subseteq Standing(batch)
  BY DEF Accepted, Standing
<1>10. Offered(batch') = batch.candidates \cup {Pair(a) : a \in accepted} \cup new
  BY <1>5, <1>8 DEF Offered
<1>11. new \subseteq Offered(batch') /\ Offered(batch') \subseteq Offered(batch) \cup new
  <2> HIDE DEF new, accepted
  <2> QED BY <1>9, <1>10 DEF Offered
<1>12. ASSUME NEW e \in Offered(batch), Day(e.slot) \notin rejected' PROVE e \in Offered(batch')
  <2>1. CASE e \in batch.candidates
    BY <1>10, <2>1
  <2>2. ASSUME NEW a \in Standing(batch), e = Pair(a) PROVE e \in Offered(batch')
    <3>1. Day(a.slot) \notin TurnedDown(t, risky)
      BY <1>12, <2>2 DEF Pair
    <3>2. a \in accepted
      BY <2>2, <3>1 DEF TurnedDown, Standing
    <3> HIDE DEF accepted
    <3> QED BY <1>10, <2>2, <3>2
  <2> QED BY <2>1, <2>2 DEF Offered
<1>13. \A a \in batch'.awaiting : a.slot = t /\ a.level \in Int
  <2>1. confirming \subseteq Int
    BY <1>3
  <2> HIDE DEF confirming
  <2> QED BY <1>5, <2>1
<1>14. \A e \in batch'.candidates : e.slot \in Nat /\ e.slot < t /\ e.level \in Int
  <2>1. \A a \in accepted : Pair(a).slot = Newest /\ Pair(a).level \in Int
    BY <1>1 DEF Placed, Pair
  <2>2. Newest < t /\ Newest \in Nat
    BY <1>1
  <2> HIDE DEF accepted, A
  <2>3. \A e \in batch.candidates : e.slot \in Nat /\ e.slot < t /\ e.level \in Int
    BY <1>1, <2>2 DEF Placed
  <2>4. \A a \in accepted : Pair(a).slot \in Nat /\ Pair(a).slot < t /\ Pair(a).level \in Int
    BY <2>1, <2>2
  <2> QED BY <1>5, <2>3, <2>4
<1> HIDE DEF S, A
<1> QED BY <1>6, <1>7, <1>11, <1>12, <1>13, <1>14

\* A bar that comes once keeps what the two engines say of a session together.
LEMMA NewBarParity ==
  ASSUME LevelsInv, ParityInv, NEW t \in Slots, NewBar(t) PROVE ParityInv'
<1>1. repeats = 0 /\ t > Newest /\ seen' = seen \cup {t}
  BY DEF NewBar
<1>2. PICK b \in Prices(t), risky \in SUBSET batch.awaiting :
        /\ reducer' = ProcessNewBar(reducer, seen', b, 1)
        /\ batch' = GenerateSignals(batch, seen', b, risky)
        /\ rejected' = rejected \cup TurnedDown(t, risky)
  BY DEF NewBar
<1>3. /\ t \in Nat \ {0} /\ Newest \in Nat /\ Newest' = t
      /\ Placed /\ Spent /\ Answered /\ Leading
  <2>1. Newest' = t
    BY <1>1, NewBars
  <2> QED BY <1>1, <2>1, LevelConstants DEF Slots, LevelsInv, NewestOf, ParityInv
<1>4. PICK S \in SUBSET Int :
           LET new == {[level |-> l, slot |-> t] : l \in S}
               signals == S # {} /\ Day(t) \notin reducer.signaled
           IN
           /\ S # {} => Winner(S) \in S /\ \A l \in S : l <= Winner(S)
           /\ new \subseteq Offered(batch') /\ Offered(batch') \subseteq Offered(batch) \cup new
           /\ \A e \in Offered(batch) : Day(e.slot) \notin rejected' => e \in Offered(batch')
           /\ reducer'.confirmations = reducer.confirmations \cup
                IF signals THEN {[level |-> Winner(S), slot |-> t, fold |-> 1]} ELSE {}
           /\ reducer'.signaled = IF signals THEN Marked(reducer.signaled, t, TRUE) ELSE reducer.signaled
           /\ \A a \in batch'.awaiting : a.slot = t /\ a.level \in Int
           /\ \A e \in batch'.candidates : e.slot \in Nat /\ e.slot < t /\ e.level \in Int
  BY <1>1, <1>2, BarOffers
<1> DEFINE new == {[level |-> l, slot |-> t] : l \in S}
           signals == S # {} /\ Day(t) \notin reducer.signaled
           x == [level |-> Winner(S), slot |-> t, fold |-> 1]
           C == reducer.confirmations
<1>5. /\ reducer'.confirmations = C \cup IF signals THEN {x} ELSE {}
      /\ reducer'.signaled = IF signals THEN Marked(reducer.signaled, t, TRUE) ELSE reducer.signaled
      /\ \A e \in Offered(batch') : e \in Offered(batch) \/ e \in new
      /\ new \subseteq Offered(batch')
      /\ \A e \in Offered(batch) : Day(e.slot) \notin rejected' => e \in Offered(batch')
      /\ rejected \subseteq rejected'
  BY <1>2, <1>4
<1>6. /\ x.slot = t /\ x.level = Winner(S)
      /\ signals => Pair(x) \in new /\ x.level \in Int
      /\ \A e \in new : S # {} /\ e.slot = t /\ (signals => e.level <= x.level)
  BY <1>4 DEF Pair
<1>7. Day(t) \in reducer.signaled <=> \E c \in C : Day(c.slot) = Day(t)
  BY <1>1, <1>3, MarkedSession
<1>8. \A c \in C : c.slot \in Nat /\ c.slot < t /\ c.level \in Int
  BY <1>1, <1>3 DEF Placed
<1>9. signals => Day(t) \notin reducer.signaled
  OBVIOUS
<1>10. \A e \in new : signals \/ Day(t) \in reducer.signaled
  BY <1>6
<1>11. Placed'
  <2>1. ASSUME NEW c \in reducer'.confirmations
        PROVE  c.slot \in Nat /\ c.slot <= t /\ c.level \in Int
    <3> HIDE DEF x, C, signals, new
    <3> QED BY <2>1, <1>3, <1>5, <1>6, <1>8
  <2> QED BY <1>3, <1>4, <2>1 DEF Placed
<1> HIDE DEF x, C, signals, new
<1>12. Spent'
  <2>1. signals => /\ Day(t) \in reducer'.signaled
                   /\ reducer'.signaled \subseteq reducer.signaled \cup {Day(t)}
    BY <1>3, <1>5, LevelConstants DEF Marked, Day
  <2>2. ~signals => reducer'.signaled = reducer.signaled
    BY <1>5
  <2>3. ASSUME NEW c \in reducer'.confirmations, Day(c.slot) = Day(t)
        PROVE  Day(t) \in reducer'.signaled
    <3>1. CASE signals
      BY <2>1, <3>1
    <3>2. CASE ~signals
      BY <1>5, <1>7, <2>2, <2>3, <3>2
    <3> QED BY <3>1, <3>2
  <2>4. ASSUME NEW d \in reducer'.signaled
        PROVE  \E c \in reducer'.confirmations : Day(c.slot) = d
    <3>1. CASE d \in reducer.signaled
      BY <1>3, <1>5, <3>1 DEF Spent, C
    <3>2. CASE signals /\ d = Day(t)
      BY <1>5, <1>6, <3>2
    <3> QED BY <2>1, <2>2, <3>1, <3>2
  <2> QED BY <1>3, <2>3, <2>4 DEF Spent
<1>13. Answered'
  <2>1. ASSUME NEW e \in Offered(batch')
        PROVE  \E c \in reducer'.confirmations : SameSession(c, e) /\ c.slot <= e.slot
    <3>1. CASE e \in Offered(batch)
      BY <1>3, <1>5, <3>1 DEF Answered, C
    <3>2. CASE e \in new /\ signals
      <4>1. x \in reducer'.confirmations /\ x.slot = t /\ e.slot = t /\ t <= t
        BY <1>3, <1>5, <1>6, <3>2
      <4> QED BY <4>1 DEF SameSession
    <3>3. CASE e \in new /\ ~signals
      <4>1. PICK c \in C : Day(c.slot) = Day(t)
        BY <1>7, <1>10, <3>3
      <4>2. c \in reducer'.confirmations /\ c.slot <= t /\ e.slot = t
        BY <1>3, <1>5, <1>6, <1>8, <3>3
      <4> QED BY <4>1, <4>2 DEF SameSession
    <3> QED BY <1>5, <3>1, <3>2, <3>3
  <2> QED BY <2>1 DEF Answered
<1>14. Leading'
  <2>1. ASSUME NEW c \in C, Day(c.slot) \notin rejected'
        PROVE  /\ Pair(c) \in Offered(batch')
               /\ \A e \in Offered(batch') : SameSession(c, e) => Ahead(c, e)
    <3>1. /\ Pair(c) \in Offered(batch)
          /\ \A e \in Offered(batch) : SameSession(c, e) => Ahead(c, e)
      BY <1>3, <1>5, <2>1 DEF Leading, C
    <3>2. Pair(c) \in Offered(batch')
      <4>1. Pair(c).slot = c.slot
        BY DEF Pair
      <4> QED BY <1>5, <2>1, <3>1, <4>1
    <3>3. \A e \in new : Ahead(c, e)
      BY <1>6, <1>8 DEF Ahead
    <3> QED BY <1>5, <3>1, <3>2, <3>3
  <2>2. ASSUME signals
        PROVE  /\ Pair(x) \in Offered(batch')
               /\ \A e \in Offered(batch') : SameSession(x, e) => Ahead(x, e)
    <3>1. ASSUME NEW e \in Offered(batch), SameSession(x, e) PROVE FALSE
      <4>1. PICK c \in C : SameSession(c, e)
        BY <1>3 DEF Answered, C
      <4>2. Day(c.slot) = Day(t)
        BY <1>6, <3>1, <4>1 DEF SameSession
      <4> QED BY <1>7, <1>9, <2>2, <4>2
    <3>2. \A e \in new : Ahead(x, e)
      BY <1>6, <2>2 DEF Ahead
    <3> QED BY <1>5, <1>6, <2>2, <3>1, <3>2
  <2> QED BY <1>5, <2>1, <2>2 DEF Leading
<1> QED BY <1>11, <1>12, <1>13, <1>14 DEF ParityInv

\* As long as no bar is folded twice, the two engines answer one another.
THEOREM ParityInvariant == Spec => []ParityInv
<1>1. ASSUME LevelsInv, ParityInv, [Next]_vars PROVE ParityInv'
  <2>1. ASSUME NEW t \in Slots, NewBar(t) \/ NewBarTwice(t) PROVE ParityInv'
    <3>1. CASE NewBar(t)
      BY <1>1, <3>1, NewBarParity
    <3>2. CASE NewBarTwice(t)
      BY <3>2 DEF NewBarTwice, ParityInv
    <3> QED BY <2>1, <3>1, <3>2
  <2>2. CASE UNCHANGED vars
    BY <1>1, <2>2 DEF vars, ParityInv, Placed, Spent, Answered, Leading, Offered, Standing, Newest
  <2> QED BY <1>1, <2>1, <2>2 DEF Next
<1>2. Init => ParityInv
  BY DEF Init, ParityInv, Placed, Spent, Answered, Leading, Offered, Standing
<1> QED BY <1>1, <1>2, LevelsInvariant, PTL DEF Spec

\* What is offered of the slots before the newest is a candidate already.
LEMMA OfferedEarlier ==
  ASSUME Placed, NEW e \in Offered(batch), e.slot < Newest, Newest \in Nat
  PROVE  e \in batch.candidates
<1>1. ASSUME NEW a \in Standing(batch), e = Pair(a) PROVE FALSE
  BY <1>1 DEF Placed, Standing, Pair
<1> QED BY <1>1 DEF Offered

\* Parity is what that comes to.
LEMMA ParityHolds ==
  ASSUME LevelsInv, ParityInv PROVE Parity
<1> SUFFICES ASSUME repeats = 0 PROVE ParityWithoutHindsight /\ NeverLaterThanBatch
  BY DEF Parity
<1> DEFINE C == reducer.confirmations
           G == batch.candidates
<1>1. Placed /\ Answered /\ Leading /\ Newest \in Nat
  BY DEF ParityInv, LevelsInv, NewestOf
<1>2. G \subseteq Offered(batch)
  BY DEF Offered
<1>3. Selected(batch) = {c \in G : \A d \in G : Day(d.slot) = Day(c.slot) => Ahead(c, d)}
  BY DEF Selected, Ahead
<1>4. /\ \A e \in G : e.slot \in Nat /\ e.level \in Int
      /\ \A c \in C : c.slot \in Nat /\ c.level \in Int /\ Pair(c).slot = c.slot /\ Pair(c).level = c.level
  BY <1>1 DEF Placed, Pair
<1>5. ASSUME NEW c \in C, Day(c.slot) \notin rejected, c.slot < Newest
      PROVE  Pair(c) \in Selected(batch)
  <2>1. /\ Pair(c) \in Offered(batch)
        /\ \A e \in Offered(batch) : SameSession(c, e) => Ahead(c, e)
    BY <1>1, <1>5 DEF Leading
  <2>2. Pair(c) \in G
    BY <1>1, <1>4, <1>5, <2>1, OfferedEarlier
  <2>3. \A d \in G : Day(d.slot) = Day(Pair(c).slot) => Ahead(Pair(c), d)
    BY <1>2, <1>4, <2>1 DEF SameSession, Ahead
  <2> QED BY <1>3, <2>2, <2>3
<1>6. ASSUME NEW s \in Selected(batch), Day(s.slot) \notin rejected, s.slot < Newest
      PROVE  \E c \in C : c.slot = s.slot /\ c.level = s.level
  <2>1. s \in G /\ \A d \in G : Day(d.slot) = Day(s.slot) => Ahead(s, d)
    BY <1>3
  <2>2. PICK c \in C : SameSession(c, s) /\ c.slot <= s.slot
    BY <1>1, <1>2, <2>1 DEF Answered
  <2>3. /\ Pair(c) \in Offered(batch)
        /\ Ahead(c, s)
    BY <1>1, <1>2, <1>6, <2>1, <2>2 DEF Leading, SameSession
  <2>4. c.slot < Newest
    BY <1>1, <1>4, <1>6, <2>1, <2>2
  <2>5. Pair(c) \in G
    BY <1>1, <1>4, <2>3, <2>4, OfferedEarlier
  <2>6. Ahead(s, Pair(c))
    BY <1>4, <2>1, <2>2, <2>5 DEF SameSession
  <2> QED BY <1>4, <2>1, <2>2, <2>3, <2>6 DEF Ahead
<1>7. ASSUME NEW d, d \notin rejected
      PROVE  InSession(Before(Selected(batch), Newest), d) = InSession(Before(C, Newest), d)
  <2>1. \A S : InSession(Before(S, Newest), d) =
                 {Pair(c) : c \in {k \in S : k.slot < Newest /\ Day(k.slot) = d}}
    BY DEF InSession, Before, Pair
  <2>2. ASSUME NEW s \in Selected(batch), s.slot < Newest, Day(s.slot) = d
        PROVE  \E c \in C : c.slot < Newest /\ Day(c.slot) = d /\ Pair(c) = Pair(s)
    <3>1. PICK c \in C : c.slot = s.slot /\ c.level = s.level
      BY <1>6, <1>7, <2>2
    <3> QED BY <2>2, <3>1 DEF Pair
  <2>3. ASSUME NEW c \in C, c.slot < Newest, Day(c.slot) = d
        PROVE  \E s \in Selected(batch) : s.slot < Newest /\ Day(s.slot) = d /\ Pair(s) = Pair(c)
    <3>1. Pair(c) \in Selected(batch)
      BY <1>5, <1>7, <2>3
    <3>2. Pair(Pair(c)) = Pair(c) /\ Pair(c).slot = c.slot
      BY DEF Pair
    <3> QED BY <2>3, <3>1, <3>2
  <2> DEFINE P(S) == {Pair(c) : c \in {k \in S : k.slot < Newest /\ Day(k.slot) = d}}
  <2>4. P(Selected(batch)) \subseteq P(C)
    BY <2>2, Zenon
  <2>5. P(C) \subseteq P(Selected(batch))
    BY <2>3, Zenon
  <2> HIDE DEF P, C
  <2>6. \A S : InSession(Before(S, Newest), d) = P(S)
    BY <2>1 DEF P
  <2> QED BY <2>4, <2>5, <2>6
<1>8. NeverLaterThanBatch
  BY <1>1, <1>2, <1>3 DEF NeverLaterThanBatch, Answered, SameSession
<1> QED BY <1>7, <1>8 DEF ParityWithoutHindsight

\* The live engine signals what the frozen batch engine signals, session by session, but
\* for what only the bar after a confirmation shows; and where the batch engine signals at
\* all, the live one has done so by then (process_new_bar against generate_signals).
THEOREM EnginesInParity == Spec => []Parity
<1>1. LevelsInv /\ ParityInv => Parity
  BY ParityHolds
<1> QED BY <1>1, LevelsInvariant, ParityInvariant, PTL
=============================================================================
