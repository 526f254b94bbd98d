------------------------------ MODULE SlcLevels ------------------------------
(***************************************************************************)
(* The level engine twice: the live reducer, which folds one bar at a time *)
(* and confirms a signal the moment its bar closes, and the frozen batch   *)
(* engine it must agree with, which scans the whole history and reads the  *)
(* bar after the confirming one.  Both walk the same bars here, in         *)
(* lockstep; a batch level whose next bar is not there yet waits for it.   *)
(* Prices are reduced to what the rules tell apart: where a bar lies to a  *)
(* level, and which side of its two thresholds the stochastic is on.  Any  *)
(* combination for any two levels is allowed, possible prices or not.      *)
(***************************************************************************)
EXTENDS Integers, FiniteSets, Sequences

CONSTANTS
    LastBar,        \* bound: five-minute slots are 1..LastBar
    BarsPerDay,     \* slots of a session (78 in the code)
    SplitSlot,      \* slots of the first four-hour bucket (48)
    LastEntrySlot,  \* the last slot of a session whose close is not past 15:30 (72)
    ImpulseBars,    \* bars of the impulse after a level's base (3)
    Warmup,         \* bars before a base for its ATR to exist (14)
    MaxSessions,    \* MAX_LEVEL_SESSIONS, max_level_sessions
    Retention,      \* SIGNALED_SESSION_RETENTION_DAYS, in sessions
    Directions,     \* subset of {"long", "short"}
    KZones,         \* subset of K
    MaxLevels,      \* bound on the levels found
    MaxGaps         \* bound on the slots without a bar

K == {"none", "low", "at20", "mid", "at80", "high"}
ASSUME LevelConstants ==
    /\ LastBar \in Nat /\ BarsPerDay \in Nat \ {0} /\ LastEntrySlot \in Nat
    /\ SplitSlot \in 1..BarsPerDay
    /\ ImpulseBars \in Nat \ {0} /\ Warmup \in Nat /\ MaxSessions \in Nat /\ Retention \in Nat
    /\ Directions \subseteq {"long", "short"} /\ KZones \subseteq K
    /\ MaxLevels \in Nat /\ MaxGaps \in Nat

VARIABLES
    seen,      \* the slots a bar came for
    reducer,   \* ReducerState, and what process_new_bar has returned so far
    batch,     \* what generate_signals makes of the bars of `seen`
    rejected,  \* sessions in which the batch engine turned down, in hindsight, a confirmation
    repeats    \* 1 once a bar has been folded twice, else 0
vars == <<seen, reducer, batch, rejected, repeats>>

Slots == 1..LastBar
Day(t) == (t - 1) \div BarsPerDay
SlotOfDay(t) == ((t - 1) % BarsPerDay) + 1
Newest == IF seen = {} THEN 0 ELSE CHOOSE t \in seen : \A u \in seen : u <= t

-----------------------------------------------------------------------------
(* Levels.  A level is named by the slot of its base; the impulse after a   *)
(* base is bullish or bearish in two of three bars, so it has one direction.*)

\* Where a bar lies: "against" closes beyond the level's wrong side, "clear" closes beyond
\* the right side without touching it, "beyond" does so and touches it, "inside" closes in it.
Relations == {"against", "inside", "beyond", "clear"}
Reclaims(rel) == rel \in {"beyond", "clear"}
Touches(rel) == rel \in {"inside", "beyond"}

Extreme(dir, k) == k = (IF dir = "long" THEN "low" ELSE "high")
\* Broken twin of Crosses: reaching the threshold is enough.
CrossesAtThreshold(dir, prior, k) ==
    IF dir = "long" THEN prior \in {"low", "at20"} /\ k \in {"at20", "mid", "at80", "high"}
                    ELSE prior \in {"high", "at80"} /\ k \in {"at80", "mid", "at20", "low"}
Crosses(dir, prior, k) ==
    IF dir = "long" THEN prior \in {"low", "at20"} /\ k \in {"mid", "at80", "high"}
                    ELSE prior \in {"high", "at80"} /\ k \in {"mid", "at20", "low"}
Structure(dir) == IF dir = "long" THEN "uptrend" ELSE "downtrend"

\* The bars of one session around a base: no gap among them, and an ATR at the base.
ImpulseComplete(bars, base) ==
    /\ base >= 1
    /\ Day(base) = Day(base + ImpulseBars)
    /\ base..(base + ImpulseBars) \subseteq bars
    /\ Cardinality({t \in bars : t < base}) >= Warmup
SessionsElapsed(level, t) == Day(t) - Day(level)
EntryNotLate(t) == SlotOfDay(t) <= LastEntrySlot

NewLevel(dir) == [dir |-> dir, state |-> "fresh", touched |-> FALSE, armed |-> FALSE, prior |-> "none"]
Unarmed(v, state) == [v EXCEPT !.state = state, !.touched = FALSE, !.armed = FALSE, !.prior = "none"]

-----------------------------------------------------------------------------
(* The reducer. *)

Keep(v) == [result |-> "keep", level |-> v]
Invalidate(v) == [result |-> "invalidate", level |-> v]
ConfirmPending(v) == [result |-> "confirm_pending", level |-> v]

\* A bar that touches an eligible level arms it, and confirms it when the stochastic comes
\* back over its threshold in a market of the right structure.
Touch(v, b) ==
    LET armed == v.armed \/ Extreme(v.dir, b.k)
        w == [v EXCEPT !.touched = TRUE, !.armed = armed, !.prior = b.k]
        confirmed == armed /\ Crosses(v.dir, v.prior, b.k) /\ b.trend = Structure(v.dir)
    IN
    CASE ~confirmed -> Keep(w)
      [] confirmed /\ ~EntryNotLate(b.slot) -> Invalidate(w)
      [] confirmed /\ EntryNotLate(b.slot) -> ConfirmPending(w)

\* Broken twin of Expired: a session too early.
ExpiredEarly(level, t) == SessionsElapsed(level, t) >= MaxSessions
Expired(level, t) == SessionsElapsed(level, t) > MaxSessions
AdvanceLevel(level, v, b) ==
    LET rel == b.rel[level] IN
    IF Expired(level, b.slot) THEN Invalidate(v)
    ELSE CASE v.state = "fresh" /\ rel = "against" -> Keep(Unarmed(v, "waiting_reclaim"))
           [] v.state = "waiting_reclaim" ->
                IF Reclaims(rel) THEN Keep(Unarmed(v, "reclaimed")) ELSE Keep(v)
           [] v.state = "reclaimed" /\ rel = "against" -> Invalidate(v)
           [] v.state # "waiting_reclaim" /\ rel = "clear" ->
                IF v.touched THEN Invalidate(v) ELSE Keep([v EXCEPT !.prior = b.k])
           [] v.state # "waiting_reclaim" /\ Touches(rel) -> Touch(v, b)

BucketStart(t) == IF SlotOfDay(t) <= SplitSlot THEN t - SlotOfDay(t) + 1
                                               ELSE t - SlotOfDay(t) + 1 + SplitSlot
Expected(start) == IF SlotOfDay(start) = 1 THEN SplitSlot ELSE BarsPerDay - SplitSlot

NoBucket == [start |-> 0, count |-> 0]
\* A bar out of turn discards the bucket; only its first slot starts one.
BucketAfter(b, t) ==
    LET start == BucketStart(t)
        open == b.start = start /\ t = start + b.count
    IN IF open THEN [b EXCEPT !.count = @ + 1]
       ELSE IF t = start THEN [start |-> start, count |-> 1]
       ELSE IF b.start = start THEN NoBucket ELSE b

\* The level whose impulse this bar completes; `impulse` is the direction the prices give it.
Detected(bars, t, impulse) ==
    IF impulse # "none" /\ ImpulseComplete(bars, t - ImpulseBars)
    THEN [l \in {t - ImpulseBars} |-> NewLevel(impulse)] ELSE [l \in {} |-> NewLevel(impulse)]
\* A bar that is in the tail twice is not five minutes from its neighbour.
DetectNewLevels(bars, b, fold) == Detected(bars, b.slot, IF fold = 1 THEN b.impulse ELSE "none")

\* Broken twin of Winner: the oldest level.
WinnerOldest(candidates) == CHOOSE l \in candidates : \A m \in candidates : l <= m
Winner(candidates) == CHOOSE l \in candidates : \A m \in candidates : m <= l
Marked(signaled, t, atr) ==
    IF atr THEN {d \in signaled \cup {Day(t)} : d >= Day(t) - Retention} ELSE signaled

\* One bar through process_new_bar.  Candidates of one bar compete by recency, and all of
\* them are spent, whether or not the session has had its signal.
ProcessNewBar(r, bars, b, fold) ==
    LET t == b.slot
        found == DetectNewLevels(bars, b, fold)
        step == [l \in DOMAIN r.active |-> 
                    IF t <= l + ImpulseBars THEN Keep(r.active[l]) ELSE AdvanceLevel(l, r.active[l], b)]
        candidates == {l \in DOMAIN step : step[l].result = "confirm_pending"}
        kept == {l \in DOMAIN step : step[l].result = "keep"} \cup DOMAIN found
        unsignaled == candidates # {} /\ Day(t) \notin r.signaled
        bucket == BucketAfter(r.bucket, t)
        whole == bucket.start # 0 /\ bucket.count = Expected(bucket.start)
    IN
    [active |-> [l \in kept |-> IF l \in DOMAIN r.active THEN step[l].level ELSE found[l]],
     bucket |-> IF whole THEN NoBucket ELSE bucket,
     bars4h |-> IF whole THEN r.bars4h \cup {bucket.start} ELSE r.bars4h,
     signaled |-> IF unsignaled THEN Marked(r.signaled, t, b.atr) ELSE r.signaled,
     confirmations |->
        r.confirmations \cup IF unsignaled /\ b.atr
                             THEN {[level |-> Winner(candidates), slot |-> t, fold |-> fold]} ELSE {}]

-----------------------------------------------------------------------------
(* The batch engine.  It scans a level over the bars after it and stops at the *)
(* first one that settles the level.                                           *)

\* A level the bar leaves scanning; what it is then.
Unsettled(level, v, b) ==
    LET rel == b.rel[level] IN
    /\ SessionsElapsed(level, b.slot) <= MaxSessions
    /\ ~(v.state = "reclaimed" /\ rel = "against")
    /\ ~(v.state # "waiting_reclaim" /\ rel = "clear" /\ v.touched)
Confirms(level, v, b) ==
    LET rel == b.rel[level] IN
    /\ v.state # "waiting_reclaim" /\ Touches(rel)
    /\ v.armed \/ Extreme(v.dir, b.k)
    /\ Crosses(v.dir, v.prior, b.k)
    /\ b.trend = Structure(v.dir)
Scanned(v, rel, k) ==
    IF v.state = "fresh" /\ rel = "against" THEN Unarmed(v, "waiting_reclaim")
    ELSE IF v.state = "waiting_reclaim"
         THEN IF Reclaims(rel) THEN Unarmed(v, "reclaimed") ELSE v
         ELSE IF rel = "clear" THEN [v EXCEPT !.prior = k]
              ELSE [v EXCEPT !.touched = TRUE, !.armed = @ \/ Extreme(v.dir, k), !.prior = k]

\* The bar after a confirming one: it must follow at once, in the same session, not past
\* 15:30, and open on the right side of the stop (`risky` ones do not).
Accepted(a, t, risky) ==
    t = a.slot + 1 /\ Day(t) = Day(a.slot) /\ EntryNotLate(a.slot) /\ a.atr /\ a \notin risky
Undecided(g, confirming, b) == {[level |-> l, slot |-> b.slot, atr |-> b.atr] : l \in confirming}
GenerateSignals(g, bars, b, risky) ==
    LET found == Detected(bars, b.slot, b.impulse)
        unsettled == {l \in DOMAIN g.scan : Unsettled(l, g.scan[l], b)}
        confirming == {l \in unsettled : Confirms(l, g.scan[l], b)}
        accepted == {a \in g.awaiting : Accepted(a, b.slot, risky)}
    IN
    [scan |-> [l \in (unsettled \ confirming) \cup DOMAIN found |->
                 IF l \in DOMAIN g.scan THEN Scanned(g.scan[l], b.rel[l], b.k) ELSE found[l]],
     awaiting |-> Undecided(g, confirming, b),
     candidates |-> g.candidates \cup {[level |-> a.level, slot |-> a.slot] : a \in accepted}]

\* One signal per session: the earliest, and of several at once the newest level's.
Selected(g) ==
    {c \in g.candidates : \A d \in g.candidates :
        Day(d.slot) = Day(c.slot) =>
            c.slot < d.slot \/ (c.slot = d.slot /\ d.level <= c.level)}
Aggregated(bars) ==
    {BucketStart(t) : t \in {u \in bars :
        BucketStart(u)..(BucketStart(u) + Expected(BucketStart(u)) - 1) \subseteq bars}}

\* check_engine_parity over the bars so far: what was confirmed before the window's end.
Before(S, windowEnd) == {[level |-> c.level, slot |-> c.slot] : c \in {d \in S : d.slot < windowEnd}}
EngineParity(windowEnd) ==
    Before(Selected(batch), windowEnd) = Before(reducer.confirmations, windowEnd)

-----------------------------------------------------------------------------
\* Sessions in which a confirmation was turned down for what only the next bar shows.
TurnedDown(t, risky) ==
    {Day(a.slot) : a \in {x \in batch.awaiting :
        x.atr /\ EntryNotLate(x.slot) /\ ~Accepted(x, t, risky)}}

\* What the prices of one bar may be to the two engines.  Structure and ATR are left open
\* only where a level may confirm; they change nothing elsewhere.
MayConfirm(levels, b) ==
    \E l \in DOMAIN levels : Touches(b.rel[l]) /\ Crosses(levels[l].dir, levels[l].prior, b.k)
Prices(t) ==
    LET tracked == DOMAIN reducer.active \cup DOMAIN batch.scan
        impulses == IF ImpulseComplete(seen \cup {t}, t - ImpulseBars)
                       /\ Cardinality(tracked) < MaxLevels
                    THEN Directions \cup {"none"} ELSE {"none"}
    IN {b \in [slot : {t}, rel : [tracked -> Relations], k : KZones,
                trend : {Structure(d) : d \in Directions} \cup {"consolidation"},
                atr : BOOLEAN, impulse : impulses] :
          \/ b.trend = "consolidation" /\ b.atr
          \/ MayConfirm(reducer.active, b) \/ MayConfirm(batch.scan, b)}

Gaps(t) == Cardinality((1..(t - 1)) \ seen)

\* The next bar the feed has; slots without one stay empty for good.
NewBar(t) ==
    /\ repeats = 0
    /\ t > Newest /\ Gaps(t) <= MaxGaps
    /\ seen' = seen \cup {t}
    /\ \E b \in Prices(t), risky \in SUBSET batch.awaiting :
         /\ reducer' = ProcessNewBar(reducer, seen', b, 1)
         /\ batch' = GenerateSignals(batch, seen', b, risky)
         /\ rejected' = rejected \cup TurnedDown(t, risky)
    /\ UNCHANGED repeats

\* A slow cycle expects the bar the next cycle expects too: the live path folds it twice.
\* The batch engine drops the duplicate.  From here on the two may differ (the ATR is read
\* off another bar while the duplicate is in the tail), and the model stops.
NewBarTwice(t) ==
    /\ repeats = 0 /\ repeats' = 1
    /\ t > Newest /\ Gaps(t) <= MaxGaps
    /\ seen' = seen \cup {t}
    /\ \E b \in Prices(t), risky \in SUBSET batch.awaiting :
         /\ reducer' = ProcessNewBar(ProcessNewBar(reducer, seen', b, 1), seen', b, 2)
         /\ batch' = GenerateSignals(batch, seen', b, risky)
         /\ rejected' = rejected \cup TurnedDown(t, risky)

Init ==
    /\ seen = {} /\ rejected = {} /\ repeats = 0
    /\ reducer = [active |-> [l \in {} |-> NewLevel("long")], bucket |-> NoBucket,
                  bars4h |-> {}, signaled |-> {}, confirmations |-> {}]
    /\ batch = [scan |-> [l \in {} |-> NewLevel("long")], awaiting |-> {}, candidates |-> {}]
Next == \E t \in Slots : NewBar(t) \/ NewBarTwice(t)
Spec == Init /\ [][Next]_vars

(***************************************************************************)
(* Market structure as the four-hour bars show it.  A bar is its high and  *)
(* its low; a pivot is known SideBars bars after it, never earlier.        *)
(***************************************************************************)

CONSTANT SideBars   \* side_bars (2)
ASSUME SideBarsPositive == SideBars \in Nat \ {0}

Bars4h == Seq([high : Int, low : Int])
Neighbours(i) == ((i - SideBars)..(i + SideBars)) \ {i}

\* Strict pivots, by the bar they are at; `asof` counts the bars that have ended.
HighPivots(bars, asof) ==
    {i \in 1..Len(bars) : /\ i > SideBars /\ i + SideBars <= Len(bars) /\ i + SideBars <= asof
                          /\ \A j \in Neighbours(i) : bars[i].high > bars[j].high}
LowPivots(bars, asof) ==
    {i \in 1..Len(bars) : /\ i > SideBars /\ i + SideBars <= Len(bars) /\ i + SideBars <= asof
                          /\ \A j \in Neighbours(i) : bars[i].low < bars[j].low}
\* The newest pivot and the one before it.
LastTwo(P, i, j) == /\ {i, j} \subseteq P /\ i < j
                    /\ \A m \in P : m <= i \/ m = j

ClassifyStructure(bars, asof) ==
    LET H == HighPivots(bars, asof)
        L == LowPivots(bars, asof)
        rising == /\ \E i, j \in H : LastTwo(H, i, j) /\ bars[j].high > bars[i].high
                  /\ \E i, j \in L : LastTwo(L, i, j) /\ bars[j].low > bars[i].low
        falling == /\ \E i, j \in H : LastTwo(H, i, j) /\ bars[j].high < bars[i].high
                   /\ \E i, j \in L : LastTwo(L, i, j) /\ bars[j].low < bars[i].low
    IN IF rising THEN "uptrend" ELSE IF falling THEN "downtrend" ELSE "consolidation"

(***************************************************************************)
(* What the two engines owe one another, bar by bar.                        *)
(***************************************************************************)
LevelRecord == [dir : {"long", "short"}, state : {"fresh", "waiting_reclaim", "reclaimed"},
                touched : BOOLEAN, armed : BOOLEAN, prior : K]
TypeOK ==
    /\ seen \subseteq Slots /\ repeats \in {0, 1}
    /\ DOMAIN reducer.active \subseteq Slots
    /\ \A l \in DOMAIN reducer.active : reducer.active[l] \in LevelRecord
    /\ reducer.bars4h \subseteq Slots
    /\ reducer.bucket.count \in 0..BarsPerDay
    /\ \A c \in reducer.confirmations : c.level \in Slots /\ c.slot \in seen
    /\ \A a \in batch.awaiting : a.level \in Slots /\ a.slot = Newest
    /\ DOMAIN batch.scan \subseteq Slots
    /\ \A l \in DOMAIN batch.scan : batch.scan[l] \in LevelRecord

\* The reducer keeps exactly the levels the batch scan has not settled, each with what the
\* scan knows of it, and the four-hour bars of the batch aggregation, whatever bars are
\* missing: it forgets nothing it needs with the bars it drops (_update_4h_aggregate,
\* _advance_level).
LevelsAgree ==
    repeats = 0 => /\ reducer.active = batch.scan
                   /\ reducer.bars4h = Aggregated(seen)

\* Engine parity holds over any prefix of the bars, for every session in which no
\* confirmation was turned down in hindsight: same signals, same levels, same bars.
InSession(S, d) == {c \in S : Day(c.slot) = d}
ParityWithoutHindsight ==
    \A d \in {Day(t) : t \in seen} \ rejected :
        InSession(Before(Selected(batch), Newest), d)
            = InSession(Before(reducer.confirmations, Newest), d)

\* With hindsight the batch engine may decide otherwise, but the reducer has confirmed in
\* every session with a batch signal, and not later than it.
NeverLaterThanBatch ==
    \A s \in Selected(batch) : \E c \in reducer.confirmations :
        Day(c.slot) = Day(s.slot) /\ c.slot <= s.slot

\* The live engine signals what the frozen batch engine signals, but for what only the
\* next bar shows (process_new_bar against generate_signals).
Parity == repeats = 0 => ParityWithoutHindsight /\ NeverLaterThanBatch

\* A bar that is folded twice confirms nothing the second time.
RepeatConfirmsNothing == \A c \in reducer.confirmations : c.fold = 1
=============================================================================
