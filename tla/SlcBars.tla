------------------------------- MODULE SlcBars -------------------------------
(***************************************************************************)
(* Five-minute bars on their way into the level engine: the feed, the rows *)
(* of SlcFiveMinBar, the fold SlcReducerState keeps of them, and the two   *)
(* stages that write both (the ingestion of a cycle, and the bootstrap and *)
(* split repair of a preflight).  Time is counted in bars: `clock` is the  *)
(* number of the last bar that has closed.  Of a bar the model keeps its   *)
(* slot and its price scale; of the engine, which bars it was fed in which *)
(* order and for which sessions it has already confirmed a signal.         *)
(***************************************************************************)
EXTENDS Integers, Sequences, FiniteSets, SequencesExt

CONSTANTS
    Symbols,         \* UNIVERSE
    LastSlot,        \* bound: the clock stops here
    SlotsPerDay,     \* bars of a session (78 in the code)
    LookbackDays,    \* SPLIT_OVERLAP_LOOKBACK_DAYS
    MinOverlapBars,  \* MIN_OVERLAP_BARS
    MinRebuildBars,  \* MIN_REBUILD_BARS
    Evidence,        \* what the corporate-actions feed may say of a recent split
    Faults,          \* "crash": the process dies; "fetch": a fetch comes back empty;
                     \* "slow": a bar closes while a cycle still reconciles its orders
    MaxFaults,       \* bound on all of them together
    MaxMissing       \* bound on the bars the feed holds back at one time

ASSUME BarConstants ==
    /\ LastSlot \in Nat /\ SlotsPerDay \in 1..LastSlot /\ LookbackDays \in Nat
    /\ MinOverlapBars \in Nat /\ MinRebuildBars \in Nat
    /\ Evidence \subseteq {"none", "right", "wrong"}
    /\ Faults \subseteq {"crash", "fetch", "slow"}
    /\ MaxFaults \in Nat /\ MaxMissing \in Nat

VARIABLES
    clock,    \* the last closed bar
    feed,     \* [Symbols -> SUBSET Slots]: the bars the feed can deliver
    split,    \* [Symbols -> days]: the day whose open a split precedes, 0 for none
    look,     \* [Symbols -> "none", "found" or "missed"]: what the looks for the split
              \* have come to; the code keeps no such thing, only the properties read it
    bars,     \* [Symbols -> partial function Slots -> scale]: SlcFiveMinBar
    fold,     \* [Symbols -> SlcReducerState]
    parity,   \* the last day whose SlcSessionStat says that the engine parity holds
    signals,  \* the SlcSignalRecord rows of the session in progress
    run,      \* the stage the process is in
    faults    \* how many of each fault have happened
vars == <<clock, feed, split, look, bars, fold, parity, signals, run, faults>>

Slots == 1..LastSlot
Day(t) == (t - 1) \div SlotsPerDay
BetweenSessions == clock % SlotsPerDay = 0
Today == IF BetweenSessions THEN clock \div SlotsPerDay ELSE Day(clock)
\* Every fetch returns history on the scale of the moment of the fetch.
Scale(s) == IF split[s] = 0 THEN 0 ELSE 1
Fetched(s, from, to) == [t \in feed[s] \cap (from..to) |-> Scale(s)]

\* `history` counts the leading bars of `fed` that came from a bootstrap; the code has no
\* such field, only the properties read it.
NoFold == [bootstrapped |-> FALSE, fed |-> <<>>, signaled |-> {}, pending |-> FALSE, history |-> 0]
LastFed(f) == IF f.fed = <<>> THEN 0 ELSE Last(f.fed).slot
InOrder(b) == [i \in 1..Cardinality(DOMAIN b) |->
    LET t == CHOOSE t \in DOMAIN b : Cardinality({u \in DOMAIN b : u <= t}) = i IN
    [slot |-> t, scale |-> b[t]]]

\* Broken twin of FedWith: the sessions that have signaled are not loaded with the state.
FedForgetful(f, seq, sessions) == [f EXCEPT !.fed = @ \o seq, !.signaled = sessions]

\* The state is loaded, run through process_new_bar one bar after the other, and saved,
\* the sessions that have signaled with it.  Whether the session confirms a
\* signal is up to the prices.  Sessions that are over are dropped from `signaled` at
\* once (the code keeps them for 45 days): no later bar asks about them.
FedWith(f, seq, sessions) ==
    [f EXCEPT !.fed = @ \o seq,
              !.signaled = {d \in @ \cup sessions : \A x \in Range(seq) : d >= Day(x.slot)}]
SessionsOf(seq) == {Day(x.slot) : x \in Range(seq)}
Bootstrapped(b) ==
    [bootstrapped |-> TRUE, fed |-> InOrder(b), signaled |-> {}, pending |-> FALSE,
     history |-> Cardinality(DOMAIN b)]

Idle == [pc |-> "idle", exp |-> 0, todo |-> {}, written |-> {}, confs |-> {}, started |-> FALSE]
Goto(pc) == [run EXCEPT !.pc = pc]
Done(s, next) == IF run.todo = {s} THEN [run EXCEPT !.pc = next, !.todo = {}]
                                   ELSE [run EXCEPT !.todo = @ \ {s}]
Stop == [Idle EXCEPT !.started = run.started]

CanFail(f) == /\ f \in Faults /\ faults[f] = 0
              /\ faults.crash + faults.fetch + faults.slow < MaxFaults
Fail(f) == CanFail(f) /\ faults' = [faults EXCEPT ![f] = 1]

-----------------------------------------------------------------------------
(* Time and the feed. *)

\* A bar closes; the feed has it at once for some symbols.  Stages are short against
\* five minutes, but for the broker calls a cycle makes before it reads the clock.
Tick ==
    /\ clock < LastSlot
    /\ \/ run.pc = "idle" /\ UNCHANGED faults
       \/ run.pc = "reconcile" /\ Fail("slow")
    /\ clock' = clock + 1
    /\ \E prompt \in SUBSET Symbols :
         feed' = [s \in Symbols |-> IF s \in prompt THEN feed[s] \cup {clock'} ELSE feed[s]]
    /\ \A s \in Symbols : Cardinality((1..clock') \ feed'[s]) <= MaxMissing
    /\ run' = [run EXCEPT !.started = FALSE]
    /\ UNCHANGED <<split, look, bars, fold, parity, signals>>

\* A bar the feed had held back.
DeliverLate(s) ==
    /\ \E t \in (1..clock) \ feed[s] : feed' = [feed EXCEPT ![s] = @ \cup {t}]
    /\ UNCHANGED <<clock, split, look, bars, fold, parity, signals, run, faults>>

SplitOvernight(s) ==
    /\ run.pc = "idle" /\ BetweenSessions /\ split[s] = 0 /\ ~run.started
    /\ split' = [split EXCEPT ![s] = Today]
    /\ look' = [look EXCEPT ![s] = "none"]
    /\ UNCHANGED <<clock, feed, bars, fold, parity, signals, run, faults>>

Crash ==
    /\ run.pc # "idle" /\ Fail("crash")
    /\ run' = Stop
    /\ UNCHANGED <<clock, feed, split, look, bars, fold, parity, signals>>

-----------------------------------------------------------------------------
(* Preflight: bootstrap what never was, then look for splits. *)

StartPreflight ==
    /\ run.pc = "idle" /\ BetweenSessions
    /\ run' = [Idle EXCEPT !.pc = "bootstrap", !.todo = Symbols, !.started = TRUE]
    /\ UNCHANGED <<clock, feed, split, look, bars, fold, parity, signals, faults>>

\* The history itself is not cached, only the fold of it.  A fetch that comes back
\* empty leaves the symbol for the next preflight.
Bootstrap(s) ==
    LET history == Fetched(s, 1, clock) IN
    /\ run.pc = "bootstrap" /\ s \in run.todo
    /\ run' = Done(s, "candidates")
    /\ \/ fold[s].bootstrapped /\ UNCHANGED <<fold, faults>>
       \/ ~fold[s].bootstrapped /\ Fail("fetch") /\ UNCHANGED fold
       \/ /\ ~fold[s].bootstrapped /\ UNCHANGED faults
          /\ fold' = [fold EXCEPT ![s] =
                        [Bootstrapped(history) EXCEPT !.pending = fold[s].pending]]
    /\ UNCHANGED <<clock, feed, split, look, bars, parity, signals>>

Candidates ==
    /\ run.pc = "candidates"
    /\ LET some == {s \in Symbols : fold[s].bootstrapped} IN
       run' = IF some = {} THEN Goto("parity") ELSE [run EXCEPT !.pc = "detect", !.todo = some]
    /\ UNCHANGED <<clock, feed, split, look, bars, fold, parity, signals, faults>>

RecentSplit(s) == split[s] # 0 /\ Today - split[s] < LookbackDays
WindowStart == (Today - LookbackDays) * SlotsPerDay + 1
CorporateEvidence(s) == IF RecentSplit(s) THEN Evidence ELSE {"none"}
\* Evidence when every cached bar the fresh fetch repeats differs by one and the same factor.
PriceEvidence(s, fresh) ==
    LET common == {t \in DOMAIN bars[s] \cap DOMAIN fresh : t >= WindowStart} IN
    IF /\ Cardinality(common) >= MinOverlapBars /\ common # {}
       /\ \A t \in common : bars[s][t] # fresh[t]
    THEN "right" ELSE "none"
Verdict(corporate, price) ==
    CASE corporate = "none" /\ price = "none" -> "none"
      [] corporate # "none" /\ price # "none" /\ corporate # price -> "conflict"
      [] OTHER -> "split"

\* A split once found is not missed any more, whatever later looks come to.
Looked(s, verdict) ==
    IF verdict = "split" THEN "found"
    ELSE IF split[s] # 0 /\ look[s] = "none" THEN "missed" ELSE look[s]

\* Broken twin of Detect: the symbol is flagged by the rebuild alone.
DetectUnflagged(s) ==
    /\ run.pc = "detect" /\ s \in run.todo
    /\ \E corporate \in CorporateEvidence(s) :
         LET verdict == Verdict(corporate, PriceEvidence(s, Fetched(s, WindowStart, clock))) IN
         /\ look' = [look EXCEPT ![s] = Looked(s, verdict)]
         /\ run' = IF verdict = "split" THEN [run EXCEPT !.pc = "rebuild", !.written = {s}]
                                        ELSE Done(s, "parity")
    /\ UNCHANGED <<clock, feed, split, bars, fold, parity, signals, faults>>

\* A conflict leaves the symbol as it is; a split flags it before it is rebuilt.
Detect(s) ==
    /\ run.pc = "detect" /\ s \in run.todo
    /\ \E corporate \in CorporateEvidence(s), fetched \in BOOLEAN :
         /\ fetched \/ CanFail("fetch")
         /\ faults' = IF fetched THEN faults ELSE [faults EXCEPT !.fetch = 1]
         /\ LET fresh == IF fetched THEN Fetched(s, WindowStart, clock) ELSE <<>>
                verdict == Verdict(corporate, PriceEvidence(s, fresh))
            IN /\ look' = [look EXCEPT ![s] = Looked(s, verdict)]
               /\ IF verdict = "split"
                    THEN /\ fold' = [fold EXCEPT ![s].pending = TRUE]
                         /\ run' = [run EXCEPT !.pc = "rebuild", !.written = {s}]
                    ELSE fold' = fold /\ run' = Done(s, "parity")
    /\ UNCHANGED <<clock, feed, split, bars, parity, signals>>


\* One transaction replaces the cached bars and the fold; without enough history nothing
\* is touched and the flag stays.
Rebuild(s) ==
    LET history == Fetched(s, 1, clock) IN
    /\ run.pc = "rebuild" /\ run.written = {s}
    /\ run' = [Done(s, "parity") EXCEPT
                  !.written = {}, !.pc = IF run.todo = {s} THEN "parity" ELSE "detect"]
    /\ \/ /\ Cardinality(DOMAIN history) >= MinRebuildBars
          /\ bars' = [bars EXCEPT ![s] = history]
          /\ fold' = [fold EXCEPT ![s] = Bootstrapped(history)]
          /\ UNCHANGED faults
       \/ Cardinality(DOMAIN history) < MinRebuildBars /\ UNCHANGED <<bars, fold, faults>>
       \/ Fail("fetch") /\ UNCHANGED <<bars, fold>>
    /\ UNCHANGED <<clock, feed, split, look, parity, signals>>

\* The parity check itself is over a frozen corpus and is taken to succeed.
RecordParity ==
    /\ run.pc = "parity"
    /\ parity' = Today /\ run' = Stop
    /\ UNCHANGED <<clock, feed, split, look, bars, fold, signals, faults>>

-----------------------------------------------------------------------------
(* The ingestion part of a cycle. *)

\* The schedule starts one cycle per bar, and none after the last bar of a session.
StartCycle ==
    /\ run.pc = "idle" /\ ~BetweenSessions /\ ~run.started
    /\ run' = [Idle EXCEPT !.pc = "reconcile", !.started = TRUE]
    /\ UNCHANGED <<clock, feed, split, look, bars, fold, parity, signals, faults>>

\* The expected bar is read off the clock after the broker has been reconciled with.
Ingesting == {s \in Symbols : ~fold[s].pending}
ExpectBar ==
    /\ run.pc = "reconcile"
    /\ run' = [run EXCEPT !.pc = IF Ingesting = {} THEN "record" ELSE "backfill",
                          !.exp = clock, !.todo = Ingesting]
    /\ UNCHANGED <<clock, feed, split, look, bars, fold, parity, signals, faults>>

\* Rows are inserted, never overwritten: the bars that are there stay.
Merged(rows, new) == [t \in DOMAIN rows \cup DOMAIN new |-> IF t \in DOMAIN rows THEN rows[t] ELSE new[t]]

LastCached(s) == IF bars[s] = <<>> THEN 0 ELSE CHOOSE t \in DOMAIN bars[s] :
                                                  \A u \in DOMAIN bars[s] : u <= t

\* Everything newer than the last cached bar, or of one day when nothing is cached.
BackfillFrom(s, through) ==
    IF LastCached(s) # 0 THEN LastCached(s) + 1 ELSE through - SlotsPerDay
Backfill(s) ==
    LET through == run.exp - 1
        new == Fetched(s, BackfillFrom(s, through), through)
        next == Done(s, "catchup")
    IN
    /\ run.pc = "backfill" /\ s \in run.todo
    /\ \/ /\ bars' = [bars EXCEPT ![s] = Merged(@, new)]
          /\ run' = [next EXCEPT !.written = IF new = <<>> THEN @ ELSE @ \cup {s},
                                 !.todo = IF run.todo = {s} THEN Ingesting ELSE @]
          /\ UNCHANGED faults
       \/ /\ Fail("fetch") /\ UNCHANGED bars
          /\ run' = [next EXCEPT !.todo = IF run.todo = {s} THEN Ingesting ELSE @]
    /\ UNCHANGED <<clock, feed, split, look, fold, parity, signals>>

\* Broken twin of Unfolded: the last backfilled bar is left out.
UnfoldedButLast(s, through) ==
    InOrder([t \in {u \in DOMAIN bars[s] : u < through /\ u > LastFed(fold[s])} |-> bars[s][t]])
\* The backfilled bars are folded for the state alone; what they confirm is dropped.
Unfolded(s, through) ==
    InOrder([t \in {u \in DOMAIN bars[s] : u <= through /\ u > LastFed(fold[s])} |-> bars[s][t]])
Confirmation(s, t) == [symbol |-> s, slot |-> t]

CatchUp(s) ==
    LET seq == IF s \in run.written THEN Unfolded(s, run.exp - 1) ELSE <<>> IN
    /\ run.pc = "catchup" /\ s \in run.todo
    /\ \E sessions \in SUBSET SessionsOf(seq) :
         fold' = [fold EXCEPT ![s] = FedWith(@, seq, sessions)]
    /\ run' = Done(s, "fetch")
    /\ UNCHANGED <<clock, feed, split, look, bars, parity, signals, faults>>

\* Only the bar that closed just now will do; a symbol without it is skipped.
FetchExpected ==
    /\ run.pc = "fetch"
    /\ \E missed \in IF CanFail("fetch") THEN {{}, Symbols} ELSE {{}} :
         LET found == {s \in Ingesting : run.exp \in feed[s]} \ missed IN
         /\ faults' = IF missed = {} THEN faults ELSE [faults EXCEPT !.fetch = 1]
         /\ run' = [run EXCEPT !.pc = IF found = {} THEN "record" ELSE "persist", !.todo = found]
    /\ UNCHANGED <<clock, feed, split, look, bars, fold, parity, signals>>

\* A bar is written first and folded in a second transaction.
Persist(s) ==
    /\ run.pc = "persist" /\ s \in run.todo
    /\ bars' = [bars EXCEPT ![s] = Merged(@, Fetched(s, run.exp, run.exp))]
    /\ run' = [run EXCEPT !.pc = "process", !.written = {s}]
    /\ UNCHANGED <<clock, feed, split, look, fold, parity, signals, faults>>

Process(s) ==
    LET today == Day(run.exp)
        seq == <<[slot |-> run.exp, scale |-> Scale(s)]>>
        next == Done(s, "record")
    IN
    /\ run.pc = "process" /\ run.written = {s}
    /\ \E confirms \in BOOLEAN :
         /\ confirms => today \notin fold[s].signaled
         /\ fold' = [fold EXCEPT ![s] = FedWith(@, seq, IF confirms THEN {today} ELSE {})]
         /\ run' = [next EXCEPT !.written = {},
                                !.pc = IF run.todo = {s} THEN "record" ELSE "persist",
                                !.confs = IF confirms THEN @ \cup {Confirmation(s, run.exp)} ELSE @]
    /\ UNCHANGED <<clock, feed, split, look, bars, parity, signals, faults>>

\* All rows in one transaction; entries follow only under a same-day parity result.
RecordSignals ==
    /\ run.pc = "record"
    /\ signals' = {x \in signals : Day(x.slot) = Today}
                  \cup {[symbol |-> c.symbol, slot |-> c.slot, entered |-> parity = Today] : c \in run.confs}
    /\ run' = Stop
    /\ UNCHANGED <<clock, feed, split, look, bars, fold, parity, faults>>

-----------------------------------------------------------------------------
Init ==
    /\ clock = SlotsPerDay
    /\ feed \in [Symbols -> {have \in SUBSET (1..SlotsPerDay) :
                               Cardinality(have) >= SlotsPerDay - MaxMissing}]
    /\ split = [s \in Symbols |-> 0]
    /\ look = [s \in Symbols |-> "none"]
    /\ \/ /\ bars = [s \in Symbols |-> <<>>]
          /\ fold = [s \in Symbols |-> NoFold]
       \/ /\ bars = [s \in Symbols |-> [t \in feed[s] |-> 0]]
          /\ fold = [s \in Symbols |-> Bootstrapped(bars[s])]
    /\ parity = 0 /\ signals = {}
    /\ run = Idle
    /\ faults = [crash |-> 0, fetch |-> 0, slow |-> 0]

PreflightStep == \/ Candidates \/ RecordParity
                 \/ \E s \in Symbols : Bootstrap(s) \/ Detect(s) \/ Rebuild(s)
CycleStep == \/ ExpectBar \/ FetchExpected \/ RecordSignals
             \/ \E s \in Symbols : Backfill(s) \/ CatchUp(s) \/ Persist(s) \/ Process(s)
Next == \/ Tick \/ Crash \/ StartPreflight \/ StartCycle \/ PreflightStep \/ CycleStep
        \/ \E s \in Symbols : DeliverLate(s) \/ SplitOvernight(s)
Spec == Init /\ [][Next]_vars

(***************************************************************************)
(* What bar cache, fold and split repair owe one another.                   *)
(***************************************************************************)
Bar == [slot : Slots, scale : {0, 1}]

TypeOK ==
    /\ clock \in 0..LastSlot
    /\ feed \in [Symbols -> SUBSET Slots]
    /\ split \in [Symbols -> 0..LastSlot]
    /\ look \in [Symbols -> {"none", "found", "missed"}]
    /\ \A s \in Symbols :
         /\ DOMAIN bars[s] \subseteq feed[s] /\ Range(bars[s]) \subseteq {0, 1}
         /\ Range(fold[s].fed) \subseteq Bar
         /\ fold[s].signaled \subseteq 0..Day(LastSlot)
         /\ fold[s].history \in 0..Len(fold[s].fed)
         /\ fold[s].bootstrapped \in BOOLEAN /\ fold[s].pending \in BOOLEAN
    /\ parity \in 0..LastSlot
    /\ \A x \in signals : x.symbol \in Symbols /\ x.slot \in Slots /\ x.entered \in BOOLEAN
    /\ run.todo \subseteq Symbols /\ run.written \subseteq Symbols

\* A symbol gets one signal row per session, also when cycles crash between the fold and
\* the row, are repeated for the same bar, or a rebuild replaced the fold
\* (process_new_bar, _load_reducer_state).
OneSignalPerSession ==
    \A x, y \in signals : x.symbol = y.symbol /\ Day(x.slot) = Day(y.slot) => x = y

\* No entry is taken on a fold that mixes bars from before and after a split, whatever
\* crashed, came back empty or came late and whatever the corporate-actions feed says,
\* unless the look of a preflight has missed the split: no evidence, or two sources that
\* contradict each other (split_pending and the same-day parity gate).
OneScale(f) == \A x, y \in Range(f.fed) : x.scale = y.scale
EntriesOnOneScale ==
    [][\A x \in signals' \ signals :
         x.entered /\ fold[x.symbol].bootstrapped /\ look[x.symbol] # "missed"
           => OneScale(fold[x.symbol])]_vars

\* No cached bar is passed over: what is newer than the history the fold was bootstrapped
\* from and older than the last bar folded has been folded itself (backfill_gaps).
Begin(f) == IF f.history > 0 THEN f.fed[f.history].slot
            ELSE IF f.fed = <<>> THEN LastSlot ELSE f.fed[1].slot
NothingPassedOver ==
    \A s \in Symbols : \A t \in DOMAIN bars[s] :
        t > Begin(fold[s]) /\ t < LastFed(fold[s]) => t \in {x.slot : x \in Range(fold[s].fed)}
\* It takes a process that died between the two transactions to lose a bar; without that
\* the fold is also never behind the cache between two stages.
LostOnlyByCrash ==
    faults.crash = 0 => /\ NothingPassedOver
                        /\ run.pc = "idle" => \A s \in Symbols : LastCached(s) <= LastFed(fold[s])

\* A split is repaired in the end: every folded bar is on the new scale and the symbol
\* is no longer held back (_run_split_detection_and_rebuild retries every morning).
Repaired(s) == /\ ~fold[s].pending
               /\ \A x \in Range(fold[s].fed) : x.scale = Scale(s)

\* Stages run to their end, time does not stop for them, and the schedule starts a
\* preflight each morning; the last morning stands for all later ones.  A look that may
\* find the split does so in the end: the feed is not silent or wrong for ever.
FairSpec == /\ Spec /\ WF_vars(PreflightStep \/ CycleStep)
            /\ SF_vars(Tick) /\ SF_vars(StartPreflight)
            /\ \A s \in Symbols : SF_vars(Detect(s) /\ run'.pc = "rebuild")
=============================================================================
