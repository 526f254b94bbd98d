---------------------------- MODULE BacktestFill ----------------------------
(***************************************************************************)
(* What becomes of one approved order in a backtest                        *)
(* (backtest/whole_bot_engine.py, simulate_order_outcome and               *)
(* simulate_daily_crypto_order_outcome).  The order rests, fills, is       *)
(* stopped, reaches its target, is closed by the bot's half-hourly         *)
(* monitor, expires or is open at the end, as the bars of its symbol say.  *)
(*                                                                         *)
(* The hourly simulator reads its minutes chunk by chunk and, while a      *)
(* stock order rests, jumps to the first minute that can fill it; beside   *)
(* it runs the plain minute-by-minute reading that the jump must equal.    *)
(* Minutes and days are one clock: a tick is a minute of the hourly        *)
(* simulator or a day of the daily one.                                    *)
(***************************************************************************)
EXTENDS Integers, Sequences, SequencesExt, FiniteSetsExt

CONSTANTS
  Shapes,         \* the bars a tick may have: open, low, high, close, verdict
  ChunkLen,       \* ticks of one chunk
  Chunks,         \* chunks until the end of the test
  MonitorEvery,   \* the monitor looks every so many ticks
  Expirations,    \* ticks at which a resting stock order may expire
  Entry, Stop, Target, Atr  \* the candidate's prices

ASSUME FillAssumption ==
  /\ {ChunkLen, Chunks, MonitorEvery} \subseteq Nat \ {0}
  /\ Shapes \subseteq [open : Nat, low : Nat, high : Nat, close : Nat,
                       regular : BOOLEAN, verdict : {"none", "down", "hold"}]
  /\ Expirations \subseteq Nat

VARIABLES
  cand,    \* [market, timeframe, expires]
  clock,   \* the first tick not read yet
  sim,     \* the simulator's progress
  plain    \* the plain reading's progress

fillVars == <<cand, clock, sim, plain>>

NoTick == -1
EndOfTest == ChunkLen * Chunks

\* The local variables of the loop; result is "" until the function returns.
Unread == [filled |-> NoTick, price |-> 0, stop |-> Stop, triggered |-> FALSE,
           seen |-> FALSE, last |-> 0, result |-> "", exit |-> NoTick, paid |-> 0]

Over(st) == st.result # ""
Resting(st) == st.filled = NoTick

Closed(st, why, t, price) ==
  [st EXCEPT !.result = why, !.exit = t, !.paid = price]
Unfilled(st, why) == [st EXCEPT !.result = why]

(* ------------------------------ one minute ------------------------------- *)

\* A crypto order fills at the next open, a stock limit when it is touched.
FillAt(st, t, bar) ==
  IF ~Resting(st) \/ (cand.market = "stock" /\ bar.low > Entry) THEN st
  ELSE [st EXCEPT !.filled = t,
          !.price = IF cand.market = "crypto" THEN bar.open
                    ELSE Min({Entry, bar.open})]

\* The broker's own legs, the stop before the target within one bar.
StockLegs(st, t, bar) ==
  IF bar.low <= st.stop THEN Closed(st, "stop", t, st.stop)
  ELSE IF bar.high >= Target THEN Closed(st, "target", t, Target)
  ELSE st

\* A crypto stop-limit, once triggered, waits for the price to be at its limit.
StopLimit(stop) == (stop * 98) \div 100

CryptoLegs(st, t, bar) ==
  LET s == [st EXCEPT !.triggered = @ \/ bar.low <= st.stop]
  IN  IF s.triggered /\ bar.high >= StopLimit(s.stop)
      THEN Closed(s, "stop_limit", t, Min({s.stop, Max({StopLimit(s.stop), bar.open})}))
      ELSE s

\* Half-hourly: a reversal closes, a gain of one ATR draws the stop up.
Trail(st, bar) ==
  LET proposed == bar.close - (3 * Atr) \div 2
  IN  IF /\ bar.close - st.price >= Atr
         /\ proposed > st.stop
         /\ proposed < bar.close
      THEN [st EXCEPT !.stop = proposed]
      ELSE st

Monitor(st, t, bar) ==
  IF t % MonitorEvery # 0 THEN st
  ELSE IF cand.market = "crypto" /\ bar.close >= Target
       THEN Closed(st, "monitor_target", t, bar.close)
  ELSE IF bar.verdict = "none" THEN st
  ELSE IF bar.verdict = "down" THEN Closed(st, "monitor_reversal", t, bar.close)
  ELSE Trail(st, bar)

MinuteStep(st, item) ==
  LET read == [FillAt(st, item.t, item.bar) EXCEPT !.last = item.bar.close]
      held == IF cand.market = "stock" THEN StockLegs(read, item.t, item.bar)
              ELSE CryptoLegs(read, item.t, item.bar)
  IN  IF Over(st) THEN st
      ELSE IF Resting(read) THEN read
      ELSE IF Over(held) THEN held
      ELSE Monitor(held, item.t, item.bar)

(* ---------------------------- chunk by chunk ----------------------------- *)

Usable(items) ==
  IF cand.market = "crypto" THEN items
  ELSE SelectSeq(items, LAMBDA item : item.bar.regular)

ExpiredBy(t) == cand.expires # NoTick /\ cand.market = "stock" /\ t >= cand.expires

\* An untouched order at the end of a chunk: expired, or still resting.
StillResting(st, end) ==
  IF ExpiredBy(end) THEN Unfilled(st, "expired_unfilled") ELSE st

\* The ticks that may still fill a resting stock order.
\* Broken twin: the search goes on after the expiration.
EligibleForever(bars) == bars

Eligible(bars) == SelectSeq(bars, LAMBDA item : ~ExpiredBy(item.t))

\* A stock order that rests is looked for in the ticks before its expiration;
\* the minutes before the first that can fill it are not read.
ChunkStep(st, items, end) ==
  LET bars == Usable(items)
      seen == [st EXCEPT !.seen = TRUE]
      eligible == Eligible(bars)
      hits == {i \in DOMAIN eligible : eligible[i].bar.low <= Entry}
  IN  IF Over(st) THEN st
      ELSE IF bars = <<>> THEN IF Resting(st) THEN StillResting(st, end) ELSE st
      ELSE IF Resting(st) /\ cand.market = "stock"
           THEN IF hits = {} THEN StillResting(seen, end)
                ELSE FoldLeft(MinuteStep, seen, SubSeq(bars, Min(hits), Len(bars)))
      ELSE FoldLeft(MinuteStep, seen, bars)

\* The plain reading: every usable minute in turn, the expiration by the clock.
PlainStep(st, item) ==
  IF Over(st) THEN st
  ELSE IF Resting(st) /\ ExpiredBy(item.t) THEN Unfilled(st, "expired_unfilled")
  ELSE MinuteStep([st EXCEPT !.seen = TRUE], item)

PlainChunk(st, items, end) ==
  LET s == FoldLeft(PlainStep, st, Usable(items))
  IN  IF ~Over(s) /\ Resting(s) /\ ExpiredBy(end)
      THEN Unfilled(s, "expired_unfilled") ELSE s

\* After the last chunk.
AtEnd(st) ==
  IF Over(st) THEN st
  ELSE IF ~st.seen THEN Unfilled(st, "outcome_data_missing")
  ELSE IF Resting(st) THEN Unfilled(st, "unfilled_end")
  ELSE Closed(st, "end_of_test", EndOfTest, st.last)

(* ------------------------------ daily bars ------------------------------- *)

\* The daily order fills at the open of the day that decides it.
DailyFill(st, items) ==
  IF items = <<>> \/ items[1].t # 0 THEN Unfilled(st, "unfilled_end")
  ELSE [st EXCEPT !.filled = 0, !.price = items[1].bar.open]

DailyStep(st, item) ==
  LET read == [st EXCEPT !.last = item.bar.close, !.seen = TRUE]
      held == StockLegs(read, item.t, item.bar)
  IN  IF Over(st) THEN st
      ELSE IF Over(held) THEN held
      ELSE IF item.bar.verdict = "down"
           THEN Closed(read, "monitor_reversal", item.t, item.bar.close)
      ELSE IF item.bar.verdict = "hold" THEN Trail(read, item.bar)
      ELSE read

DailyChunk(st, items) ==
  FoldLeft(DailyStep, IF clock = 0 THEN DailyFill(st, items) ELSE st, items)

(* ------------------------------- behaviour ------------------------------- *)

Candidates ==
  { [market |-> m, timeframe |-> "hourly", expires |-> e] :
      m \in {"stock"}, e \in Expirations \cup {NoTick} }
  \cup { [market |-> "crypto", timeframe |-> f, expires |-> NoTick] :
           f \in {"hourly", "daily"} }

FillInit ==
  /\ cand \in Candidates
  /\ clock = 0
  /\ sim = Unread
  /\ plain = Unread

\* The ticks of the next chunk that have a bar, in order.
ChunkItems(bars) ==
  LET from == SetToSortSeq(DOMAIN bars, LAMBDA i, j : i < j)
  IN  [k \in DOMAIN from |-> [t |-> from[k], bar |-> bars[from[k]]]]

FillFinish(st, end) == IF end = EndOfTest THEN AtEnd(st) ELSE st

\* A chunk arrives, with gaps.
ReadChunk ==
  /\ ~Over(sim)
  /\ clock < EndOfTest
  /\ \E ticks \in SUBSET (clock .. clock + ChunkLen - 1) :
       \E bars \in [ticks -> Shapes] :
         LET items == ChunkItems(bars)
             end == clock + ChunkLen
         IN  IF cand.timeframe = "daily"
             THEN /\ sim' = FillFinish(DailyChunk(sim, items), end)
                  /\ plain' = sim'
             ELSE /\ sim' = FillFinish(ChunkStep(sim, items, end), end)
                  /\ plain' = FillFinish(PlainChunk(plain, items, end), end)
  /\ clock' = clock + ChunkLen
  /\ UNCHANGED cand

\* The source fails: whatever was known, the outcome is missing.
ReadFails ==
  /\ ~Over(sim)
  /\ clock < EndOfTest
  /\ cand.timeframe = "hourly" \/ clock = 0
  /\ sim' = Unfilled(sim, "outcome_data_missing")
  /\ plain' = Unfilled(plain, "outcome_data_missing")
  /\ UNCHANGED <<cand, clock>>

FillNext == ReadChunk \/ ReadFails

=============================================================================
