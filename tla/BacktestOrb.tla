----------------------------- MODULE BacktestOrb -----------------------------
(***************************************************************************)
(* The opening-range backtest (backtest/engine.py, run_backtest) with the  *)
(* signal rules it shares with the live day nodes (utils/orb_signals.py).  *)
(* A session has one decision: the opening bars of the day and of the      *)
(* sessions before it make the candidates, the best of them are armed in   *)
(* the order of their rank against each scenario's limits, and one reading *)
(* of the day's minutes tells every scenario what became of them.          *)
(* Prices and quantities are whole numbers; a cost model is what a unit    *)
(* loses on each side.                                                     *)
(***************************************************************************)
EXTENDS Integers, Sequences, SequencesExt, FiniteSetsExt

CONSTANTS
  Names,          \* the symbols of the universe
  Scenarios,      \* PortfolioConfig, by name
  OrbLookback,    \* _LOOKBACK_SESSIONS
  OrbLastSession, \* the last session (bound)
  TopN,           \* _TOP_N
  OpeningBars,    \* what a candidate's opening bar may be
  Mornings,       \* what the minutes of a candidate's day may be
  LegCost         \* what a unit loses on each side of a trade

ASSUME OrbAssumption ==
  /\ {OrbLookback, OrbLastSession, TopN} \subseteq Nat \ {0}
  /\ LegCost \in Nat
  /\ \A k \in DOMAIN Scenarios :
       Scenarios[k] \in [starting_equity : Nat, risk_per_trade : Nat, max_gross_exposure : Nat,
                         max_concurrent_positions : Nat, concentration : Nat]

VARIABLES
  session,    \* the session in progress; those up to OrbLookback only warm up
  stage,      \* what run_backtest does of it next
  openings,   \* [Names -> the sessions whose opening bar is on record]
  selected,   \* the session's armed candidates, best rank first
  fates,      \* their outcomes, once the minutes are read
  ledger      \* [scenario -> its account]

orbVars == <<session, stage, openings, selected, fates, ledger>>

(* -------------------------- utils/orb_signals.py ------------------------- *)

\* a is at b or past it, for a trade in direction dir.
Reaches(a, b, dir) == IF dir = "long" THEN a >= b ELSE a <= b
Favorable(bar, dir) == IF dir = "long" THEN bar.high ELSE bar.low
Adverse(bar, dir) == IF dir = "long" THEN bar.low ELSE bar.high

NoTrigger == [reason |-> "no_trigger", entry |-> 0, exit |-> 0, ambiguous |-> FALSE]
MissingData == [NoTrigger EXCEPT !.reason = "outcome_data_missing"]

\* One minute of an armed or open trade.  A minute that opens past the trigger
\* or past the stop fills there; one that touches both may have done so in
\* either order, and is taken for a loss at the stop.
Minute(setup, o, bar) ==
  LET dir == setup.direction
      gapped == Reaches(bar.open, setup.trigger, dir)
      enters == o.reason = "no_trigger" /\ Reaches(Favorable(bar, dir), setup.trigger, dir)
      entry == IF enters THEN IF gapped THEN bar.open ELSE setup.trigger ELSE o.entry
      touched == enters /\ ~gapped
      stopped == Reaches(setup.stop, Adverse(bar, dir), dir)
  IN CASE o.reason = "stop" \/ (o.reason = "no_trigger" /\ ~enters) -> o
       [] stopped ->
            [reason |-> "stop", entry |-> entry, ambiguous |-> touched,
             exit |-> IF ~touched /\ Reaches(setup.stop, bar.open, dir) THEN bar.open
                      ELSE setup.stop]
       [] OTHER -> [reason |-> "open", entry |-> entry, exit |-> 0, ambiguous |-> FALSE]

SimulateIntradayOutcome(setup, bars) ==
  LET end == FoldLeft(LAMBDA o, bar : Minute(setup, o, bar), NoTrigger, bars)
  IN IF end.reason = "open" THEN [end EXCEPT !.reason = "eod_flatten", !.exit = Last(bars).close]
     ELSE end

\* The baseline wants every one of the last sessions.
SameTimeOpeningVolumeAvg(s) ==
  \A d \in (session - OrbLookback)..(session - 1) : d \in openings[s]

\* A symbol with a baseline and an opening bar.
OrbCandidates == {s \in Names : SameTimeOpeningVolumeAvg(s) /\ session \in openings[s]}

ClassifyOpeningCandle(bar) ==
  CASE bar.close > bar.open -> "bullish"
    [] bar.close < bar.open -> "bearish"
    [] OTHER -> "doji"

OrbDirection(bar) == IF ClassifyOpeningCandle(bar) = "bullish" THEN "long" ELSE "short"

\* Price, volumes and ATR against their floors come with the bar, as `liquid`.
Tradable(bar) == bar.liquid /\ ClassifyOpeningCandle(bar) # "doji"

ComputeStopPrice(trigger, offset, dir) ==
  IF dir = "long" THEN trigger - offset ELSE trigger + offset

\* The breakout of the opening range, stopped a fraction of the ATR back.
BuildCandidateFields(bar) ==
  LET dir == OrbDirection(bar)
      trigger == Favorable(bar, dir)
  IN [direction |-> dir, trigger |-> trigger,
      stop |-> ComputeStopPrice(trigger, bar.offset, dir)]

\* The first TopN in descending relative volume; equals keep their order.
RankAndSelect(ranked) == SubSeq(ranked, 1, Min({TopN, Len(ranked)}))

(* ------------------------- portfolio.py, cost model ---------------------- *)

Distance(a, b) == IF a > b THEN a - b ELSE b - a

\* Whole units stand for the fractional quantities of the code.
SizeTrade(config, setup, equity) ==
  LET risk == Distance(setup.trigger, setup.stop)
      quantity == (equity * config.risk_per_trade) \div (100 * risk)
      gross == equity * config.max_gross_exposure
      most == IF config.concentration = 0 THEN gross
              ELSE Min({gross, (equity * config.concentration) \div 100})
  IN IF quantity * setup.trigger > most THEN most \div setup.trigger ELSE quantity

PricePnl(outcome, dir) ==
  IF outcome.reason \in {"stop", "eod_flatten"}
  THEN (IF dir = "long" THEN outcome.exit - outcome.entry ELSE outcome.entry - outcome.exit)
         - 2 * LegCost
  ELSE 0

(* ------------------------------ run_backtest ----------------------------- *)

\* What a session has done to a scenario's equity, on top of the trades it
\* had reported: `reserved` at the triggers, `realized` at the entries.
Account(equity, earned) ==
  [equity |-> equity, earned |-> earned, reserved |-> 0, realized |-> 0, pnl |-> 0,
   armed |-> {}, overrun |-> FALSE]

OrbInit ==
  /\ session = 1 /\ stage = "open"
  /\ openings = [s \in Names |-> {}]
  /\ selected = <<>> /\ fates = <<>>
  /\ ledger = [k \in DOMAIN Scenarios |-> Account(Scenarios[k].starting_equity, 0)]

\* One request for all symbols: it fails as a whole and records nothing, or
\* brings the bars there are.
FetchAndRecordOpening ==
  /\ stage = "open" /\ session <= OrbLastSession
  /\ \E there \in SUBSET Names :
       openings' = [s \in Names |-> IF s \in there THEN openings[s] \union {session}
                                    ELSE openings[s]]
  /\ IF session <= OrbLookback THEN session' = session + 1 /\ UNCHANGED stage
     ELSE stage' = "select" /\ UNCHANGED session
  /\ UNCHANGED <<selected, fates, ledger>>

BuildCandidates ==
  /\ stage = "select"
  /\ \E bar \in [OrbCandidates -> OpeningBars] :
     \E ranked \in SetToSeqs({s \in OrbCandidates : Tradable(bar[s])}) :
       selected' = [i \in DOMAIN RankAndSelect(ranked) |->
                      [symbol |-> ranked[i], setup |-> BuildCandidateFields(bar[ranked[i]])]]
  /\ stage' = "outcome"
  /\ UNCHANGED <<session, openings, fates, ledger>>

\* The minutes are read once for all scenarios.  A day whose minutes are not
\* there is not a day without a breakout.
ReadOutcomes ==
  /\ stage = "outcome"
  /\ \/ fates' = [i \in DOMAIN selected |-> MissingData]
     \/ \E day \in [DOMAIN selected -> Mornings] :
          fates' = [i \in DOMAIN selected |->
                      IF day[i] = <<>> THEN MissingData
                      ELSE SimulateIntradayOutcome(selected[i].setup, day[i])]
  /\ stage' = "admit"
  /\ UNCHANGED <<session, openings, selected, ledger>>

\* The candidate at rank i is armed if a position and its exposure still fit,
\* at the equity of the morning, and booked with what became of it.
Admit(config, a, i) ==
  LET c == selected[i]
      fate == fates[i]
      quantity == SizeTrade(config, c.setup, a.equity)
      proposed == a.reserved + quantity * c.setup.trigger
      pnl == quantity * PricePnl(fate, c.setup.direction)
  IN IF \/ Cardinality(a.armed) >= config.max_concurrent_positions
        \/ proposed > a.equity * config.max_gross_exposure
     THEN a
     ELSE [a EXCEPT !.armed = @ \union {c.symbol}, !.reserved = proposed,
                    !.realized = @ + quantity * fate.entry,
                    !.overrun = @ \/ fate.entry > c.setup.trigger,
                    !.pnl = @ + pnl, !.earned = @ + pnl]

AdmitInOrder ==
  /\ stage = "admit"
  /\ ledger' = [k \in DOMAIN Scenarios |->
                  FoldLeftDomain(LAMBDA a, i : Admit(Scenarios[k], a, i),
                                 Account(ledger[k].equity, ledger[k].earned), selected)]
  /\ stage' = "close"
  /\ UNCHANGED <<session, openings, selected, fates>>

EndSession ==
  /\ stage = "close"
  /\ ledger' = [k \in DOMAIN Scenarios |->
                  Account(ledger[k].equity + ledger[k].pnl, ledger[k].earned)]
  /\ session' = session + 1 /\ stage' = "open"
  /\ selected' = <<>> /\ fates' = <<>>
  /\ UNCHANGED openings

OrbNext ==
  \/ FetchAndRecordOpening \/ BuildCandidates \/ ReadOutcomes
  \/ AdmitInOrder \/ EndSession
=============================================================================
