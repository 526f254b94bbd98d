----------------------------- MODULE MCBacktest -----------------------------
(***************************************************************************)
(* Model values for Backtest: the shapes of a tick's bar around a          *)
(* candidate that enters at 100, is stopped at 50 and aims at 200.         *)
(***************************************************************************)
EXTENDS Backtest, TLC

Shape(o, l, h, c, regular, verdict) ==
  [open |-> o, low |-> l, high |-> h, close |-> c, regular |-> regular, verdict |-> verdict]

\* Untouched; touched outside the session; touched; a gain that draws the stop
\* up; a fall through the stop limit; everything in one bar; a reversal.
MCShapes == {
  Shape(120, 110, 130, 120, TRUE, "hold"),
  Shape(95, 90, 100, 95, FALSE, "hold"),
  Shape(95, 90, 110, 100, TRUE, "none"),
  Shape(100, 99, 160, 150, TRUE, "hold"),
  Shape(45, 40, 48, 44, TRUE, "hold"),
  Shape(95, 40, 200, 200, TRUE, "none"),
  Shape(95, 90, 110, 95, TRUE, "down") }

(* ------------------------ the opening-range engine ----------------------- *)

Scenario(start, risk, gross, positions, concentration) ==
  [starting_equity |-> start, risk_per_trade |-> risk, max_gross_exposure |-> gross,
   max_concurrent_positions |-> positions, concentration |-> concentration]

\* The paper's leverage and this account's caution, in small numbers.
MCScenarios == [research_fidelity |-> Scenario(6, 50, 3, 2, 0),
                intended_deployment |-> Scenario(12, 25, 1, 1, 50)]

Bar(o, h, l, c) == [open |-> o, high |-> h, low |-> l, close |-> c]

OpeningBar(o, h, l, c, offset, liquid) == Bar(o, h, l, c) @@ [offset |-> offset, liquid |-> liquid]

\* A long at 4 stopped at 3, a short at 2 stopped at 3, a doji, a thin one.
MCOpeningBars == {OpeningBar(3, 4, 3, 4, 1, TRUE), OpeningBar(3, 3, 2, 2, 1, TRUE),
                  OpeningBar(3, 4, 2, 3, 1, TRUE), OpeningBar(3, 4, 3, 4, 1, FALSE)}

\* No minutes; no breakout; a long that runs; a minute that touches trigger and
\* stop; a gap past the long trigger; a gap past the short one, then a gap back
\* past both stops.
MCMornings == {
  <<>>,
  <<Bar(3, 3, 3, 3)>>,
  <<Bar(3, 4, 3, 4), Bar(4, 5, 4, 5)>>,
  <<Bar(6, 6, 5, 5)>>,
  <<Bar(1, 1, 1, 1), Bar(4, 4, 2, 2)>> }

\* A minute's ticks, which a bar does not tell apart: from the open to the close
\* by way of the high and the low, in either order.
Ticks(bar) == {<<bar.open, bar.high, bar.low, bar.close>>,
               <<bar.open, bar.low, bar.high, bar.close>>}

\* One tick of an order resting at the broker.  Only the first of a minute jumps.
Tick(setup, o, price, jump) ==
  LET at(level) == IF jump THEN price ELSE level
      dir == setup.direction
  IN CASE o.reason = "no_trigger" /\ Reaches(price, setup.trigger, dir) ->
            [o EXCEPT !.reason = "open", !.entry = at(setup.trigger)]
       [] o.reason = "open" /\ Reaches(setup.stop, price, dir) ->
            [o EXCEPT !.reason = "stop", !.exit = at(setup.stop)]
       [] OTHER -> o

Walked(setup, o, ticks) ==
  FoldLeftDomain(LAMBDA s, i : Tick(setup, s, ticks[i], i = 1), o, ticks)

\* What may have become of the order in two minutes.
Lives(setup, bars) ==
  {LET end == Walked(setup, Walked(setup, NoTrigger, path[1]), path[2])
   IN IF end.reason = "open" THEN [end EXCEPT !.reason = "eod_flatten", !.exit = bars[2].close]
      ELSE end : path \in Ticks(bars[1]) \X Ticks(bars[2])}

\* simulate_intraday_outcome against every order of touches: what it does not
\* call ambiguous is the one thing that can have happened, and what it does is
\* one of the things that can.
Price == 1..4
Minutes == {b \in [open : Price, high : Price, low : Price, close : Price] :
              {b.open, b.close} \subseteq b.low..b.high}

Setups == {BuildCandidateFields(b) : b \in {c \in MCOpeningBars : Tradable(c)}}

ASSUME OutcomesAreLives ==
  \A setup \in Setups \union {[direction |-> "long", trigger |-> 3, stop |-> 2]} :
    \A bars \in Minutes \X Minutes :
      LET o == SimulateIntradayOutcome(setup, bars)
          seen == [o EXCEPT !.ambiguous = FALSE]
      IN IF o.ambiguous THEN seen \in Lives(setup, bars) ELSE Lives(setup, bars) = {seen}

Symmetry == Permutations(Symbols) \union Permutations(Names)

=============================================================================
