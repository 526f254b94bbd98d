------------------------------ MODULE Backtest ------------------------------
(***************************************************************************)
(* The backtest engines side by side: a behaviour is one run of one of     *)
(* them, the order simulator alone ("fill"), the order-by-order portfolio  *)
(* ("orders"), one of the three rotations ("rotation") or the opening      *)
(* range ("orb").  They share no state; the portfolio books any outcome    *)
(* of the kinds the order simulator comes to.                              *)
(***************************************************************************)
EXTENDS BacktestFill, BacktestOrders, BacktestRotation, BacktestOrb

VARIABLE run

backtestVars == <<run, fillVars, ordersVars, rotationVars, orbVars>>

Init ==
  /\ run \in {"fill", "orders", "rotation", "orb"}
  /\ FillInit
  /\ OrdersInit
  /\ RotationInit
  /\ OrbInit
  /\ run # "orders" => ~daily
  /\ run # "fill" => cand.timeframe = "daily"
  /\ run # "rotation" => engine = "xsec" /\ slots = Min(SlotChoices)

Next ==
  \/ run = "fill" /\ FillNext /\ UNCHANGED <<run, ordersVars, rotationVars, orbVars>>
  \/ run = "orders" /\ OrdersNext /\ UNCHANGED <<run, fillVars, rotationVars, orbVars>>
  \/ run = "rotation" /\ RotationNext /\ UNCHANGED <<run, fillVars, ordersVars, orbVars>>
  \/ run = "orb" /\ OrbNext /\ UNCHANGED <<run, fillVars, ordersVars, rotationVars>>

Spec == Init /\ [][Next]_backtestVars

(* ------------------------------ properties ------------------------------- *)

\* Jumping to the first minute that can fill a resting stock order "changes no
\* execution rule": chunk by chunk, with gaps, closed sessions and an
\* expiration, the order fares as minute by minute.
PrefillChangesNothing ==
  /\ sim.result = plain.result
  /\ sim.filled = plain.filled
  /\ <<sim.price, sim.stop, sim.exit, sim.paid>> =
       <<plain.price, plain.stop, plain.exit, plain.paid>>

DecidedAlike == books[1].today = books[2].today

\* No decision depends on a bar that begins after it, though every outcome is
\* computed to its end when the order is approved: in two markets that agree in
\* the bars begun by then the same candidates are approved with the same sizes.
NoLookAhead == Agreement = "begun" /\ Compared => DecidedAlike

\* No decision of a backtest of daily bars depends on a bar that is not complete:
\* "The most recent COMPLETE daily bar at a decision made just after `day`'s own
\* UTC close is the bar dated `day - 1`" (daily_completed_bar_cutoff).  The
\* portfolio, which decides that day at 11:16 in New York, reads of open orders
\* the bar of the day itself.
OnlyCompleteBars == Agreement = "complete" /\ daily /\ Compared => DecidedAlike

\* The account adds up at every step of every engine, cash is never negative,
\* and the equity reported at the end is the capital plus the trades reported,
\* which the portfolio engine sums up by another path.  What a scenario of the
\* opening-range engine takes on passes its exposure limit only on a day an
\* order it reserved for at the trigger opened beyond it, as long as no such
\* gap has ruined it: below zero the engine sizes negative quantities.
BooksBalance ==
  /\ \A w \in Worlds : LET b == books[w] IN
       /\ oDay <= LastDay =>
            /\ b.cash >= 0
            /\ b.cash + Sum(LAMBDA i : i.notional, b.active) = StartingEquity + b.realized
       /\ oDay > LastDay => b.equity = StartingEquity + b.reported
  /\ account.cash >= 0
  /\ account.cash + Invested(account) = Capital + account.earned
  /\ day > EndDay => equity = Capital + account.earned
  /\ \A k \in DOMAIN Scenarios : LET a == ledger[k] IN
       /\ a.equity + a.pnl = Scenarios[k].starting_equity + a.earned
       /\ a.equity >= 0 /\ a.realized > a.equity * Scenarios[k].max_gross_exposure
            => a.overrun

\* The reversal strategy holds a position past its time exit only while a bar
\* of the symbol is missing, or was within the indicators' window.
HeldTooLongOnlyAfterGap ==
  engine = "reversal" =>
    \A s \in Owned(account) :
      day - account.held[s].since + 1 > MaxHold => gap[s] > day - 1 - SmaWindow

=============================================================================
