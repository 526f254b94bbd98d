--------------------------- MODULE BacktestOrders ---------------------------
(***************************************************************************)
(* The order-by-order backtest (backtest/whole_bot_engine.py,              *)
(* simulate_portfolio): one decision a day, candidates in order of         *)
(* conviction, a daily loss limit, slots, a daily number of trades, cash   *)
(* reserved at approval.  The whole future of an order, its outcome, is    *)
(* computed when the order is approved, and the days that follow consult   *)
(* it: a decision must read of it only what its own day could know.        *)
(*                                                                         *)
(* Two worlds run side by side.  Their markets agree in every bar that has *)
(* begun at the decision of day CutDay, or only in every bar that is       *)
(* complete by then (Agreement), and may differ in what comes after.       *)
(***************************************************************************)
EXTENDS Integers, Sequences, SequencesExt, FiniteSetsExt

CONSTANTS
  Symbols,
  LastDay,         \* the last decision day (bound)
  CutDay,          \* the worlds agree on what this day's decision can know
  Agreement,       \* which bars they agree in: "begun" or "complete" ones
  MaxPositions,    \* ResearchPortfolio.max_positions
  MaxNewPerDay,    \* ResearchPortfolio.max_new_trades_per_day
  StartingEquity,
  Share,           \* an order takes equity \div Share, or the cash there is
  LossLimit,       \* percent of equity lost since the last decision
  Stake            \* what a closed order earns or loses, after costs

ASSUME OrdersAssumption ==
  /\ {LastDay, MaxPositions, MaxNewPerDay, StartingEquity, Share} \subseteq Nat \ {0}
  /\ CutDay \in 1..LastDay
  /\ Agreement \in {"begun", "complete"}
  /\ Stake \in Nat

VARIABLES
  daily,    \* outcomes from daily bars, or else from minutes
  oDay,     \* the day being decided; LastDay + 1 when the run is over
  queue,    \* the day's candidates still to consider
  books,    \* the accounts of the two worlds
  diverged  \* an outcome differs between the worlds (at most one does: bound)

ordersVars == <<daily, oDay, queue, books, diverged>>

Worlds == {1, 2}
Compared == oDay <= CutDay

(* ------------------------------- outcomes -------------------------------- *)

\* An event bears the time at which its bar begins, minute or day.  Its stamp is
\* the first decision whose instant that time does not exceed: exit_time <=
\* decision.  The end of the test comes after every decision.
AtTheEnd == LastDay + 1
NoTime == LastDay + 2

Outcome(status, filled, exit, expires, net) ==
  [status |-> status, filled |-> filled, exit |-> exit, expires |-> expires, net |-> net]

Lost(filled) == Outcome("outcome_data_missing", filled, NoTime, NoTime, 0)
NeverFilled == Outcome("unfilled_end", NoTime, NoTime, NoTime, 0)

\* From minutes: filled now or later, closed then or later.
HourlyOutcomes(d) ==
  UNION { { Outcome("closed", f, x, NoTime, n) : x \in f..AtTheEnd, n \in {-Stake, Stake} } :
            f \in d..AtTheEnd }
  \cup { Outcome("expired_unfilled", NoTime, NoTime, e, 0) : e \in (d + 1)..AtTheEnd }
  \cup { Lost(f) : f \in (d..AtTheEnd) \cup {NoTime} }
  \cup { NeverFilled }

\* From daily bars: filled at the day's own open or not at all; every event
\* is stamped with the midnight at which its bar begins.
DailyOutcomes(d) ==
  { Outcome("closed", d, x, NoTime, n) : x \in d..AtTheEnd, n \in {-Stake, Stake} }
  \cup { Lost(NoTime), NeverFilled }

Outcomes(d) == IF daily THEN DailyOutcomes(d) ELSE HourlyOutcomes(d)

\* The first decision by which an event's bar has begun, or by which it is surely
\* complete: the bar of the day, and the minute that begins with the decision,
\* are complete only at the next.
KnownAt(stamp) == IF Agreement = "begun" THEN stamp ELSE stamp + 1

\* What the bars agreed in tell the decision of day d of an outcome.
Visible(o, d) ==
  [filled |-> IF o.filled <= d THEN o.filled ELSE 0,
   exit |-> IF KnownAt(o.exit) <= d THEN <<o.exit, o.net>> ELSE <<>>,
   expired |-> o.expires <= d]

\* The outcomes of one order in the two worlds.
OutcomePairs(d) ==
  { p \in Outcomes(d) \X Outcomes(d) :
      p[1] # p[2] => ~diverged /\ Compared /\ Visible(p[1], CutDay) = Visible(p[2], CutDay) }

(* ------------------------------ the account ------------------------------ *)

EmptyBook == [cash |-> StartingEquity, realized |-> 0, active |-> {},
              equity |-> StartingEquity, blocked |-> FALSE, today |-> <<>>,
              reported |-> 0]

Sum(f(_), S) == MapThenSumSet(f, S)

Exited(item, d) == item.outcome.exit <= d

\* Broken twin: open is what fills at all, now or later.
FillsEventually(item, d) == item.outcome.filled # NoTime /\ ~Exited(item, d)

IsOpen(item, d) == item.outcome.filled <= d /\ ~Exited(item, d)

\* Orders whose life ended before this decision give their cash back; one that
\* never ends keeps it.
Ended(item, d) == Exited(item, d) \/ item.outcome.expires <= d

\* An order of the day counts at once, one of an earlier day once filled.
OccupiesSlot(item, d) ==
  IF item.day = d THEN ~Exited(item, d) ELSE IsOpen(item, d)

Notional(book) ==
  LET part == book.equity \div Share IN IF part < book.cash THEN part ELSE book.cash

OpenSymbols(book, d) == {i.symbol : i \in {j \in book.active : IsOpen(j, d)}}

\* The day's opening: realize, mark the open positions, apply the loss limit.
Opening(book, d, mark) ==
  LET over == {i \in book.active : Ended(i, d)}
      left == book.active \ over
      earned == Sum(LAMBDA i : i.outcome.net, {i \in over : Exited(i, d)})
      realized == book.realized + earned
      equity == StartingEquity + realized
                  + Sum(LAMBDA i : mark[i.symbol], {i \in left : IsOpen(i, d)})
  IN  [book EXCEPT
         !.cash = @ + Sum(LAMBDA i : i.notional, over) + earned,
         !.realized = realized,
         !.active = left,
         !.equity = equity,
         !.blocked = \/ book.equity <= 0
                     \/ 100 * (equity - book.equity) <= -LossLimit * book.equity,
         !.today = <<>>]

\* Why the candidate is rejected, in the order of the code; "" if it is not.
Refusal(book, c, d) ==
  IF book.blocked THEN "daily_loss_limit"
  ELSE IF \E i \in book.active : i.symbol = c THEN "already_held_or_pending"
  ELSE IF Cardinality({i \in book.active : OccupiesSlot(i, d)}) >= MaxPositions
       THEN "max_positions"
  ELSE IF Len(book.today) >= MaxNewPerDay THEN "max_new_trades_per_day"
  ELSE IF Notional(book) < 1 THEN "insufficient_cash_or_quantity"
  ELSE ""

Approve(book, c, d, outcome) ==
  [book EXCEPT
     !.active = @ \cup {[symbol |-> c, day |-> d, notional |-> Notional(book),
                         outcome |-> outcome]},
     !.today = Append(@, <<c, Notional(book)>>),
     !.cash = @ - Notional(book),
     !.reported = @ + outcome.net]

(* ------------------------------- behaviour ------------------------------- *)

\* The day's candidates: any of the symbols, in any order of conviction.
Calendar == UNION { SetToSeqs(S) : S \in SUBSET Symbols }

\* Marks come from hourly bars complete at the decision, or, in a backtest of
\* daily bars, from the bar that has begun that day.
MarkPairs(d) ==
  LET held == UNION { OpenSymbols(books[w], d) : w \in Worlds }
      marks == [held -> {-1, 0, 1}]
  IN  { m \in marks \X marks :
          m[1] # m[2] => daily /\ Agreement = "complete" /\ d = CutDay /\ ~diverged }

OrdersInit ==
  /\ daily \in BOOLEAN
  /\ oDay = 0
  /\ queue = <<>>
  /\ books = [w \in Worlds |-> EmptyBook]
  /\ diverged = FALSE

\* A day begins.  Beyond the cut there is one world left to follow.
StartDay ==
  /\ queue = <<>>
  /\ oDay < LastDay
  /\ oDay' = oDay + 1
  /\ queue' \in Calendar
  /\ \E m \in MarkPairs(oDay + 1) :
       /\ books' = [w \in Worlds |->
                      LET v == IF oDay < CutDay THEN w ELSE 1
                      IN  Opening(books[v], oDay + 1, m[v])]
       /\ diverged' = (diverged \/ m[1] # m[2])
  /\ UNCHANGED daily

\* The next candidate is rejected, or approved with its whole outcome.
Consider ==
  /\ queue # <<>>
  /\ LET c == Head(queue)
         taken == {w \in Worlds : Refusal(books[w], c, oDay) = ""}
     IN  \E p \in IF taken = {} THEN {<<NeverFilled, NeverFilled>>} ELSE OutcomePairs(oDay) :
           /\ books' = [w \in Worlds |-> IF w \in taken
                                         THEN Approve(books[w], c, oDay, p[w]) ELSE books[w]]
           /\ diverged' = (diverged \/ p[1] # p[2])
  /\ queue' = Tail(queue)
  /\ UNCHANGED <<daily, oDay>>

\* The end of the test realizes every closed outcome that is left.
Settle ==
  /\ queue = <<>>
  /\ oDay = LastDay
  /\ oDay' = LastDay + 1
  /\ books' = [w \in Worlds |->
       LET b == books[w]
           total == b.realized + Sum(LAMBDA i : i.outcome.net, b.active)
       IN  [b EXCEPT !.realized = total, !.equity = StartingEquity + total]]
  /\ UNCHANGED <<daily, queue, diverged>>

OrdersNext == StartDay \/ Consider \/ Settle

=============================================================================
