-------------------------- MODULE BacktestRotation --------------------------
(***************************************************************************)
(* The three backtests that hold a few symbols of a universe               *)
(* (backtest/whole_bot_engine.py): "xsec", the weekly crypto rotation with *)
(* a daily stop; "momentum", the monthly ETF rotation that closes and      *)
(* reopens every slot; "reversal", the daily ETF strategy that queues at   *)
(* the close what it fills at the next open.  One account, whole shares;   *)
(* a day's bars are drawn as it begins and any symbol may have none.       *)
(***************************************************************************)
EXTENDS Integers, Sequences, SequencesExt, FiniteSetsExt, Functions

CONSTANTS
  Tickers,        \* the universe, numbered in alphabetical order
  Bil,            \* the ETF that takes the slots nobody deserves
  Spy,            \* the ETF whose bars are the trading days
  Quotes,         \* prices a bar may show
  EndDay,         \* the last day (bound)
  RebalanceDays,  \* the first trading day of a month, the weekday of a week
  SlotChoices,    \* what top_n or max_positions may be set to
  Capital,        \* starting equity
  FeePerMille,    \* the cost of each leg
  StopGap,        \* xsec: the catastrophic stop lies this far below the entry
  MaxHold,        \* reversal: trading days until the time exit
  SmaWindow       \* reversal: bars in a row the indicators need

ASSUME RotationAssumption ==
  /\ Tickers \cup Quotes \cup RebalanceDays \subseteq Nat
  /\ {Bil, Spy} \subseteq Tickers
  /\ {EndDay, Capital, MaxHold, SmaWindow} \cup SlotChoices \subseteq Nat \ {0}

VARIABLES
  engine,    \* which of the three runs
  slots,     \* its top_n or max_positions
  day,       \* days done; EndDay + 1 when the books are closed
  account,   \* [cash, held, earned]: held maps a symbol to its position
  equity,    \* the last mark
  quote,     \* the last close of each symbol, 0 if none
  gap,       \* the last day each symbol had no bar
  exits,     \* reversal: the symbols to sell at the next open
  entries    \* reversal: the symbols to buy at the next open, best first

rotationVars == <<engine, slots, day, account, equity, quote, gap, exits, entries>>

Engines == {"xsec", "momentum", "reversal"}
Today == day + 1

(* ------------------------------ the account ------------------------------ *)

Empty == [s \in {} |-> 0]
Owned(acc) == DOMAIN acc.held
Cost(p) == p.qty * p.price
Invested(acc) == MapThenSumSet(LAMBDA s : Cost(acc.held[s]), Owned(acc))

\* The result of a closed trade: both legs pay.
Net(p, price) ==
  p.qty * (price - p.price) - (p.qty * (p.price + price) * FeePerMille) \div 1000

\* Broken twin: the proceeds come back without the costs.
SellWithoutCosts(acc, s, price) ==
  [cash |-> acc.cash + acc.held[s].qty * price,
   held |-> Restrict(acc.held, Owned(acc) \ {s}),
   earned |-> acc.earned + Net(acc.held[s], price)]

Sell(acc, s, price) ==
  LET p == acc.held[s] IN
  [cash |-> acc.cash + Cost(p) + Net(p, price),
   held |-> Restrict(acc.held, Owned(acc) \ {s}),
   earned |-> acc.earned + Net(p, price)]

\* Nothing is bought with less than the price of a share.
Buy(acc, s, price, notional) ==
  LET qty == (IF notional < acc.cash THEN notional ELSE acc.cash) \div price IN
  IF qty <= 0 THEN acc
  ELSE [acc EXCEPT !.cash = @ - qty * price,
          !.held = [t \in Owned(acc) \cup {s} |->
                      IF t = s THEN [price |-> price, qty |-> qty, since |-> Today] ELSE @[t]]]

\* Sell every symbol that has a price.
SellAll(acc, prices) ==
  FoldLeft(LAMBDA a, s : Sell(a, s, prices[s]), acc, SetToSeq(DOMAIN prices))

Closes(bars, S) == [s \in S \cap DOMAIN bars |-> bars[s].close]

\* A position without a bar is marked at its cost.
Mark(acc, bars) ==
  acc.cash + MapThenSumSet(
    LAMBDA s : acc.held[s].qty * (IF s \in DOMAIN bars THEN bars[s].close
                                  ELSE acc.held[s].price), Owned(acc))

(* ------------------------- the weekly crypto one ------------------------- *)

\* 1: the stop, fixed at entry, on the low of the last complete day.
XsecStopped(acc, bars) ==
  {s \in Owned(acc) \cap DOMAIN bars : bars[s].low <= acc.held[s].price - StopGap}

XsecStops(acc, bars) ==
  SellAll(acc, [s \in XsecStopped(acc, bars) |-> acc.held[s].price - StopGap])

\* 2: what fell out of the target is sold if it has a bar, the new is bought
\* for a share of the equity last marked, in no order the code fixes.
XsecDrop(acc, bars, target) == SellAll(acc, Closes(bars, Owned(acc) \ target))

XsecEnter(acc, bars, order) ==
  FoldLeft(LAMBDA a, s : Buy(a, s, bars[s].close, equity \div slots), acc, order)

XsecDay(bars) ==
  LET stopped == XsecStops(account, bars) IN
  \E target \in {T \in SUBSET Tickers : Cardinality(T) <= slots} :
    LET dropped == XsecDrop(stopped, bars, target)
    IN  \E fresh \in SUBSET ((target \ Owned(dropped)) \cap DOMAIN bars) :
          \E order \in SetToSeqs(fresh) :
            account' = IF Today \in RebalanceDays
                       THEN XsecEnter(dropped, bars, order) ELSE stopped

(* -------------------------- the monthly ETF one -------------------------- *)

\* A slot whose ETF earned less than the reference, or that no ETF fills, is
\* the reference's.
Weight(top, below, s) ==
  IF s = Bil THEN slots - Cardinality(top \ (below \cup {Bil}))
  ELSE IF s \in top \ below THEN 1 ELSE 0

MomentumEnter(acc, bars, top, below) ==
  LET whole == acc.cash
      targets == {s \in DOMAIN bars : Weight(top, below, s) > 0}
  IN  FoldLeft(LAMBDA a, s : Buy(a, s, bars[s].close,
                                 (whole * Weight(top, below, s)) \div slots),
               acc, SetToSortSeq(targets, LAMBDA i, j : i < j))

MomentumDay(bars) ==
  LET closed == SellAll(account, Closes(bars, Owned(account))) IN
  \E top \in {T \in SUBSET Tickers : Cardinality(T) <= slots} :
    \E below \in SUBSET (top \ {Bil}) :
      account' = IF Today \in RebalanceDays
                 THEN MomentumEnter(closed, bars, top, below) ELSE account

(* --------------------------- the daily ETF one --------------------------- *)

\* A: yesterday's signals at today's open, exits first.  An exit without a bar
\* is dropped here, an entry without one for good.
FillExits(bars) ==
  SellAll(account, [s \in exits \cap Owned(account) \cap DOMAIN bars |-> bars[s].open])

FillEntries(acc, bars) ==
  LET worth == acc.cash + MapThenSumSet(
                 LAMBDA s : acc.held[s].qty * (IF s \in DOMAIN bars THEN bars[s].open
                                               ELSE acc.held[s].price), Owned(acc))
      filled == SelectSeq(entries, LAMBDA s : s \in DOMAIN bars)
  IN  FoldLeft(LAMBDA a, s : Buy(a, s, bars[s].open, worth \div slots), acc, filled)

\* C: the indicators exist after SmaWindow bars in a row.
HasIndicators(s, bars) == s \in DOMAIN bars /\ Today - gap[s] >= SmaWindow

\* Broken twin: the day of the fill is not counted.
DaysSinceFill(p) == Today - p.since

DaysHeld(p) == Today - p.since + 1

\* The exit conditions: trend and oscillator as drawn, or the time.
NewExits(acc, bars, wanted) ==
  {s \in Owned(acc) : /\ HasIndicators(s, bars)
                      /\ s \in wanted \/ DaysHeld(acc.held[s]) >= MaxHold}

FreeSlots(acc, leaving) == slots - (Cardinality(Owned(acc)) - Cardinality(leaving))

\* Broken twin: nobody is turned away for want of a slot.
AdmittedAll(acc, leaving, ranked) == ranked

Admitted(acc, leaving, ranked) ==
  SubSeq(ranked, 1, Max({0, Min({FreeSlots(acc, leaving), Len(ranked)})}))

ReversalDay(bars) ==
  LET acc == FillEntries(FillExits(bars), bars)
      eligible == {s \in Tickers \ Owned(acc) : HasIndicators(s, bars)}
  IN  /\ account' = acc
      /\ \E wanted \in SUBSET Owned(acc) : exits' = NewExits(acc, bars, wanted)
      /\ \E S \in SUBSET eligible : \E ranked \in SetToSeqs(S) :
           entries' = Admitted(acc, exits', ranked)

(* ------------------------------- behaviour ------------------------------- *)

Shown == {b \in [open : Quotes, low : Quotes, close : Quotes] :
            b.low <= b.open /\ b.low <= b.close}

\* The days of the ETF runs are the reference's: it has a bar on each of them,
\* in the monthly run (which counts calendar days) when it rebalances.
SpyTrades == engine = "reversal" \/ (engine = "momentum" /\ Today \in RebalanceDays)
Bars == UNION { [S -> Shown] : S \in {T \in SUBSET Tickers : SpyTrades => Spy \in T} }

RotationInit ==
  /\ engine \in Engines
  /\ slots \in SlotChoices
  /\ day = 0
  /\ account = [cash |-> Capital, held |-> Empty, earned |-> 0]
  /\ equity = Capital
  /\ quote = [s \in Tickers |-> 0]
  /\ gap = [s \in Tickers |-> 1 - SmaWindow]
  /\ exits = {}
  /\ entries = <<>>

OneDay ==
  /\ day < EndDay
  /\ \E bars \in Bars :
       /\ CASE engine = "xsec" -> XsecDay(bars) /\ UNCHANGED <<exits, entries>>
            [] engine = "momentum" -> MomentumDay(bars) /\ UNCHANGED <<exits, entries>>
            [] engine = "reversal" -> ReversalDay(bars)
       /\ equity' = Mark(account', bars)
       /\ quote' = [s \in Tickers |-> IF s \in DOMAIN bars THEN bars[s].close ELSE quote[s]]
       /\ gap' = [s \in Tickers |-> IF s \in DOMAIN bars THEN gap[s] ELSE Today]
  /\ day' = Today
  /\ UNCHANGED <<engine, slots>>

\* The end closes what is open: at the last day's bar or the entry price, or,
\* in the two ETF runs, at the last close there was.
LastPrice(s) ==
  IF engine = "xsec"
  THEN IF gap[s] = day THEN account.held[s].price ELSE quote[s]
  ELSE IF quote[s] = 0 THEN account.held[s].price ELSE quote[s]

CloseBooks ==
  /\ day = EndDay
  /\ day' = EndDay + 1
  /\ account' = SellAll(account, [s \in Owned(account) |-> LastPrice(s)])
  /\ equity' = account'.cash
  /\ UNCHANGED <<engine, slots, quote, gap, exits, entries>>

RotationNext == OneDay \/ CloseBooks

=============================================================================
