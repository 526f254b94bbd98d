------------------------------- MODULE SlcSizing -------------------------------
(***************************************************************************)
(* What a cycle spends: the reads build_account_snapshot makes, the limits  *)
(* and the size risk.py takes from them, the prices execution.py rounds,    *)
(* and the checks after the fill, for the confirmations of one session,     *)
(* while other strategies trade on the same account.  dry_run and           *)
(* paper_active take the same path to the last broker call.  What becomes   *)
(* of an order that does not fill in full is SlcEntry's; here it is gone,   *)
(* or blocks.  A position row says open from the fill on, before the checks *)
(* of it; what says that it has passed them is the record of its signal,    *)
(* written last.  Money and prices are integers, in fractions of a tick.    *)
(***************************************************************************)
EXTENDS Integers, FiniteSetsExt, SequencesExt

CONSTANTS
  Candidates,     \* symbols with a confirmation this session
  Confirmation,   \* [Candidates -> [direction, stop, rank]]
  Others,         \* symbols other strategies trade on the account
  Stakes,         \* [Others -> what one of their entries costs]
  Quotes,         \* midpoints the feed may give
  Slips,          \* what a market order may fill beside its quote
  Equities,       \* values the account's equity moves between
  StartEquity,    \* last_equity
  OneDollar, HighTick, LowTick,
  MaxTradesPerDay, MaxPositions,
  MaxCycles,      \* bound: cycles with confirmations
  MaxMoves        \* bound: moves of the equity

ASSUME SizingAssumption ==
  /\ {OneDollar, HighTick, LowTick, MaxTradesPerDay, MaxPositions, MaxCycles, MaxMoves}
       \subseteq Nat
  /\ IsFiniteSet(Candidates) /\ IsFiniteSet(Others) /\ Stakes \in [Others -> Int]
  /\ HighTick > 0 /\ LowTick > 0
  /\ StartEquity \in Equities /\ Equities \subseteq Int
  /\ Quotes \subseteq Int /\ Slips \subseteq Int
  /\ Confirmation \in [Candidates -> [direction : {"long", "short"}, stop : Int, rank : Int]]
  /\ \A c, d \in Candidates : Confirmation[c].rank = Confirmation[d].rank => c = d

\* Per ten thousand of equity, and per cent.
SLC_RISK_PER_TRADE == 25
SLC_MAX_POSITION_PCT == 20
SLC_DAILY_LOSS_LIMIT == 2

VARIABLES
  equity, cash,   \* the account
  foreign,        \* [Others -> the order of another strategy: none, resting, filled]
  mode,           \* dry_run or paper_active
  pc, goal,       \* where the cycle is, and what the snapshot it reads is for
  queue,          \* confirmations it has still to decide
  snap,           \* the last AccountSnapshot
  plan,           \* quote, stop, target and quantity for the head of queue
  committed,      \* committed_notional_this_cycle
  rows,           \* SlcOrder: what was proposed or submitted, and whether any of it filled
  pos,            \* SlcPosition; .equity is what the checks after the fill read (history)
  healthy,        \* candidates whose SlcSignalRecord says filled_and_protected
  blocked,        \* system_wide_entry_block_reasons
  cycle, moves
account == <<equity, cash, foreign, moves>>
store == <<rows, pos, healthy, blocked>>
vars == <<account, mode, pc, goal, queue, snap, plan, committed, store, cycle>>

Symbols == Candidates \union Others
None == 0
NoRow == [cycle |-> 0, notional |-> 0, filled |-> FALSE]
NoSnapshot == [equity |-> 0, cash |-> 0, nonMarginable |-> 0,
               positions |-> [s \in {} |-> 0], orders |-> [s \in {} |-> 0]]
NoPlan == [quote |-> None, stop |-> 0, target |-> 0, qty |-> 0]
NoPosition == [status |-> "none", qty |-> 0, fill |-> 0, stop |-> 0, target |-> 0, equity |-> 0]

Init ==
  /\ equity = StartEquity /\ cash = StartEquity /\ moves = 0
  /\ foreign = [o \in Others |-> "none"]
  /\ mode \in {"dry_run", "paper_active"}
  /\ pc = "idle" /\ goal = "admit" /\ queue = <<>>
  /\ snap = NoSnapshot /\ plan = NoPlan /\ committed = 0
  /\ rows = [c \in Candidates |-> NoRow]
  /\ pos = [c \in Candidates |-> NoPosition]
  /\ healthy = {} /\ blocked = FALSE /\ cycle = 0

SumOver(f) == MapThenSumSet(LAMBDA s : f[s], DOMAIN f)
Floored(n) == IF n > 0 THEN n ELSE 0
Distance(a, b) == IF a > b THEN a - b ELSE b - a
\* Arithmetic on prices: the tick, and rounding to it.
TickSize(price) == IF price >= OneDollar THEN HighTick ELSE LowTick
RoundDown(price) == (price \div TickSize(price)) * TickSize(price)
RoundUp(price) == ((price + TickSize(price) - 1) \div TickSize(price)) * TickSize(price)

(***************************************************************************)
(* The account, and the other strategies on it.                             *)
(***************************************************************************)
MarketValue(s) ==
  (IF s \in Others /\ foreign[s] = "filled" THEN Stakes[s] ELSE 0)
  + (IF s \in Candidates THEN pos[s].qty * pos[s].fill ELSE 0)
Resting == {o \in Others : foreign[o] = "resting"}
Reserved == SumOver([o \in Resting |-> Stakes[o]])

Trade(o, was, is, paid) ==
  /\ foreign[o] = was /\ foreign' = [foreign EXCEPT ![o] = is]
  /\ cash' = cash - paid
  /\ UNCHANGED <<equity, moves, mode, pc, goal, queue, snap, plan, committed, store, cycle>>

ForeignRests == \E o \in Others : Trade(o, "none", "resting", 0)
ForeignFills == \E o \in Others : Trade(o, "resting", "filled", Stakes[o])
ForeignCanceled == \E o \in Others : Trade(o, "resting", "none", 0)
EquityMoves ==
  /\ moves < MaxMoves /\ moves' = moves + 1
  /\ equity' \in Equities \ {equity}
  /\ UNCHANGED <<cash, foreign, mode, pc, goal, queue, snap, plan, committed, store, cycle>>

(***************************************************************************)
(* build_account_snapshot: three reads, and other strategies in between.    *)
(***************************************************************************)
Goto(l) == pc' = l /\ UNCHANGED <<account, mode, cycle>>
Reading(l) == pc = l /\ UNCHANGED <<goal, queue, plan, committed, store>>

\* The broker's own figure for buying power takes off what resting orders hold.
ReadAccount ==
  /\ Reading("account") /\ equity > 0
  /\ snap' = [NoSnapshot EXCEPT !.equity = equity, !.cash = cash,
                                !.nonMarginable = cash - Reserved]
  /\ Goto("positions")

ReadPositions ==
  /\ Reading("positions")
  /\ LET held == {s \in Symbols : MarketValue(s) # 0}
     IN snap' = [snap EXCEPT !.positions = [s \in held |-> MarketValue(s)]]
  /\ Goto("orders")

\* Opening orders of today, with what is still to fill of them: nothing of one
\* that is filled, whose worth is a position.  A canceled one is left out.
TodaysOrders ==
  LET entered == {o \in Others : foreign[o] # "none"}
      own == {c \in Candidates : rows[c].filled}
  IN [s \in entered \union own |-> IF s \in Resting THEN Stakes[s] ELSE 0]

ReadOrders ==
  /\ Reading("orders")
  /\ snap' = [snap EXCEPT !.orders = TodaysOrders]
  /\ Goto(goal)

\* AccountSnapshotUnusable: a read failed, a number was not one, or an order in
\* flight has no quote.  The cycle skips every confirmation, or this one.
Unusable ==
  /\ pc \in {"account", "positions", "orders"}
  /\ snap' = NoSnapshot
  /\ queue' = IF goal = "admit" THEN <<>> ELSE Tail(queue)
  /\ Goto("next") /\ UNCHANGED <<goal, plan, committed, store>>

(***************************************************************************)
(* risk.py, from a snapshot.                                                *)
(***************************************************************************)
AccountWideEntriesToday == Cardinality(DOMAIN snap.orders)
RemainingDailyEntrySlots == Floored(MaxTradesPerDay - AccountWideEntriesToday)
GrossExposure == SumOver(snap.positions)
PendingOpeningNotional == SumOver(snap.orders)
AvailableBuyingPower ==
  Floored(Min({snap.cash, snap.nonMarginable,
               snap.equity - GrossExposure - PendingOpeningNotional}))
DailyLossBreached == (snap.equity - StartEquity) * 100 <= -SLC_DAILY_LOSS_LIMIT * StartEquity
OpenPositionCount == Cardinality(DOMAIN snap.positions)

CheckNewEntryCapacity(c, admitted) ==
  /\ ~DailyLossBreached
  /\ OpenPositionCount + admitted < MaxPositions
  /\ c \notin DOMAIN snap.positions \union DOMAIN snap.orders

SizeOrder(price, stop) ==
  LET risk == Distance(price, stop)
      available == Floored(AvailableBuyingPower - committed)
  IN IF risk = 0 \/ price <= 0 THEN 0
     ELSE Floored(Min({(snap.equity * SLC_RISK_PER_TRADE) \div (10000 * risk),
                       (snap.equity * SLC_MAX_POSITION_PCT) \div (100 * price),
                       available \div price}))

(***************************************************************************)
(* execution.py, prices.                                                    *)
(***************************************************************************)
RoundStop(price, dir) == IF dir = "long" THEN RoundDown(price) ELSE RoundUp(price)

\* Broken twin: the target is rounded to its tick on the near side.
RoundTargetNear(price, dir) == IF dir = "long" THEN RoundDown(price) ELSE RoundUp(price)
RoundTarget(price, dir) == IF dir = "long" THEN RoundUp(price) ELSE RoundDown(price)

RetargetAfterFill(dir, fill, stop) ==
  IF dir = "long" THEN fill + 2 * Distance(fill, stop) ELSE fill - 2 * Distance(fill, stop)
ValidBracket(fill, stop, target, dir) ==
  /\ stop > 0 /\ target > 0 /\ fill > 0
  /\ IF dir = "long" THEN stop < fill /\ fill < target ELSE target < fill /\ fill < stop

WithinRisk(qty, fill, stop, money) ==
  qty * Distance(fill, stop) * 10000 <= SLC_RISK_PER_TRADE * money

\* What the broker says of borrowing the stock; the fallback holds to a date.
Assets == [tradable : BOOLEAN, shortable : BOOLEAN, easy : BOOLEAN,
           borrow : {"absent", "easy_to_borrow", "hard_to_borrow"}]
CheckShortability(asset, expired) ==
  /\ asset.tradable /\ asset.shortable
  /\ \/ asset.borrow = "easy_to_borrow"
     \/ asset.borrow = "absent" /\ ~expired /\ asset.easy

\* A quote no older than the deadline, and not empty.
FreshQuotes == {q.mid : q \in {q \in [mid : Quotes, stale : BOOLEAN] : ~q.stale /\ q.mid > 0}}

(***************************************************************************)
(* The cycle.                                                               *)
(***************************************************************************)
Rankings(conf) ==
  {q \in SetToSeqs(conf) :
     \A i, j \in DOMAIN q : i < j => Confirmation[q[i]].rank < Confirmation[q[j]].rank}

\* Confirmations arrive, each once, and are ranked.
StartCycle ==
  /\ pc = "idle" /\ cycle < MaxCycles
  /\ \E conf \in SUBSET {c \in Candidates : rows[c] = NoRow /\ pos[c].status = "none"} :
       /\ conf # {}
       /\ queue' \in Rankings(conf)
  /\ cycle' = cycle + 1 /\ committed' = 0 /\ goal' = "admit"
  /\ pc' = "account"
  /\ UNCHANGED <<account, mode, snap, plan, store>>

DryRunProposals == Cardinality({c \in Candidates : rows[c] # NoRow})
Slots == IF mode = "dry_run" THEN Floored(RemainingDailyEntrySlots - DryRunProposals)
         ELSE RemainingDailyEntrySlots

AdmitOne(adm, c) ==
  IF Len(adm) < Slots /\ CheckNewEntryCapacity(c, Len(adm)) THEN Append(adm, c) ELSE adm
SelectWithinCapacity(ranked) ==
  LET admitted[n \in 0 .. Len(ranked)] ==
        IF n = 0 THEN <<>> ELSE AdmitOne(admitted[n - 1], ranked[n])
  IN admitted[Len(ranked)]

Admit ==
  /\ pc = "admit" /\ queue' = SelectWithinCapacity(queue)
  /\ Goto("next") /\ UNCHANGED <<goal, snap, plan, committed, store>>

\* The next candidate, unless an incident blocks.
EndCycle ==
  /\ pc = "next" /\ (queue = <<>> \/ blocked)
  /\ queue' = <<>> /\ plan' = NoPlan /\ snap' = NoSnapshot
  /\ Goto("idle") /\ UNCHANGED <<goal, committed, store>>

Candidate == Head(queue)
Direction == Confirmation[Candidate].direction
Skip == /\ queue' = Tail(queue) /\ plan' = NoPlan /\ Goto("next")
        /\ UNCHANGED <<goal, snap, committed, store>>

At(l) == pc = l /\ queue # <<>> /\ ~blocked

\* Phase A, and the quote of phase B.
Screen ==
  /\ At("next")
  /\ Direction = "short" =>
       \E asset \in Assets, expired \in BOOLEAN : CheckShortability(asset, expired)
  /\ \E q \in FreshQuotes : plan' = [NoPlan EXCEPT !.quote = q]
  /\ goal' = "size" /\ Goto("account") /\ UNCHANGED <<queue, snap, committed, store>>

\* Not shortable, or no fresh quote.
ScreenedOut == At("next") /\ Skip

Planned ==
  LET stop == RoundStop(Confirmation[Candidate].stop, Direction)
  IN [quote |-> plan.quote, stop |-> stop,
      target |-> RoundTarget(RetargetAfterFill(Direction, plan.quote, stop), Direction),
      qty |-> SizeOrder(plan.quote, stop)]
Worthwhile ==
  /\ CheckNewEntryCapacity(Candidate, 0)
  /\ ValidBracket(Planned.quote, Planned.stop, Planned.target, Direction)
  /\ Planned.qty > 0

Size ==
  /\ At("size") /\ Worthwhile
  /\ plan' = Planned
  /\ Goto("reconcile") /\ UNCHANGED <<goal, queue, snap, committed, store>>
SizedOut == At("size") /\ ~Worthwhile /\ Skip

\* Broken twin: a simulated trade spends nothing.
CommitsReal(kind) == kind = "submitted"
\* What run_cycle adds to committed_notional_this_cycle for an outcome.
Commits(kind) == kind \in {"submitted", "dry_run_proposed"}

Notional == plan.qty * plan.quote
Recorded(filled) ==
  rows' = [rows EXCEPT ![Candidate] = [cycle |-> cycle, notional |-> Notional, filled |-> filled]]
\* The candidate is done with: on to the next one, or an incident ends the loop.
Done(kind, incident) ==
  /\ committed' = committed + (IF Commits(kind) THEN Notional ELSE 0)
  /\ blocked' = incident
  /\ queue' = Tail(queue) /\ plan' = NoPlan /\ pc' = "next"
  /\ UNCHANGED <<equity, foreign, moves, mode, cycle, goal, snap>>

\* The broker cannot say whether the order exists: an incident, in either mode.
Unreachable == At("reconcile") /\ Done("ambiguous", TRUE) /\ UNCHANGED <<cash, rows, pos, healthy>>

Propose ==
  /\ At("reconcile") /\ mode = "dry_run"
  /\ Recorded(FALSE) /\ Done("dry_run_proposed", FALSE) /\ UNCHANGED <<cash, pos, healthy>>

\* The order leaves nothing behind: rejected, canceled unfilled, or filled in
\* part and flattened again; or nobody knows, which blocks.
SubmitInVain ==
  /\ At("reconcile") /\ mode = "paper_active"
  /\ \E kind \in {"rejected", "submitted"}, incident \in BOOLEAN :
       Done(kind, incident) /\ Recorded(kind = "submitted")
  /\ UNCHANGED <<cash, pos, healthy>>

Proceeds(c, fill, qty) == IF Confirmation[c].direction = "long" THEN -(fill * qty) ELSE fill * qty

\* The whole order fills: the row of the position is committed as open.
SubmitFills ==
  /\ At("reconcile") /\ mode = "paper_active"
  /\ \E slip \in Slips :
       LET fill == plan.quote + slip
       IN /\ pos' = [pos EXCEPT ![Candidate] =
                       [NoPosition EXCEPT !.status = "open", !.qty = plan.qty,
                          !.fill = fill, !.stop = plan.stop, !.target = plan.target]]
          /\ cash' = cash + Proceeds(Candidate, fill, plan.qty)
  /\ Recorded(TRUE) /\ pc' = "filled"
  /\ UNCHANGED <<equity, foreign, moves, mode, cycle, goal, queue, snap, plan, committed, healthy, blocked>>

(***************************************************************************)
(* After the fill.                                                          *)
(***************************************************************************)
Filled == pos[Candidate]
Recalculated == RoundTarget(RetargetAfterFill(Direction, Filled.fill, Filled.stop), Direction)

\* Broken twin: a failed refresh falls back on the snapshot of phase B.
FallsBack(refreshed) ==
  WithinRisk(Filled.qty, Filled.fill, Filled.stop, IF refreshed THEN equity ELSE snap.equity)
\* monetary_ok: against the equity as it is now, or not at all.
MonetaryOk(refreshed) ==
  refreshed /\ WithinRisk(Filled.qty, Filled.fill, Filled.stop, equity)

\* The account is read again; the leg may have gone.  equity is what it then was.
Recheck ==
  /\ At("filled")
  /\ \E refreshed, protected \in BOOLEAN :
       /\ refreshed => equity > 0
       /\ IF MonetaryOk(refreshed) /\ protected
             /\ ValidBracket(Filled.fill, Filled.stop, Recalculated, Direction)
          THEN /\ pos' = [pos EXCEPT ![Candidate].equity = equity]
               /\ Goto("retarget")
          ELSE /\ pos' = [pos EXCEPT ![Candidate].status = "degraded"]
               /\ Goto("flatten")
  /\ UNCHANGED <<goal, queue, snap, plan, committed, rows, healthy, blocked>>

\* A degraded position is closed at once, or blocks every entry.
Flatten ==
  /\ At("flatten")
  /\ \/ /\ Done("submitted", FALSE)
        /\ pos' = [pos EXCEPT ![Candidate] = NoPosition]
        /\ cash' = cash - Proceeds(Candidate, Filled.fill, Filled.qty)
     \/ /\ Done("submitted", TRUE)
        /\ UNCHANGED <<pos, cash>>
  /\ UNCHANGED <<rows, healthy>>

\* The target is moved to what the fill calls for, and read back.
Retarget ==
  /\ At("retarget")
  /\ \/ /\ Done("submitted", FALSE)
        /\ pos' = [pos EXCEPT ![Candidate].target = Recalculated]
        /\ healthy' = healthy \union {Candidate}
     \/ /\ Done("submitted", TRUE)
        /\ pos' = [pos EXCEPT ![Candidate].status = "degraded"]
        /\ UNCHANGED healthy
  /\ UNCHANGED <<cash, rows>>

\* The process dies.  What it has committed stays: a degraded position blocks, an
\* open one does not, whether it was checked or not.
Crash ==
  /\ pc # "idle"
  /\ blocked' = (blocked \/ \E c \in Candidates : pos[c].status = "degraded")
  /\ queue' = <<>> /\ plan' = NoPlan /\ snap' = NoSnapshot /\ committed' = 0
  /\ Goto("idle") /\ UNCHANGED <<goal, rows, pos, healthy>>

\* Recovery settles the incident: degraded positions are closed.
Settled ==
  /\ pc = "idle" /\ blocked /\ blocked' = FALSE
  /\ LET left == {c \in Candidates : pos[c].status = "degraded"}
     IN /\ pos' = [c \in Candidates |-> IF c \in left THEN NoPosition ELSE pos[c]]
        /\ cash' = cash - SumOver([c \in left |-> Proceeds(c, pos[c].fill, pos[c].qty)])
  /\ UNCHANGED <<equity, foreign, moves, mode, pc, goal, queue, snap, plan, committed, rows, healthy, cycle>>

Next ==
  \/ ForeignRests \/ ForeignFills \/ ForeignCanceled \/ EquityMoves
  \/ StartCycle \/ ReadAccount \/ ReadPositions \/ ReadOrders \/ Unusable
  \/ Admit \/ EndCycle \/ Screen \/ ScreenedOut \/ Size \/ SizedOut
  \/ Unreachable \/ Propose \/ SubmitInVain \/ SubmitFills
  \/ Recheck \/ Flatten \/ Retarget \/ Crash \/ Settled
Spec == Init /\ [][Next]_vars

(***************************************************************************)
(* Properties.                                                              *)
(***************************************************************************)
\* The confirmations of one cycle do not spend the same cash: what the cycle has
\* proposed or submitted together fits in the buying power its last size was
\* taken from (run_slc_live.py:1594-1606).
ProposedNow == {c \in Candidates : rows[c].cycle = cycle /\ mode = "dry_run"}
CashUsedOnce ==
  At("reconcile") =>
    SumOver([c \in ProposedNow |-> rows[c].notional]) + Notional <= AvailableBuyingPower

\* A position whose signal is on record as filled and protected risks at most a
\* quarter per cent of what the account was worth after its fill, however fill and
\* equity moved since it was sized (run_slc_live.py:1922-1940, 2025).  The row of the
\* position alone promises nothing: it says open from the fill on (1912).
HealthyWithinRisk ==
  \A c \in healthy : WithinRisk(pos[c].qty, pos[c].fill, pos[c].stop, pos[c].equity)

\* It also stands to win at least twice what it stands to lose, in the prices
\* the broker has, after every rounding (execution.py:95-138).
HealthyPaysTwice ==
  \A c \in healthy :
    /\ ValidBracket(pos[c].fill, pos[c].stop, pos[c].target, Confirmation[c].direction)
    /\ Distance(pos[c].target, pos[c].fill) >= 2 * Distance(pos[c].fill, pos[c].stop)
=============================================================================
