----------------------------- MODULE SlcProcess -----------------------------
(***************************************************************************)
(* One live_slc process: a stage (preflight, cycle or closeout) started by  *)
(* the task scheduler under the nonblocking process lock, so at most one    *)
(* runs at a time.  pc names the next broker call or database transaction;  *)
(* whatever the process remembers is lost when it ends, whatever it has     *)
(* committed (SlcStore) or sent (AlpacaBroker) stays.                       *)
(***************************************************************************)
EXTENDS SlcStore

CONSTANTS
  NoSymbol,     \* "no position is being handled"
  MaxSignals    \* how often one signal may be delivered (bound)

ASSUME ProcessAssumption ==
  /\ NoSymbol \notin Symbols
  /\ MaxSignals \in Nat

VARIABLES
  signals,  \* [Symbols -> 0..MaxSignals] deliveries of the symbol's signal
  stage,    \* the stage that holds the process lock, or "idle"
  pc,       \* the step it is about to take
  cur,      \* the position or candidate it is handling
  todo,     \* those it still has to handle
  seen,     \* the broker positions it read at the start of a loop
  ret,      \* where a shared routine returns to
  obs,      \* the order state it observed: quantity, stop leg, target id
  done,     \* closeout: positions whose close was confirmed flat
  bad       \* closeout: the other positions it must answer for

procVars == <<stage, pc, cur, todo, seen, ret, obs, done, bad>>
vars == <<brokerVars, faults, storeVars, signals, procVars>>

Stages == {"preflight", "cycle", "closeout"}

CloseSteps  == {"x_cancel", "x_confirm", "x_submit", "x_poll", "x_flat",
                "close_row", "close_trade"}
EntrySteps  == {"admit", "entry", "presubmit", "submit", "ack", "amb", "rej",
                "poll", "cancel", "confirm", "unres", "unfilled",
                "p_open", "p_degrade", "p_row", "part_flat", "part_open",
                "f_row", "f_open", "f_check", "f_degrade", "f_replace",
                "f_verify", "f_ids", "f_unconf"}
CycleSteps  == {"reconcile", "degraded", "deg_poll"}
CloseoutSteps  == {"orphans", "adopt", "positions", "guard", "mark", "readback"}
PreflightSteps == {"resolve", "r_open", "r_flag"}
Labels == {"idle"} \union CloseSteps \union EntrySteps \union CycleSteps
            \union CloseoutSteps \union PreflightSteps

Observation == [qty : 0 .. Qty, stop : BOOLEAN, tgt : {0} \union TargetIds]
NothingSeen == [qty |-> 0, stop |-> FALSE, tgt |-> 0]

ProcTypeOK ==
  /\ signals \in [Symbols -> 0 .. MaxSignals]
  /\ stage \in Stages \union {"idle"}
  /\ pc \in Labels
  /\ cur \in Symbols \union {NoSymbol}
  /\ todo \subseteq Symbols
  /\ seen \in [Symbols -> Int]
  /\ ret \in {"none", "reconcile", "degraded", "entry", "mark",
              "partial", "full", "closeout"}
  /\ obs \in Observation
  /\ done \subseteq Symbols
  /\ bad \subseteq Symbols

ProcIdle(st, p, c, t, v, r, o, d, b) ==
  /\ st = "idle" /\ p = "idle" /\ c = NoSymbol /\ t = {}
  /\ v = [s \in Symbols |-> 0] /\ r = "none" /\ o = NothingSeen
  /\ d = {} /\ b = {}

ProcInit ==
  /\ signals = [s \in Symbols |-> 0]
  /\ ProcIdle(stage, pc, cur, todo, seen, ret, obs, done, bad)

\* The process ends: its locals are gone and the lock is free.
Halt == ProcIdle(stage', pc', cur', todo', seen', ret', obs', done', bad')

Goto(l) ==
  pc' = l /\ UNCHANGED <<stage, cur, todo, seen, ret, obs, done, bad>>

\* Run the shared routine that starts at l for symbol s, then go on at r; the
\* caller says what becomes of todo.
Call(l, s, r) ==
  /\ pc' = l /\ cur' = s /\ ret' = r
  /\ UNCHANGED <<stage, seen, obs, done, bad>>

\* Start a loop over the set w at l, with the broker positions v at hand.
Loop(l, w, v) ==
  /\ pc' = l /\ todo' = w /\ seen' = v
  /\ cur' = NoSymbol /\ obs' = NothingSeen /\ ret' = "none"
  /\ UNCHANGED <<stage, done, bad>>

\* Take the next element s of the loop at l and stay in the loop.
Skip(s) == /\ todo' = todo \ {s}
           /\ UNCHANGED <<stage, pc, cur, seen, ret, obs, done, bad>>

\* Take the next element s of the loop and go to l to handle it.
Take(s, l, o) ==
  /\ todo' = todo \ {s} /\ cur' = s /\ pc' = l /\ obs' = o
  /\ UNCHANGED <<stage, seen, ret, done, bad>>

\* Return to the loop at l.
Back(l) ==
  /\ pc' = l /\ cur' = NoSymbol /\ ret' = "none" /\ obs' = NothingSeen
  /\ UNCHANGED <<stage, todo, seen, done, bad>>

Begin(st, l, w, v) ==
  /\ pc = "idle"
  /\ stage' = st /\ pc' = l /\ todo' = w /\ seen' = v
  /\ cur' = NoSymbol /\ ret' = "none" /\ obs' = NothingSeen
  /\ done' = {} /\ bad' = {}

NothingHeld == [s \in Symbols |-> 0]
BrokerPositions == [s \in Symbols |-> Held(s)]

At(l) == pc = l
BrokerQuiet == UNCHANGED brokerVars
StoreQuiet  == UNCHANGED storeVars
=============================================================================
