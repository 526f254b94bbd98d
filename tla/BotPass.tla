------------------------------ MODULE BotPass ------------------------------
(***************************************************************************)
(* The bot's own database and the passes of run_pipeline.py over it.  A     *)
(* pass is a process the task scheduler starts: run_daily.bat runs monitor, *)
(* risk and execution one after the other, run_monitor_only.bat the monitor *)
(* alone, and an operator may run the execution node again by hand.         *)
(* Nothing keeps two passes apart: whether they overlap is up to Passes.    *)
(***************************************************************************)
EXTENDS BotBroker

CONSTANT Passes   \* the processes that may run side by side

VARIABLES
  row,     \* [Approvals -> RowStatus]   orders.status
  pos,     \* [Approvals -> PosStatus]   positions.status
  shr,     \* [Approvals -> 0..Qty]      positions.shares
  trd,     \* [Approvals -> 0..2]        rows in trades (2: two or more)
  latest,  \* SUBSET Approvals           the newest run of risk approvals
  pc, mode, snap, work, rec, cur, saw, exc   \* [Passes -> ...] a pass's locals

dbVars == <<row, pos, shr, trd>>
localVars == <<pc, mode, snap, work, rec, cur, saw, exc>>
vars == <<app, accountVars, faults, dbVars, latest, localVars>>

\* "submitted" stands for every status the broker reports at submission.
RowStatus == {"none", "error", "error_ambiguous", "submitted",
              "filled_closed", "canceled"}
PosStatus == {"none", "pending", "open", "closed", "canceled"}
Labels == {"idle", "read", "pending", "p_close", "recon", "review",
           "c_cancel", "c_close", "c_poll", "c_db", "risk", "exec",
           "s_send", "s_lookup", "s_record", "k_buy", "k_lookup", "k_poll",
           "k_cancel", "k_settle", "k_stop", "k_flat", "k_flatpoll",
           "k_record", "fail"}

NoLot == 0
Nobody == [s \in Symbols |-> 0]

PassTypeOK ==
  /\ app \in [Approvals -> Symbols \union {"none"}]
  /\ row \in [Approvals -> RowStatus]
  /\ pos \in [Approvals -> PosStatus]
  /\ shr \in [Approvals -> 0 .. Qty]
  /\ trd \in [Approvals -> 0 .. 2]
  /\ latest \subseteq Approvals
  /\ pc \in [Passes -> Labels]
  /\ mode \in [Passes -> {"daily", "monitor", "rerun"}]
  /\ snap \in [Passes -> [Symbols -> Nat]]
  /\ work \in [Passes -> SUBSET Approvals]
  /\ rec \in [Passes -> SUBSET Symbols]
  /\ cur \in [Passes -> Approvals \union {NoLot}]
  /\ saw \in [Passes -> 0 .. Qty]
  /\ exc \in [Passes -> {"none", "unclear", "refused"}]

PassInit ==
  /\ app = [a \in Approvals |-> "none"]
  /\ row = [a \in Approvals |-> "none"]
  /\ pos = [a \in Approvals |-> "none"]
  /\ shr = [a \in Approvals |-> 0]
  /\ trd = [a \in Approvals |-> 0]
  /\ latest = {}
  /\ pc = [p \in Passes |-> "idle"]
  /\ mode = [p \in Passes |-> "daily"]
  /\ snap = [p \in Passes |-> Nobody]
  /\ work = [p \in Passes |-> {}]
  /\ rec = [p \in Passes |-> {}]
  /\ cur = [p \in Passes |-> NoLot]
  /\ saw = [p \in Passes |-> 0]
  /\ exc = [p \in Passes |-> "none"]

AccountQuiet == UNCHANGED accountVars
DbQuiet == UNCHANGED dbVars
RiskQuiet == UNCHANGED <<app, latest>>

\* Where the pass is and what it has in hand.
To(p, l) ==
  /\ pc' = [pc EXCEPT ![p] = l]
  /\ UNCHANGED <<mode, snap, work, rec, cur, saw, exc>>
Saw(p, l, q) ==
  /\ pc' = [pc EXCEPT ![p] = l] /\ saw' = [saw EXCEPT ![p] = q]
  /\ UNCHANGED <<mode, snap, work, rec, cur, exc>>
Raise(p, l, e) ==
  /\ pc' = [pc EXCEPT ![p] = l] /\ exc' = [exc EXCEPT ![p] = e]
  /\ UNCHANGED <<mode, snap, work, rec, cur, saw>>

\* Start the loop l over the lots w with the broker positions v at hand.
Loop(p, l, w, v) ==
  /\ pc' = [pc EXCEPT ![p] = l] /\ work' = [work EXCEPT ![p] = w]
  /\ snap' = [snap EXCEPT ![p] = v] /\ rec' = [rec EXCEPT ![p] = {}]
  /\ cur' = [cur EXCEPT ![p] = NoLot]
  /\ saw' = [saw EXCEPT ![p] = 0] /\ exc' = [exc EXCEPT ![p] = "none"]
  /\ UNCHANGED mode
Take(p, a, l) ==
  /\ pc' = [pc EXCEPT ![p] = l] /\ cur' = [cur EXCEPT ![p] = a]
  /\ work' = [work EXCEPT ![p] = @ \ {a}]
  /\ UNCHANGED <<mode, snap, rec, saw, exc>>
Drop(p, a) ==
  /\ work' = [work EXCEPT ![p] = @ \ {a}]
  /\ UNCHANGED <<pc, mode, snap, rec, cur, saw, exc>>
Back(p, l) == Loop(p, l, work[p], snap[p])
End(p) == Loop(p, "idle", {}, Nobody)
Leave(p) == IF mode[p] = "daily" THEN Loop(p, "risk", {}, Nobody) ELSE End(p)

\* _close_position_in_db: the row and the trade in one transaction, whatever
\* the row says by now.
CloseInDb(a) ==
  /\ pos' = [pos EXCEPT ![a] = "closed"]
  /\ trd' = [trd EXCEPT ![a] = IF @ = 2 THEN 2 ELSE @ + 1]
  /\ UNCHANGED <<row, shr>>

Crash(p) ==
  /\ pc[p] # "idle"
  /\ Fault("crash")
  /\ End(p) /\ AccountQuiet /\ DbQuiet /\ RiskQuiet
=============================================================================
