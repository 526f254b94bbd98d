-------------------------- MODULE BotReconciliation --------------------------
(***************************************************************************)
(* nodes/evaluation_reconciliation_node.py: the report on whether database, *)
(* evaluation ledger and paper account agree, which is asked for before the *)
(* schedule is changed.  It writes nothing but columns of the ledger that   *)
(* no later report decides by, so a report is a function of the state it    *)
(* finds and of F, the orders whose lookup fails.  It may run at any time,  *)
(* between two steps of a pass too.                                         *)
(***************************************************************************)
EXTENDS BotPipeline

\* Every order that was recorded has its ledger row, written with it or by
\* _backfill_local_ledger.  (An attempt that failed before a later one of the
\* same approval keeps a row of its own, which can only add a discrepancy.)
Ledgered == {a \in Approvals : row[a] # "none"}
HasOrderId == {a \in Ledgered : row[a] \notin {"error", "error_ambiguous"}}
LookedUp(F) == HasOrderId \ F

\* Broken twin of Protected: an order that was not found is as good as one.
ProtectedOfLedger(F) ==
  {s \in Symbols : \E a \in Lots(s) : prot[a] > 0}
    \union {app[a] : a \in HasOrderId}

\* _protected_symbols of the open orders and of every bracket looked up: a
\* bracket has its stop leg, whatever has become of that.
Protected(F) ==
  {s \in Symbols : \E a \in Lots(s) : prot[a] > 0}
    \union {app[a] : a \in {b \in LookedUp(F) : app[b] \in Stocks}}

InPosition(a) == HeldOf(app[a]) > 0

\* The cases of run that find fault with one row.
LookupFailed(a, F) == a \in HasOrderId \intersect F
OpenUnsupported(a, F) ==
  /\ trd[a] = 0 /\ pos[a] = "open"
  /\ ~InPosition(a) \/ app[a] \notin Protected(F)
PendingOver(a, F) ==
  /\ trd[a] = 0 /\ pos[a] = "pending"
  /\ a \in LookedUp(F) /\ ent[a] = "canceled"

\* Broken twin of HeldUnexplained: a row without a position needs no look at
\* the account.
HeldUnexplainedNever(a) == FALSE
HeldUnexplained(a) ==
  /\ trd[a] = 0 /\ pos[a] \notin {"open", "pending"}
  /\ InPosition(a)

Discrepancy(a, F) ==
  \/ LookupFailed(a, F) \/ OpenUnsupported(a, F)
  \/ PendingOver(a, F) \/ HeldUnexplained(a)

\* What the broker holds and the ledger has never heard of.
Unledgered == {s \in Symbols : HeldOf(s) > 0 /\ Lots(s) \intersect Ledgered = {}}

\* safe_for_scheduler_change.
Safe(F) == (\A a \in Ledgered : ~Discrepancy(a, F)) /\ Unledgered = {}

(***************************************************************************)
(* What "safe" is worth.                                                    *)
(***************************************************************************)
Recorded(s) == \A a \in Lots(s) : ent[a] # "none" => row[a] # "none"
Backed(s) == \E a \in Lots(s) : pos[a] \in {"open", "pending"}
Covered(s) == Reserved(s) >= HeldOf(s)

\* The broker holds nothing of a safe report that no open or pending
\* position accounts for, if entries fill in one piece and each of the
\* symbol's orders was recorded.
SafeMeansBacked ==
  \A F \in SUBSET Approvals : Safe(F) /\ "partial" \notin faults =>
    \A s \in Symbols : HeldOf(s) > 0 /\ Recorded(s) => Backed(s)

\* Nor any crypto unit that no resting stop covers, under the same two
\* conditions: the guard against monitor_node.py:977 leaving a lot bare.
SafeMeansCovered ==
  \A F \in SUBSET Approvals : Safe(F) /\ "partial" \notin faults =>
    \A s \in Cryptos : HeldOf(s) > 0 /\ Recorded(s) => Covered(s)

\* "broker position has no verified protective stop"
\* (evaluation_reconciliation_node.py:260) is a discrepancy: a safe report
\* between two passes has a resting stop or close for every open position.
SafeMeansProtected ==
  \A F \in SUBSET Approvals :
    Safe(F) /\ (\A p \in Passes : pc[p] = "idle") =>
      \A a \in Approvals : pos[a] = "open" =>
        app[a] \in closing \/ \E b \in Lots(app[a]) : prot[b] > 0
=============================================================================
