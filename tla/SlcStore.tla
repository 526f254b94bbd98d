------------------------------ MODULE SlcStore ------------------------------
(***************************************************************************)
(* live_slc's own SQLite database (live_slc/models.py): the rows the stages *)
(* of run_slc_live.py write about each symbol's one signal of the session.  *)
(* Every helper below is one committed transaction; a crash falls between   *)
(* two of them, never inside one.                                           *)
(***************************************************************************)
EXTENDS AlpacaBroker

VARIABLES
  order,     \* [Symbols -> OrderRow]  SlcOrder.status of the entry order
  pos,       \* [Symbols -> PosRow]    SlcPosition.status
  posQty,    \* [Symbols -> Nat]       SlcPosition.qty
  posStop,   \* [Symbols -> BOOLEAN]   protective_order_id is set
  posTgt,    \* [Symbols -> 0..]       target_order_id (0: none)
  trade,     \* [Symbols -> BOOLEAN]   the position's SlcTrade row exists
  audit,     \* SUBSET Symbols         unresolved orphan audit events
  flatStat   \* closeout_confirmed_flat_by_broker_readback of the session

storeVars == <<order, pos, posQty, posStop, posTgt, trade, audit, flatStat>>
positionVars == <<pos, posQty, posStop, posTgt>>

OrderRow == {"none", "submission_intent_pending", "submitted",
             "ambiguous_submission", "submitted_unresolved",
             "confirmed_rejected", "canceled_unfilled", "partial_fill_result",
             "filled", "confirmed_no_order_resulted"}
PosRow   == {"none", "open", "protected_degraded", "ambiguous", "closed"}

StoreTypeOK ==
  /\ order \in [Symbols -> OrderRow]
  /\ pos \in [Symbols -> PosRow]
  /\ posQty \in [Symbols -> 0 .. Qty]
  /\ posStop \in [Symbols -> BOOLEAN]
  /\ posTgt \in [Symbols -> {0} \union TargetIds]
  /\ trade \in [Symbols -> BOOLEAN]
  /\ audit \subseteq Symbols
  /\ flatStat \in {"none", "true", "false", "unknown"}

StoreInit ==
  /\ order = [s \in Symbols |-> "none"]
  /\ pos = [s \in Symbols |-> "none"]
  /\ posQty = [s \in Symbols |-> 0]
  /\ posStop = [s \in Symbols |-> FALSE]
  /\ posTgt = [s \in Symbols |-> 0]
  /\ trade = [s \in Symbols |-> FALSE]
  /\ audit = {}
  /\ flatStat = "none"

\* _AMBIGUOUS_ORDER_STATUSES: what a later preflight tries to resolve (the
\* fourth, existing_broker_order_detected, is written by dry runs only).
AmbiguousOrder == {"submission_intent_pending", "submitted_unresolved",
                   "ambiguous_submission"}

Tracked == {"open", "protected_degraded", "ambiguous"}

\* system_wide_entry_block_reasons(session) is not empty.
EntriesBlocked ==
  \/ \E s \in Symbols : pos[s] \in {"protected_degraded", "ambiguous"}
  \/ \E s \in Symbols : order[s] \in AmbiguousOrder
  \/ audit # {}

\* _record_order, _update_order_status.
SetOrder(s, status) ==
  /\ order' = [order EXCEPT ![s] = status]
  /\ UNCHANGED <<pos, posQty, posStop, posTgt, trade, audit, flatStat>>

\* Broken twin of OpenPosition: a second opening adds to the quantity.
OpenPositionAccumulates(s, status, ob) ==
  /\ pos' = [pos EXCEPT ![s] = status]
  /\ posQty' = [posQty EXCEPT ![s] = @ + ob.qty]
  /\ posStop' = [posStop EXCEPT ![s] = @ \/ ob.stop]
  /\ posTgt' = [posTgt EXCEPT ![s] = IF ob.tgt = 0 THEN @ ELSE ob.tgt]
  /\ UNCHANGED <<order, trade, audit, flatStat>>

\* _open_position: find-or-update on the signal's key; status, quantity and
\* prices are always overwritten, an order id only when one is given.
OpenPosition(s, status, ob) ==
  /\ pos' = [pos EXCEPT ![s] = status]
  /\ posQty' = [posQty EXCEPT ![s] = ob.qty]
  /\ posStop' = [posStop EXCEPT ![s] = @ \/ ob.stop]
  /\ posTgt' = [posTgt EXCEPT ![s] = IF ob.tgt = 0 THEN @ ELSE ob.tgt]
  /\ UNCHANGED <<order, trade, audit, flatStat>>

\* _mark_position_protected_degraded, _mark_position_ambiguous and
\* _mark_position_reconciliation_ambiguous.
SetPosition(s, status) ==
  /\ pos' = [pos EXCEPT ![s] = status]
  /\ UNCHANGED <<order, posQty, posStop, posTgt, trade, audit, flatStat>>

\* _update_position_order_ids followed by _mark_position_open.
SaveTargetAndOpen(s, id) ==
  /\ posTgt' = [posTgt EXCEPT ![s] = id]
  /\ pos' = [pos EXCEPT ![s] = "open"]
  /\ UNCHANGED <<order, posQty, posStop, trade, audit, flatStat>>

\* _write_trade_from_closed_position: a no-op when the row exists.
WriteTrade(s) ==
  /\ trade' = [trade EXCEPT ![s] = TRUE]
  /\ UNCHANGED <<order, pos, posQty, posStop, posTgt, audit, flatStat>>
=============================================================================
