---------------------------- MODULE AlpacaBroker ----------------------------
(***************************************************************************)
(* The paper-trading broker as live_slc uses it.  Its code is not in this   *)
(* repository: every definition below is read off the calls live_slc makes  *)
(* and the answers its code is written to handle.                           *)
(*                                                                          *)
(* Each symbol carries at most one signal per session (reducer.py), hence   *)
(* one bracket entry, one pair of bracket legs and one deterministic exit   *)
(* order.  Positions are long; a negative holding is an accidental short.   *)
(***************************************************************************)
EXTENDS Integers, FiniteSets

CONSTANTS
  Symbols,      \* the universe of traded symbols
  Qty,          \* shares one entry asks for
  MaxReplaces,  \* how often a take-profit leg may be replaced (bound)
  Faults,       \* the kinds of misfortune this instance explores
  MaxFaults     \* how many of them may happen in one behaviour (bound)

FaultKinds == {"crash", "net", "read", "partial", "expire", "noleg", "race"}

ASSUME BrokerAssumption ==
  /\ Qty \in Nat \ {0}
  /\ MaxReplaces \in Nat
  /\ Faults \subseteq FaultKinds
  /\ MaxFaults \in Nat

VARIABLES
  entry,    \* [Symbols -> EntryStatus] the bracket's parent order
  fill,     \* [Symbols -> 0..Qty]      shares the parent has filled
  oco,      \* [Symbols -> LegStatus]   the stop/target pair under it
  tid,      \* [Symbols -> Nat]         id of the current take-profit leg
  exit,     \* [Symbols -> ExitStatus]  the order under the "exit" client id
  exitQty,  \* [Symbols -> 0..Qty]      shares that order is for
  faults    \* misfortunes so far

brokerVars == <<entry, fill, oco, tid, exit, exitQty>>

EntryStatus == {"none", "live", "cancelling", "filled", "canceled"}
LegStatus   == {"none", "held", "live", "cancelling", "canceled",
                "stop_filled", "target_filled"}
ExitStatus  == {"none", "live", "filled", "canceled"}
TargetIds   == 1 .. MaxReplaces + 1   \* 0 stands for "no target id"

BrokerTypeOK ==
  /\ entry \in [Symbols -> EntryStatus]
  /\ fill \in [Symbols -> 0 .. Qty]
  /\ oco \in [Symbols -> LegStatus]
  /\ tid \in [Symbols -> TargetIds]
  /\ exit \in [Symbols -> ExitStatus]
  /\ exitQty \in [Symbols -> 0 .. Qty]
  /\ faults \in 0 .. MaxFaults

BrokerInit ==
  /\ entry = [s \in Symbols |-> "none"]
  /\ fill = [s \in Symbols |-> 0]
  /\ oco = [s \in Symbols |-> "none"]
  /\ tid = [s \in Symbols |-> 1]
  /\ exit = [s \in Symbols |-> "none"]
  /\ exitQty = [s \in Symbols |-> 0]
  /\ faults = 0

(***************************************************************************)
(* A misfortune of kind k happens: it uses up one unit of the budget.       *)
(***************************************************************************)
Fault(k) == /\ k \in Faults
            /\ faults < MaxFaults
            /\ faults' = faults + 1

NoFault == UNCHANGED faults

(***************************************************************************)
(* What the broker answers to live_slc's reads.                             *)
(***************************************************************************)
SoldByLegs(s) == IF oco[s] \in {"stop_filled", "target_filled"}
                 THEN fill[s] ELSE 0
SoldByExit(s) == IF exit[s] = "filled" THEN exitQty[s] ELSE 0

\* get_all_positions / get_open_position: the signed position of symbol s.
Held(s) == fill[s] - SoldByLegs(s) - SoldByExit(s)

EntryResting(s) == entry[s] \in {"live", "cancelling"}

\* The legs still reserve the shares: a further sell is refused.
LegsResting(s) == oco[s] \in {"held", "live", "cancelling"}

\* The stop leg's own status is not canceled, expired or rejected.
StopLegLive(s) == LegsResting(s) \/ oco[s] = "stop_filled"

\* The stop leg reads "canceled": on its own, or because its sibling filled.
StopReadsCanceled(s) == oco[s] \in {"canceled", "target_filled"}

\* get_orders(ALL, today): what account_wide_entries_today counts.
ConsumesEntrySlot(s) == EntryResting(s) \/ fill[s] > 0

(***************************************************************************)
(* What the market and the broker do on their own.                          *)
(***************************************************************************)
EntryFills(s) ==
  /\ EntryResting(s)
  /\ entry' = [entry EXCEPT ![s] = "filled"]
  /\ fill' = [fill EXCEPT ![s] = Qty]
  /\ \/ /\ oco' = [oco EXCEPT ![s] = IF @ \in {"none", "held"}
                                     THEN "live" ELSE @]
        /\ NoFault
     \/ /\ Fault("noleg")                 \* the anomaly the code tests for
        /\ oco[s] \in {"none", "held"}
        /\ oco' = [oco EXCEPT ![s] = "canceled"]
  /\ UNCHANGED <<tid, exit, exitQty>>

EntryFillsPartly(s) ==
  /\ EntryResting(s)
  /\ fill[s] + 1 < Qty
  /\ Fault("partial")
  /\ fill' = [fill EXCEPT ![s] = @ + 1]
  /\ oco' = [oco EXCEPT ![s] = IF @ = "none" THEN "held" ELSE @]
  /\ UNCHANGED <<entry, tid, exit, exitQty>>

\* A cancel request takes effect, or the order expires on its own; the legs
\* under a partial fill become active for the filled shares.
EntryEnds(s) ==
  /\ \/ entry[s] = "cancelling" /\ NoFault
     \/ entry[s] = "live" /\ Fault("expire")
  /\ entry' = [entry EXCEPT ![s] = "canceled"]
  /\ oco' = [oco EXCEPT ![s] = IF @ = "held" THEN "live" ELSE @]
  /\ UNCHANGED <<fill, tid, exit, exitQty>>

StopFills(s) ==
  /\ oco[s] \in {"live", "cancelling"}
  /\ oco' = [oco EXCEPT ![s] = "stop_filled"]
  /\ UNCHANGED <<entry, fill, tid, exit, exitQty>> /\ NoFault

TargetFills(s) ==
  /\ oco[s] \in {"live", "cancelling"}
  /\ oco' = [oco EXCEPT ![s] = "target_filled"]
  /\ UNCHANGED <<entry, fill, tid, exit, exitQty>> /\ NoFault

LegsEnd(s) ==
  /\ \/ oco[s] = "cancelling" /\ NoFault
     \/ oco[s] = "live" /\ Fault("expire")
  /\ oco' = [oco EXCEPT ![s] = "canceled"]
  /\ UNCHANGED <<entry, fill, tid, exit, exitQty>>

ExitFills(s) ==
  /\ exit[s] = "live"
  /\ exit' = [exit EXCEPT ![s] = "filled"]
  /\ UNCHANGED <<entry, fill, oco, tid, exitQty>> /\ NoFault

ExitEnds(s) ==
  /\ exit[s] = "live"
  /\ Fault("expire")
  /\ exit' = [exit EXCEPT ![s] = "canceled"]
  /\ UNCHANGED <<entry, fill, oco, tid, exitQty>>

BrokerMoves(s) ==
  \/ EntryFills(s) \/ EntryFillsPartly(s) \/ EntryEnds(s)
  \/ StopFills(s) \/ TargetFills(s) \/ LegsEnd(s)
  \/ ExitFills(s) \/ ExitEnds(s)

(***************************************************************************)
(* Calls that change the broker's state.                                    *)
(***************************************************************************)
\* submit_order of the bracket is accepted.
AcceptEntry(s) ==
  /\ entry[s] = "none"
  /\ entry' = [entry EXCEPT ![s] = "live"]
  /\ UNCHANGED <<fill, oco, tid, exit, exitQty>>

\* cancel_order_by_id of the resting parent.
AcceptEntryCancel(s) ==
  /\ EntryResting(s)
  /\ entry' = [entry EXCEPT ![s] = "cancelling"]
  /\ UNCHANGED <<fill, oco, tid, exit, exitQty>>

\* cancel_order_by_id of the stop leg: its sibling goes with it, at once or
\* ("race") only after a while, in which either leg may still fill.  A held
\* leg belongs to a parent that is still filling, which may go on filling.
AcceptStopCancel(s) ==
  /\ LegsResting(s)
  /\ \/ oco' = [oco EXCEPT ![s] = "canceled"] /\ NoFault
     \/ /\ oco[s] # "held" /\ Fault("race")
        /\ oco' = [oco EXCEPT ![s] = "cancelling"]
  /\ \/ UNCHANGED entry
     \/ oco[s] = "held" /\ entry' = [entry EXCEPT ![s] = "canceled"]
  /\ UNCHANGED <<fill, tid, exit, exitQty>>

\* replace_order_by_id of the take-profit leg known as id: a new id, the stop
\* stays linked.  Replacing any other id is refused.
TargetReplaceable(s, id) ==
  oco[s] = "live" /\ id = tid[s] /\ tid[s] <= MaxReplaces

AcceptTargetReplace(s, id) ==
  /\ TargetReplaceable(s, id)
  /\ tid' = [tid EXCEPT ![s] = @ + 1]
  /\ UNCHANGED <<entry, fill, oco, exit, exitQty>>

\* submit_order of the market close under the deterministic exit client id.
AcceptExit(s, q) ==
  /\ exit[s] = "none"
  /\ ~LegsResting(s)
  /\ exit' = [exit EXCEPT ![s] = "live"]
  /\ exitQty' = [exitQty EXCEPT ![s] = q]
  /\ UNCHANGED <<entry, fill, oco, tid>>
=============================================================================
