------------------------------ MODULE SlcEntry ------------------------------
(***************************************************************************)
(* The entry half of run_cycle: admission of the cycle's confirmations and  *)
(* _process_admitted_confirmation, paper_active.                            *)
(***************************************************************************)
EXTENDS SlcClosing

CONSTANTS
  MaxEntries,    \* risk.SLC_MAX_NEW_TRADES_PER_DAY
  MaxPositions   \* risk.SLC_MAX_POSITIONS

ASSUME EntryAssumption == MaxEntries \in Nat /\ MaxPositions \in Nat

(***************************************************************************)
(* Admission.                                                               *)
(***************************************************************************)
EntriesToday == Cardinality({s \in Symbols : ConsumesEntrySlot(s)})
OpenPositions == Cardinality({s \in Symbols : Held(s) # 0})

\* check_new_entry_capacity, but for the count of positions.
SymbolFree(s) == Held(s) = 0 /\ ~ConsumesEntrySlot(s)

\* Broken twin of Room: the limits are checked against the snapshot alone.
RoomBySnapshot(adm) == /\ adm # {} => EntriesToday < MaxEntries
                       /\ adm # {} => OpenPositions < MaxPositions

\* select_within_capacity: room for the symbols adm beside what the snapshot
\* shows, by remaining_daily_entry_slots and by SLC_MAX_POSITIONS.
Room(adm) == /\ EntriesToday + Cardinality(adm) <= MaxEntries
             /\ OpenPositions + Cardinality(adm) <= MaxPositions

SelectWithinCapacity(fit) ==
  {adm \in SUBSET fit : /\ adm = {} \/ Room(adm)
                        /\ \A s \in fit \ adm : ~Room(adm \union {s})}

\* Some cycle's confirmations: each delivery of a signal is counted.
Deliver(conf) ==
  signals' = [s \in Symbols |-> IF s \in conf THEN signals[s] + 1 ELSE signals[s]]

Deliverable == {s \in Symbols : signals[s] < MaxSignals}

\* Confirmations arrive, are ranked (the order is left open) and are admitted
\* while there is room, judged by one read of the broker; none is after the
\* entry cutoff, in a daily-loss halt or without today's preflight.
Admit ==
  /\ At("admit")
  /\ \E conf \in SUBSET Deliverable :
       /\ Deliver(conf)
       /\ \E adm \in {{}} \union SelectWithinCapacity({s \in conf : SymbolFree(s)}) :
            Loop("entry", adm, NothingHeld)
  /\ BrokerQuiet /\ NoFault /\ StoreQuiet

\* AccountSnapshotUnusable: every confirmation of the cycle is skipped.
AdmitBlind ==
  /\ At("admit")
  /\ Fault("read")
  /\ \E conf \in SUBSET Deliverable : Deliver(conf)
  /\ Halt /\ BrokerQuiet /\ StoreQuiet

(***************************************************************************)
(* The candidate loop and the checks before submission.                     *)
(***************************************************************************)
\* Every candidate left is skipped: the block is rechecked before each one.
EntryBlocked ==
  /\ At("entry") /\ todo # {}
  /\ EntriesBlocked
  /\ Halt /\ BrokerQuiet /\ NoFault /\ StoreQuiet

EntriesDone ==
  /\ At("entry") /\ todo = {}
  /\ Halt /\ BrokerQuiet /\ NoFault /\ StoreQuiet

\* Broken twin of NextCandidate: the block is not rechecked per candidate.
NextCandidateUnchecked ==
  /\ At("entry")
  /\ \E s \in todo : Take(s, "presubmit", NothingSeen)
  /\ BrokerQuiet /\ NoFault /\ StoreQuiet

NextCandidate ==
  /\ At("entry")
  /\ ~EntriesBlocked
  /\ \E s \in todo : Take(s, "presubmit", NothingSeen)
  /\ BrokerQuiet /\ NoFault /\ StoreQuiet

\* Not shortable, no fresh quote, no account, no capacity any more, invalid
\* bracket, zero size, or the id is already known to the broker.
SkipCandidate ==
  /\ At("presubmit")
  /\ Back("entry") /\ BrokerQuiet /\ NoFault /\ StoreQuiet

ReconcileUnreachable ==
  /\ At("presubmit")
  /\ SymbolFree(cur) /\ OpenPositions < MaxPositions
  /\ Fault("read")
  /\ SetOrder(cur, "ambiguous_submission")
  /\ Halt /\ BrokerQuiet

\* Broken twin of RecordIntent: the order is sent before it is on record.
RecordIntentLater ==
  /\ At("presubmit")
  /\ SymbolFree(cur) /\ OpenPositions < MaxPositions
  /\ entry[cur] = "none"
  /\ Goto("submit") /\ BrokerQuiet /\ NoFault /\ StoreQuiet

\* The client id is provably unknown to the broker: the intent is committed
\* before anything is sent.
RecordIntent ==
  /\ At("presubmit")
  /\ SymbolFree(cur) /\ OpenPositions < MaxPositions
  /\ entry[cur] = "none"
  /\ SetOrder(cur, "submission_intent_pending")
  /\ Goto("submit") /\ BrokerQuiet /\ NoFault

(***************************************************************************)
(* submit_bracket_entry and the row it leaves.                              *)
(***************************************************************************)
SubmitAccepted ==
  /\ At("submit")
  /\ AcceptEntry(cur)
  /\ Goto("ack") /\ NoFault /\ StoreQuiet

\* No confirmed answer: the order may or may not exist.
SubmitAnswerLost ==
  /\ At("submit")
  /\ AcceptEntry(cur) \/ BrokerQuiet
  /\ Fault("net")
  /\ Goto("amb") /\ StoreQuiet

\* 400, 403 or 422: raised before any order exists.
SubmitRejected ==
  /\ At("submit")
  /\ Goto("rej") /\ BrokerQuiet /\ NoFault /\ StoreQuiet

RowSubmitted ==
  /\ At("ack")
  /\ SetOrder(cur, "submitted")
  /\ Goto("poll") /\ BrokerQuiet /\ NoFault

\* Broken twin of RowAmbiguous: a lost answer is taken for a rejection.
RowAmbiguousAsRejected ==
  /\ At("amb")
  /\ SetOrder(cur, "confirmed_rejected")
  /\ Back("entry") /\ BrokerQuiet /\ NoFault

RowAmbiguous ==
  /\ At("amb")
  /\ SetOrder(cur, "ambiguous_submission")
  /\ Halt /\ BrokerQuiet /\ NoFault

RowRejected ==
  /\ At("rej")
  /\ SetOrder(cur, "confirmed_rejected")
  /\ Back("entry") /\ BrokerQuiet /\ NoFault

(***************************************************************************)
(* Watching the fill.                                                       *)
(***************************************************************************)
Observe(s) == [qty |-> fill[s], stop |-> StopLegLive(s),
               tgt |-> IF entry[s] = "filled" THEN tid[s] ELSE 0]

\* The branch on the order as it was last read: no fill and terminal, a fill
\* of the whole size, or any other fill.
Branch ==
  LET o == Observe(cur) IN
  /\ pc' = IF fill[cur] = 0 THEN "unfilled"
           ELSE IF entry[cur] = "filled" THEN "f_row" ELSE "p_open"
  /\ obs' = IF fill[cur] = 0 THEN NothingSeen ELSE o
  /\ UNCHANGED <<stage, cur, todo, seen, ret, done, bad>>

PollFill ==
  /\ At("poll")
  /\ IF EntryResting(cur) /\ fill[cur] = 0 THEN Goto("cancel") ELSE Branch
  /\ BrokerQuiet /\ NoFault /\ StoreQuiet

\* The cancel request may be refused or fail: either is ignored.
CancelUnfilled ==
  /\ At("cancel")
  /\ \/ AcceptEntryCancel(cur) /\ NoFault
     \/ ~EntryResting(cur) /\ BrokerQuiet /\ NoFault
     \/ BrokerQuiet /\ Fault("net")
  /\ Goto("confirm") /\ StoreQuiet

ConfirmUnfilled ==
  /\ At("confirm")
  /\ IF EntryResting(cur) /\ fill[cur] = 0 THEN Goto("unres") ELSE Branch
  /\ BrokerQuiet /\ NoFault /\ StoreQuiet

RowUnresolved ==
  /\ At("unres")
  /\ SetOrder(cur, "submitted_unresolved")
  /\ Halt /\ BrokerQuiet /\ NoFault

RowUnfilled ==
  /\ At("unfilled")
  /\ SetOrder(cur, "canceled_unfilled")
  /\ Back("entry") /\ BrokerQuiet /\ NoFault

(***************************************************************************)
(* A partial fill: opened, degraded, flattened at once.                     *)
(***************************************************************************)
PartialOpen ==
  /\ At("p_open")
  /\ OpenPosition(cur, "open", [obs EXCEPT !.tgt = 0])
  /\ Goto("p_degrade") /\ BrokerQuiet /\ NoFault

PartialDegrade ==
  /\ At("p_degrade")
  /\ SetPosition(cur, "protected_degraded")
  /\ Goto("p_row") /\ BrokerQuiet /\ NoFault

PartialUnresolved ==
  /\ At("p_row")
  /\ SetOrder(cur, "submitted_unresolved")
  /\ Call("x_cancel", cur, "partial") /\ UNCHANGED todo
  /\ BrokerQuiet /\ NoFault

PartialResult ==
  /\ pc \in {"part_flat", "part_open"}
  /\ SetOrder(cur, "partial_fill_result")
  /\ IF pc = "part_flat"
     THEN Call("close_row", cur, "entry") /\ UNCHANGED todo
     ELSE Halt
  /\ BrokerQuiet /\ NoFault

(***************************************************************************)
(* A full fill: row, position, post-fill checks, target at exactly 2R.      *)
(***************************************************************************)
FullRow ==
  /\ At("f_row")
  /\ SetOrder(cur, "filled")
  /\ Goto("f_open") /\ BrokerQuiet /\ NoFault

FullOpen ==
  /\ At("f_open")
  /\ OpenPosition(cur, "open", obs)
  /\ Goto("f_check") /\ BrokerQuiet /\ NoFault

\* Equity, monetary risk and geometry may each fail; a missing stop does.
FullCheck ==
  /\ At("f_check")
  /\ \/ obs.stop /\ Goto("f_replace")
     \/ Goto("f_degrade")
  /\ BrokerQuiet /\ NoFault /\ StoreQuiet

FullDegrade ==
  /\ At("f_degrade")
  /\ SetPosition(cur, "protected_degraded")
  /\ Call("x_cancel", cur, "full") /\ UNCHANGED todo
  /\ BrokerQuiet /\ NoFault

ReplaceTarget ==
  /\ At("f_replace")
  /\ AcceptTargetReplace(cur, obs.tgt)
  /\ \/ Goto("f_verify") /\ NoFault
     \/ Goto("f_unconf") /\ Fault("net")
  /\ StoreQuiet

ReplaceTargetFails ==
  /\ At("f_replace")
  /\ \/ ~TargetReplaceable(cur, obs.tgt) /\ NoFault
     \/ Fault("net")
  /\ Goto("f_unconf") /\ BrokerQuiet /\ StoreQuiet

\* verify_target_replacement: the new leg must still be working.
VerifyTarget ==
  /\ At("f_verify")
  /\ \/ oco[cur] = "live" /\ Goto("f_ids") /\ NoFault
     \/ oco[cur] # "live" /\ Goto("f_unconf") /\ NoFault
     \/ Goto("f_unconf") /\ Fault("read")
  /\ BrokerQuiet /\ StoreQuiet

FullProtected ==
  /\ At("f_ids")
  /\ SaveTargetAndOpen(cur, tid[cur])
  /\ Back("entry") /\ BrokerQuiet /\ NoFault

FullUnconfirmed ==
  /\ At("f_unconf")
  /\ SetPosition(cur, "protected_degraded")
  /\ Halt /\ BrokerQuiet /\ NoFault

Admission == Admit \/ AdmitBlind

Pipeline ==
  \/ EntryBlocked \/ EntriesDone \/ NextCandidate
  \/ SkipCandidate \/ ReconcileUnreachable \/ RecordIntent
  \/ SubmitAccepted \/ SubmitAnswerLost \/ SubmitRejected
  \/ RowSubmitted \/ RowAmbiguous \/ RowRejected
  \/ PollFill \/ CancelUnfilled \/ ConfirmUnfilled
  \/ RowUnresolved \/ RowUnfilled
  \/ PartialOpen \/ PartialDegrade \/ PartialUnresolved \/ PartialResult
  \/ FullRow \/ FullOpen \/ FullCheck \/ FullDegrade
  \/ ReplaceTarget \/ ReplaceTargetFails \/ VerifyTarget
  \/ FullProtected \/ FullUnconfirmed
=============================================================================
