----------------------- MODULE SlcLifecycleProperties -----------------------
(***************************************************************************)
(* The properties of SlcOrderLifecycle: what holds through every crash and  *)
(* misfortune, what holds under named assumptions, and what the comments of *)
(* run_slc_live.py and closeout.py say but the code does not keep.          *)
(***************************************************************************)
EXTENDS SlcOrderLifecycle

(***************************************************************************)
(* Safety.                                                                  *)
(***************************************************************************)
\* A row that claims no entry (there is none, it was rejected, or it was canceled
\* unfilled) is right: no shares and no resting order hide behind it.
\* run_slc_live.py records the intent before submitting and calls a submission
\* rejected only on proof.  The fourth such claim, confirmed_no_order_resulted, is
\* not among them: NoOrderMeansNeverFilled is about it, and does not hold.
RowNeverUnderstates ==
  \A s \in Symbols :
    order[s] \in {"none", "confirmed_rejected", "canceled_unfilled"}
      => fill[s] = 0 /\ ~EntryResting(s)

\* A position is closed in the store only when the broker has filled exits
\* for at least the quantity of its row.
ClosedMeansExited ==
  \A s \in Symbols : pos[s] = "closed"
                       => SoldByLegs(s) + SoldByExit(s) >= posQty[s]

\* The account takes no more entries in a session than the daily limit, also
\* when orders of a crashed cycle are still resting at the broker.
EntrySlotsHold == EntriesToday <= MaxEntries

\* A filled bracket without a live protective leg is never left on record as a
\* healthy position (run_slc_live.py:1941-1945).  A process that dies between the
\* row (1912) and the check (1946) does leave one.
OpenHasStop ==
  pc = "idle" => \A s \in Symbols : pos[s] = "open" => posStop[s]

(***************************************************************************)
(* Action properties.                                                       *)
(***************************************************************************)
\* An entry reaches the broker only while the store shows no degraded or
\* ambiguous position, no unresolved order of another symbol and no orphan.
EntryWhileUnclean ==
  \E s \in Symbols :
    /\ entry[s] = "none" /\ entry'[s] # "none"
    /\ \/ audit # {}
       \/ \E o \in Symbols : \/ pos[o] \in {"protected_degraded", "ambiguous"}
                             \/ o # s /\ order[o] \in AmbiguousOrder
EntriesOnlyWhenClean == [][~EntryWhileUnclean]_vars

\* A market close is sent only for a position the store calls its own: never
\* for one of ambiguous ownership, a closed one or none.
ExitOnlyForOwned ==
  [][\A s \in Symbols : exit[s] = "none" /\ exit'[s] # "none"
                          => pos[s] \in {"open", "protected_degraded"}]_vars

\* A closed position is reopened, if at all, by the delayed reconciliation of
\* a preflight: no cycle and no closeout revives one.
OnlyPreflightReopens ==
  [][\A s \in Symbols : pos[s] = "closed" /\ pos'[s] # "closed"
                          => stage = "preflight"]_vars

\* The closeout reports the broker flat only when every position the store
\* tracks, ambiguous ones included, is flat at the broker.
FlatCoversTracked ==
  [][ReadBack /\ flatStat' = "true"
       => \A s \in Symbols : pos[s] \in Tracked => Held(s) = 0]_vars

(***************************************************************************)
(* What the code's comments say and the code does not keep.                 *)
(***************************************************************************)
\* "Never filled -> confirmed_no_order_resulted" (run_slc_live.py:731): the delayed
\* reconciliation gives up on an order only when nothing of it has filled.  In the
\* code (736) a partly filled order that was then canceled is given up as well.
NoOrderMeansNeverFilled ==
  [][\A s \in Symbols :
       order'[s] = "confirmed_no_order_resulted" /\ order[s] # order'[s]
         => fill[s] = 0]_vars

(***************************************************************************)
(* Liveness.                                                                *)
(***************************************************************************)
\* An order in an ambiguous state is eventually resolved by a preflight.
UnresolvedIsResolved ==
  \A s \in Symbols : order[s] \in AmbiguousOrder
                       ~> order[s] \notin AmbiguousOrder

\* Every position the runner opened is eventually closed, or set aside as
\* ambiguous: run_closeout_stage is "the guaranteed backstop".
GuardianFinishes ==
  \A s \in Symbols : pos[s] \in {"open", "protected_degraded"}
                       ~> pos[s] \in {"closed", "ambiguous"}

(***************************************************************************)
(* The abstract ledger this specification implements.                       *)
(***************************************************************************)
Sold(s) == oco[s] \in {"stop_filled", "target_filled"} \/ exit[s] = "filled"

Ledger == INSTANCE SlcTradeLedger WITH
  intended <- {s \in Symbols : order[s] # "none"},
  placed   <- {s \in Symbols : entry[s] # "none"},
  exited   <- {s \in Symbols : Sold(s)},
  booked   <- {s \in Symbols : trade[s]}

\* The runner implements the ledger: one entry per signal and only after its
\* intent, one booked trade and only after a filled exit.
LedgerSpec == Ledger!LedgerSpec

(***************************************************************************)
(* The inductive invariant of SlcOrderLifecycle: what each step of a stage  *)
(* may rely on.  Every conjunct names the code position whose assumption it *)
(* is; SlcLifecycleProofs shows that together they are preserved.           *)
(***************************************************************************)
SoldQty(s) == SoldByLegs(s) + SoldByExit(s)
Owned == {s \in Symbols : pos[s] \in {"open", "protected_degraded"}}
Opened == {s \in Symbols : pos[s] # "none"}
SoldOut == {s \in Opened : Sold(s) /\ SoldQty(s) >= posQty[s]}

\* The routine cancel_then_confirm_then_close, and _mark_position_closed.
Flattening == {"x_cancel", "x_confirm", "x_submit", "x_poll", "x_flat"}
Marking == {"close_row", "close_trade"}

\* A loop l is running: at its head, or in a routine that returns to it.
Within(l) == pc = l \/ (pc \in Marking /\ ret = l)
Guarding == pc = "guard" \/ (pc \in Flattening /\ ret = "closeout")

(***************************************************************************)
(* The store and the broker, at any time.                                   *)
(***************************************************************************)
\* Nothing exists under a symbol whose entry never reached the broker.
NothingBeforeEntry ==
  \A s \in Symbols : entry[s] = "none"
    => fill[s] = 0 /\ oco[s] = "none" /\ exit[s] = "none" /\ pos[s] = "none"

\* What the order row claims of the broker.
OrderRowsTrue ==
  \A s \in Symbols :
    /\ order[s] \in {"none", "confirmed_rejected"} => entry[s] = "none"
    /\ order[s] = "canceled_unfilled" => fill[s] = 0 /\ ~EntryResting(s)

\* A position row never holds more than was filled, a closed one never more
\* than was sold, and a booked trade was sold.
PositionRowsTrue ==
  \A s \in Symbols :
    /\ pos[s] # "none" => posQty[s] <= fill[s]
    /\ pos[s] = "closed" => s \in SoldOut
    /\ trade[s] => Sold(s)

(***************************************************************************)
(* The entry pipeline.                                                      *)
(***************************************************************************)
\* The steps that handle one symbol have one at hand.
HandlesOne ==
  /\ pc \in CloseSteps \union (EntrySteps \ {"admit", "entry"})
       \union {"deg_poll", "r_open", "r_flag"} => cur \in Symbols
  /\ pc = "idle" <=> stage = "idle"
  /\ pc \in PreflightSteps => stage = "preflight"

\* The intent is on record and nothing is at the broker until the submit call.
IntentFirst ==
  /\ pc \in {"submit", "rej"} => entry[cur] = "none"
  /\ pc \in {"submit", "rej", "ack", "amb"}
       => order[cur] = "submission_intent_pending"
  /\ pc \in {"ack", "poll", "cancel", "confirm", "unres"} => entry[cur] # "none"
  /\ pc = "unfilled" => fill[cur] = 0 /\ entry[cur] \in {"filled", "canceled"}

\* The store is clean when a candidate is taken up, but for its own intent
\* when its order is sent.
CleanAtSubmit ==
  /\ pc = "presubmit" => ~EntriesBlocked
  /\ pc = "submit" =>
       /\ audit = {}
       /\ \A o \in Symbols : /\ pos[o] \notin {"protected_degraded", "ambiguous"}
                             /\ o # cur => order[o] \notin AmbiguousOrder

\* A fresh entry has no position row until the pipeline opens it, and keeps
\* the row the pipeline gave it.
FreshPosition ==
  /\ pc \in {"submit", "ack", "poll", "cancel", "confirm", "p_open", "f_row", "f_open"}
       => pos[cur] = "none"
  /\ pc \in {"p_degrade", "p_row", "f_check", "f_degrade", "f_replace", "f_verify",
             "f_ids", "f_unconf"} => cur \in Owned
  /\ pc \in {"p_open", "f_open", "f_row", "r_open"}
       => entry[cur] # "none" /\ obs.qty <= fill[cur]
  /\ pc = "r_flag" => pos[cur] = "open"

(***************************************************************************)
(* The shared closing routines and the loops that call them.                *)
(***************************************************************************)
ReturnsRight ==
  /\ pc \in Flattening => ret \in {"partial", "full", "closeout"}
  /\ pc \in Marking => ret \in {"entry", "reconcile", "degraded", "mark"}

ClosesOwned ==
  /\ pc \in {"x_cancel", "x_confirm", "x_submit"} => cur \in Owned
  /\ pc \in {"x_poll", "x_flat", "deg_poll"} => cur \in Opened
  /\ Within("reconcile") \/ Guarding => todo \subseteq Owned
  /\ Within("degraded") \/ pc = "deg_poll" => todo \subseteq Opened
  /\ pc \in Marking /\ ret = "reconcile" => cur \notin todo

\* A routine that marks a position closed does so on evidence; what the
\* orphan check saw was really filled.
ClosesSold ==
  /\ pc = "x_flat" => exit[cur] = "filled"
  /\ pc \in Marking \union {"part_flat"} => cur \in SoldOut
  /\ done # {} => Guarding \/ Within("mark") \/ pc = "readback"
  /\ done \subseteq SoldOut
  /\ Within("mark") => todo \subseteq SoldOut
  /\ pc = "adopt" => \A s \in Symbols : seen[s] <= fill[s]

\* The guardian loses no tracked position between its query and its readback.
GuardianAccounts ==
  Guarding \/ Within("mark") \/ pc = "readback" =>
    \A s \in Symbols : pos[s] \in Tracked =>
      \/ s \in done \union bad
      \/ Guarding /\ s \in todo
      \/ pc \in Flattening /\ s = cur

Safe == /\ NothingBeforeEntry /\ OrderRowsTrue /\ PositionRowsTrue
        /\ HandlesOne /\ IntentFirst /\ CleanAtSubmit /\ FreshPosition
        /\ ReturnsRight /\ ClosesOwned /\ ClosesSold /\ GuardianAccounts

IInv == TypeOK /\ Safe
=============================================================================
