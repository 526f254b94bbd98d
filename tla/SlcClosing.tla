----------------------------- MODULE SlcClosing -----------------------------
(***************************************************************************)
(* The two routines every path out of a position shares:                    *)
(* execution.cancel_then_confirm_then_close and                             *)
(* run_slc_live._mark_position_closed.                                      *)
(***************************************************************************)
EXTENDS SlcProcess

(***************************************************************************)
(* What the caller does with the CloseOutcome.  "partial" and "full" are    *)
(* the two flattening paths of _process_admitted_confirmation, "closeout"   *)
(* is run_closeout's loop.                                                  *)
(***************************************************************************)
Outcome(flat) ==
  \/ /\ ret = "partial"
     /\ Goto(IF flat THEN "part_flat" ELSE "part_open")
  \/ /\ ret = "full"
     /\ IF flat THEN Call("close_row", cur, "entry") /\ UNCHANGED todo
                ELSE Halt      \* new_blocking_incident: the loop breaks
  \/ /\ ret = "closeout"
     /\ done' = IF flat THEN done \union {cur} ELSE done
     /\ bad' = IF flat THEN bad ELSE bad \union {cur}
     /\ pc' = "guard" /\ cur' = NoSymbol /\ ret' = "none"
     /\ UNCHANGED <<stage, todo, seen, obs>>

(***************************************************************************)
(* The stop's cancel request.  It stands in no try block: the broker's      *)
(* refusal to cancel an order that is already terminal ends the process.    *)
(***************************************************************************)
CloseWithoutStop ==
  /\ At("x_cancel") /\ ~posStop[cur]
  /\ Goto("x_submit") /\ BrokerQuiet /\ NoFault /\ StoreQuiet

CancelStop ==
  /\ At("x_cancel") /\ posStop[cur]
  /\ AcceptStopCancel(cur)
  /\ Goto("x_confirm") /\ StoreQuiet

CancelStopRefused ==
  /\ At("x_cancel") /\ posStop[cur]
  /\ ~LegsResting(cur)
  /\ Halt /\ BrokerQuiet /\ NoFault /\ StoreQuiet

\* Only a stop that reads "canceled" lets the close go on.
ConfirmStopCanceled ==
  /\ At("x_confirm")
  /\ StopReadsCanceled(cur)
  /\ Goto("x_submit") /\ BrokerQuiet /\ NoFault /\ StoreQuiet

StopCancelUnconfirmed ==
  /\ At("x_confirm")
  /\ ~StopReadsCanceled(cur)
  /\ Outcome(FALSE) /\ BrokerQuiet /\ NoFault /\ StoreQuiet

(***************************************************************************)
(* The close order, under its deterministic client id.                      *)
(***************************************************************************)
ExitAlreadyThere ==
  /\ At("x_submit")
  /\ exit[cur] # "none"
  /\ Goto("x_poll") /\ BrokerQuiet /\ NoFault /\ StoreQuiet

SubmitExit ==
  /\ At("x_submit")
  /\ AcceptExit(cur, posQty[cur])
  /\ Goto("x_poll") /\ NoFault /\ StoreQuiet

\* Accepted, but the answer is lost.
SubmitExitLost ==
  /\ At("x_submit")
  /\ AcceptExit(cur, posQty[cur])
  /\ Fault("net")
  /\ Outcome(FALSE) /\ StoreQuiet

\* Refused (the bracket still reserves the shares) or never arrived, or the
\* reconciliation before it could not reach the broker.
SubmitExitFails ==
  /\ At("x_submit")
  /\ \/ exit[cur] = "none" /\ LegsResting(cur) /\ NoFault
     \/ exit[cur] = "none" /\ Fault("net")
     \/ Fault("read")
  /\ Outcome(FALSE) /\ BrokerQuiet /\ StoreQuiet

\* Broken twin of PollExit: flat is inferred from the submission alone.
PollExitTrustsSubmission ==
  /\ At("x_poll")
  /\ Outcome(exit[cur] # "canceled")
  /\ BrokerQuiet /\ NoFault /\ StoreQuiet

\* poll_fill_status gives up at its deadline on an order still resting.
PollExit ==
  /\ At("x_poll")
  /\ IF exit[cur] = "filled" THEN Goto("x_flat") ELSE Outcome(FALSE)
  /\ BrokerQuiet /\ NoFault /\ StoreQuiet

ReadBackFlat ==
  /\ At("x_flat")
  /\ \/ Held(cur) = 0 /\ Outcome(TRUE) /\ NoFault
     \/ Held(cur) # 0 /\ Outcome(FALSE) /\ NoFault
     \/ Outcome(FALSE) /\ Fault("read")
  /\ BrokerQuiet /\ StoreQuiet

(***************************************************************************)
(* _mark_position_closed: the row and the trade are two transactions.       *)
(***************************************************************************)
CloseRow ==
  /\ At("close_row")
  /\ SetPosition(cur, "closed")
  /\ Goto("close_trade") /\ BrokerQuiet /\ NoFault

CloseTrade ==
  /\ At("close_trade")
  /\ WriteTrade(cur)
  /\ Back(ret) /\ BrokerQuiet /\ NoFault

Closing ==
  \/ CloseWithoutStop \/ CancelStop \/ CancelStopRefused
  \/ ConfirmStopCanceled \/ StopCancelUnconfirmed
  \/ ExitAlreadyThere \/ SubmitExit \/ SubmitExitLost \/ SubmitExitFails
  \/ PollExit \/ ReadBackFlat
  \/ CloseRow \/ CloseTrade
=============================================================================
