------------------------- MODULE SlcOrderLifecycle -------------------------
(***************************************************************************)
(* The live_slc runner against the broker: the entry pipeline, the shared   *)
(* closing routines and the recovery stages, one process at a time, which   *)
(* may die between any two broker calls or transactions.                    *)
(***************************************************************************)
EXTENDS SlcEntry, SlcRecovery

\* The process dies, or an exception no try block catches ends it.
Crash ==
  /\ pc # "idle"
  /\ Fault("crash")
  /\ Halt /\ BrokerQuiet /\ StoreQuiet

Broker == /\ \E s \in Symbols : BrokerMoves(s)
          /\ UNCHANGED <<storeVars, signals, procVars>>

Process == \/ Admission
           \/ (Pipeline \/ Closing \/ Recovering) /\ UNCHANGED signals

Init == BrokerInit /\ StoreInit /\ ProcInit

Next == Broker \/ Process \/ (Crash /\ UNCHANGED signals)

Spec == Init /\ [][Next]_vars

(***************************************************************************)
(* Fairness.  A running stage takes its next step (run_slc_live.py never    *)
(* waits without a deadline); the task scheduler starts every stage again   *)
(* and again; the broker completes what is pending.                         *)
(***************************************************************************)
Fairness ==
  /\ WF_vars(Process /\ pc # "idle")
  /\ SF_vars(StartPreflight /\ UNCHANGED signals)
  /\ SF_vars(StartCloseout /\ UNCHANGED signals)
  /\ \A s \in Symbols :
       /\ WF_vars(EntryFills(s) /\ UNCHANGED <<storeVars, signals, procVars>>)
       /\ WF_vars(ExitFills(s) /\ UNCHANGED <<storeVars, signals, procVars>>)
       /\ WF_vars(LegsEnd(s) /\ oco[s] = "cancelling"
                  /\ UNCHANGED <<storeVars, signals, procVars>>)

FairSpec == Spec /\ Fairness

TypeOK == BrokerTypeOK /\ StoreTypeOK /\ ProcTypeOK
=============================================================================
