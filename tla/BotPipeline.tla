---------------------------- MODULE BotPipeline ----------------------------
(***************************************************************************)
(* run_pipeline.py's passes over one database and one paper account.        *)
(***************************************************************************)
EXTENDS BotMonitor, BotExecution

Init == AccountInit /\ PassInit

\* run_daily.bat, run_monitor_only.bat, or run_pipeline.py --nodes execution.
StartPass(p, m) ==
  /\ pc[p] = "idle"
  /\ mode' = [mode EXCEPT ![p] = m]
  /\ pc' = [pc EXCEPT ![p] = IF m = "rerun" THEN "exec" ELSE "read"]
  /\ work' = [work EXCEPT ![p] = IF m = "rerun" THEN latest ELSE {}]
  /\ UNCHANGED <<snap, rec, cur, saw, exc>>
  /\ AccountQuiet /\ DbQuiet /\ RiskQuiet /\ NoFault

PassStep(p) == MonitorStep(p) \/ ExecutionStep(p)
Market == MarketMoves /\ DbQuiet /\ RiskQuiet /\ UNCHANGED localVars

Next ==
  \/ Market
  \/ \E p \in Passes : \/ PassStep(p) \/ Crash(p)
                       \/ \E m \in {"daily", "monitor", "rerun"} : StartPass(p, m)

Spec == Init /\ [][Next]_vars

\* A started pass is not suspended for ever, the scheduler keeps starting
\* the monitor, and the market gets round to a resting close.
FairSpec ==
  /\ Spec
  /\ \A p \in Passes : WF_vars(PassStep(p)) /\ SF_vars(StartPass(p, "monitor"))
  /\ \A s \in Symbols : WF_vars(CloseFills(s) /\ DbQuiet /\ RiskQuiet
                                /\ UNCHANGED localVars)

(***************************************************************************)
(* What the database says of the account, and what the account is left in. *)
(***************************************************************************)
\* Every variable stays in its type (db/models.py's columns).
TypeOK == AccountTypeOK /\ PassTypeOK

\* Every exposure in s has its row in positions.
Known(s) == \A a \in Lots(s) : ent[a] # "none" => pos[a] # "none"
Exposed(a) == ent[a] = "live" \/ Left(a) > 0

\* _reconcile closes out what "the live broker no longer holds": a closed
\* lot was bought, all of it is sold again and its entry rests no longer.
NoPhantomClose ==
  \A a \in Approvals : pos[a] = "closed" /\ Known(app[a]) =>
    got[a] > 0 /\ sold[a] = got[a] /\ ent[a] # "live"

\* The duplicate-position gate of risk_node together with the idempotency
\* guard of execution_node: a symbol is bought a second time only when the database
\* was never told of an exposure in it (a crash, or an attempt that failed), and as
\* long as entries fill in one piece.
NoSecondExposure ==
  "partial" \notin faults =>
    \A a, b \in Approvals :
      a < b /\ app[a] = app[b] /\ Exposed(a) /\ Exposed(b) => ~Known(app[a])

\* "error" frees the approval for a retry and the symbol for a new one, so
\* it is written only of an entry of which nothing rests and nothing is held
\* ("safe to retry", _looks_ambiguous).
ErrorIsSafe ==
  [][\A p \in Passes : RecordFailure(p) /\ row'[cur[p]] = "error" => ~Exposed(cur[p])]_vars

\* The same as long as entries fill in one piece.
NoPhantomCloseOfWhole == "partial" \notin faults => NoPhantomClose

\* What has been bought and sold again is booked in the end, if no exposure
\* the database does not know of hides it.
BookedEventually ==
  \A a \in Approvals :
    (pos[a] \in {"pending", "open"} /\ got[a] > 0 /\ sold[a] = got[a] /\ ent[a] # "live")
      ~> (pos[a] = "closed" \/ ~Known(app[a]))
=============================================================================
