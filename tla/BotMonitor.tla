----------------------------- MODULE BotMonitor -----------------------------
(***************************************************************************)
(* nodes/monitor_node.py: resolve the entries still pending, promote the    *)
(* ones that filled, close in the database what the broker no longer holds, *)
(* then review what is left.  Everything up to the review works from one    *)
(* reading of the broker's positions.                                       *)
(***************************************************************************)
EXTENDS BotPass

Pending == {a \in Approvals : pos[a] = "pending"}

\* Broken twin of ReadPositions: entries that came and went between two
\* passes are not looked for.
ReadPositionsOnly(p) ==
  /\ pc[p] = "read"
  /\ \/ Loop(p, "pending", {}, Holdings) /\ NoFault
     \/ Fault("read") /\ Leave(p)
  /\ AccountQuiet /\ DbQuiet /\ RiskQuiet

\* An unreachable broker ends the monitor without touching a row.
ReadPositions(p) ==
  /\ pc[p] = "read"
  /\ \/ /\ Loop(p, "pending",
                {a \in Pending : app[a] \in Stocks /\ HeldOf(app[a]) = 0},
                Holdings)
        /\ NoFault
     \/ Fault("read") /\ Leave(p)
  /\ AccountQuiet /\ DbQuiet /\ RiskQuiet

(***************************************************************************)
(* _reconcile_pending_positions.                                            *)
(***************************************************************************)
ResolveExited(p, a) ==
  /\ a \in hit
  /\ row' = [row EXCEPT ![a] = "filled_closed"]
  /\ shr' = [shr EXCEPT ![a] = got[a]]
  /\ Take(p, a, "p_close")
  /\ UNCHANGED <<pos, trd>> /\ NoFault

ResolveCanceled(p, a) ==
  /\ a \notin hit /\ ent[a] = "canceled" /\ got[a] = 0
  /\ row' = [row EXCEPT ![a] = "canceled"]
  /\ pos' = [pos EXCEPT ![a] = "canceled"]
  /\ Drop(p, a)
  /\ UNCHANGED <<shr, trd>> /\ NoFault

\* Still resting, or filled with no exit to be found, or not readable.
LeavePending(p, a) ==
  /\ \/ a \notin hit /\ ~(ent[a] = "canceled" /\ got[a] = 0) /\ NoFault
     \/ Fault("read")
  /\ Drop(p, a) /\ DbQuiet

ResolvePending(p) ==
  /\ pc[p] = "pending"
  /\ \E a \in work[p] :
       ResolveExited(p, a) \/ ResolveCanceled(p, a) \/ LeavePending(p, a)
  /\ AccountQuiet /\ RiskQuiet

BookPendingExit(p) ==
  /\ pc[p] = "p_close"
  /\ CloseInDb(cur[p]) /\ Back(p, "pending")
  /\ AccountQuiet /\ RiskQuiet /\ NoFault

(***************************************************************************)
(* _promote_pending_positions, then _load_open_positions.                   *)
(***************************************************************************)

\* Broken twin of Promote: every pending entry is taken for filled.
PromoteAll(p) ==
  /\ pc[p] = "pending" /\ work[p] = {}
  /\ pos' = [a \in Approvals |-> IF a \in Pending THEN "open" ELSE pos[a]]
  /\ LET open == {a \in Approvals : pos'[a] = "open"}
     IN IF open = {} THEN Leave(p) ELSE Loop(p, "recon", open, snap[p])
  /\ UNCHANGED <<row, shr, trd>>
  /\ AccountQuiet /\ RiskQuiet /\ NoFault

Promote(p) ==
  /\ pc[p] = "pending" /\ work[p] = {}
  /\ pos' = [a \in Approvals |-> IF a \in Pending /\ snap[p][app[a]] > 0
                                 THEN "open" ELSE pos[a]]
  /\ LET open == {a \in Approvals : pos'[a] = "open"}
     IN IF open = {} THEN Leave(p) ELSE Loop(p, "recon", open, snap[p])
  /\ UNCHANGED <<row, shr, trd>>
  /\ AccountQuiet /\ RiskQuiet /\ NoFault

(***************************************************************************)
(* _reconcile: newest lots first, until the shares of the remaining ones    *)
(* are no more than the broker has.                                         *)
(***************************************************************************)
UpTo(p, a) == {b \in work[p] : app[b] = app[a] /\ b <= a}
Surplus(p) ==
  {a \in work[p] : SumOver([b \in UpTo(p, a) |-> shr[b]]) > snap[p][app[a]]}

ReconcileLot(p) ==
  /\ pc[p] = "recon" /\ Surplus(p) # {}
  /\ LET a == Max(Surplus(p))
     IN /\ CloseInDb(a)
        /\ work' = [work EXCEPT ![p] = @ \ {a}]
        /\ rec' = [rec EXCEPT ![p] = @ \union {app[a]}]
  /\ UNCHANGED <<pc, mode, snap, cur, saw, exc>>
  /\ AccountQuiet /\ RiskQuiet /\ NoFault

\* A symbol that was reconciled is not reviewed in this pass.
StillOpen(p) == {a \in work[p] : app[a] \notin rec[p]}
FinishReconcile(p) ==
  /\ pc[p] = "recon" /\ Surplus(p) = {}
  /\ IF StillOpen(p) = {} THEN Leave(p)
     ELSE Loop(p, "review", StillOpen(p), Nobody)
  /\ AccountQuiet /\ DbQuiet /\ RiskQuiet /\ NoFault

(***************************************************************************)
(* The review.  Tightening a stop moves its price only.                     *)
(***************************************************************************)
Review(p) ==
  /\ pc[p] = "review"
  /\ \/ work[p] = {} /\ Leave(p)
     \/ \E a \in work[p] : Drop(p, a) \/ Take(p, a, "c_cancel")
  /\ AccountQuiet /\ DbQuiet /\ RiskQuiet /\ NoFault

\* _close_alpaca_position, call by call.  An exception anywhere leaves the
\* lot open, whatever has become of its protection.
GiveUp(p) == Back(p, "review")

CancelResting(p) ==
  /\ pc[p] = "c_cancel"
  /\ LET s == app[cur[p]]
     IN \/ HeldOf(s) = 0 /\ GiveUp(p) /\ AccountQuiet /\ NoFault
        \/ HeldOf(s) > 0 /\ CancelAll(s) /\ To(p, "c_close") /\ NoFault
        \/ HeldOf(s) > 0 /\ CancelAll(s) /\ GiveUp(p) /\ Fault("net")
        \/ AccountQuiet /\ GiveUp(p) /\ Fault("read")
  /\ DbQuiet /\ RiskQuiet

ClosePosition(p) ==
  /\ pc[p] = "c_close"
  /\ LET s == app[cur[p]]
     IN \/ AcceptClose(s) /\ To(p, "c_poll") /\ NoFault
        \/ ~Closable(s) /\ AccountQuiet /\ GiveUp(p) /\ NoFault
        \/ (AcceptClose(s) \/ AccountQuiet) /\ GiveUp(p) /\ Fault("net")
  /\ DbQuiet /\ RiskQuiet

PollFlat(p) ==
  /\ pc[p] = "c_poll"
  /\ \/ HeldOf(app[cur[p]]) = 0 /\ To(p, "c_db") /\ NoFault
     \/ HeldOf(app[cur[p]]) > 0 /\ GiveUp(p) /\ NoFault
     \/ GiveUp(p) /\ Fault("read")
  /\ AccountQuiet /\ DbQuiet /\ RiskQuiet

BookClose(p) ==
  /\ pc[p] = "c_db"
  /\ CloseInDb(cur[p]) /\ GiveUp(p)
  /\ AccountQuiet /\ RiskQuiet /\ NoFault

MonitorStep(p) ==
  \/ ReadPositions(p) \/ ResolvePending(p) \/ BookPendingExit(p) \/ Promote(p)
  \/ ReconcileLot(p) \/ FinishReconcile(p) \/ Review(p)
  \/ CancelResting(p) \/ ClosePosition(p) \/ PollFlat(p) \/ BookClose(p)
=============================================================================
