---------------------------- MODULE BotInvariants ----------------------------
(***************************************************************************)
(* What holds between two steps of the one pass that is under way: of the   *)
(* lots, of the pass's locals, and of the failures that free a lot for a    *)
(* repetition.                                                              *)
(***************************************************************************)
EXTENDS BotReconciliation

\* Passes do not overlap.
OnePass == \A p, q \in Passes : p = q

\* A later approval of the same symbol exists.
Superseded(a) == \E b \in Lots(app[a]) : a < b

\* No superseded order of s was kept from the database.  What is once
\* untidy stays so, since only the newest approval of a symbol is ever repeated.
Tidy(s) == \A a \in Lots(s) : Superseded(a) /\ ent[a] # "none" => pos[a] # "none"
Whole == "partial" \notin faults
Plain(a) == Whole /\ Tidy(app[a])

Gone(a) == ent[a] = "filled" /\ sold[a] = got[a]

(***************************************************************************)
(* The lots.                                                                *)
(***************************************************************************)
ApprovalOrder ==
  /\ \A a, b \in Approvals : a < b /\ app[b] # "none" => app[a] # "none"
  /\ \A a \in latest : app[a] # "none" /\ ~Superseded(a)

LotRows(a) ==
  /\ app[a] = "none" => ent[a] = "none" /\ row[a] = "none"
  /\ ent[a] = "none" => got[a] = 0 /\ prot[a] = 0 /\ a \notin hit /\ pos[a] = "none"
  /\ row[a] \in {"none", "error", "error_ambiguous"} => pos[a] = "none"
  /\ trd[a] > 0 => pos[a] = "closed"
  /\ pos[a] = "pending" => app[a] \in Stocks
  /\ pos[a] = "canceled" => ent[a] = "canceled"
  /\ Superseded(a) => pos[a] \notin {"open", "pending"}
  /\ sold[a] <= got[a]
  /\ Whole => got[a] = IF ent[a] = "filled" THEN Qty ELSE 0

LotBooks(a) ==
  Plain(a) =>
    /\ sold[a] \in {0, got[a]} /\ prot[a] \in {0, Qty}
    /\ prot[a] > 0 => ent[a] = "filled" /\ sold[a] = 0 /\ app[a] \notin closing
    /\ a \in hit => Gone(a)
    /\ Superseded(a) => ~Exposed(a)
    /\ pos[a] \in {"open", "pending"} => shr[a] = Qty
    /\ pos[a] = "open" => ent[a] = "filled"
    /\ pos[a] = "closed" => Gone(a)

\* A resting close has something to sell.
ClosingHeld ==
  \A s \in closing : Whole /\ Tidy(s) => \E a \in Lots(s) : Left(a) > 0

LotsHold ==
  /\ ApprovalOrder /\ ClosingHeld
  /\ \A a \in Approvals : LotRows(a) /\ LotBooks(a)

(***************************************************************************)
(* The pass.                                                                *)
(***************************************************************************)
Reconciling == {"pending", "p_close", "recon"}
Closes == {"c_cancel", "c_close", "c_poll", "c_db"}
SendsStock == {"s_send", "s_lookup", "s_record"}
SendsCrypto == {"k_buy", "k_lookup", "k_poll", "k_cancel", "k_settle", "k_stop",
                "k_flat", "k_flatpoll", "k_record"}
Sends == SendsStock \union SendsCrypto \union {"fail"}

\* The rows the loops work through are what they were when they were read.
MonitorHolds(p) ==
  /\ pc[p] \in {"pending", "p_close"} => \A a \in work[p] : pos[a] = "pending"
  /\ pc[p] = "p_close" => /\ cur[p] \in hit \ work[p] /\ pos[cur[p]] = "pending"
  /\ pc[p] \in {"recon", "review"} \union Closes => \A a \in work[p] : pos[a] = "open"
  /\ pc[p] \in Closes => cur[p] \in Approvals \ work[p] /\ pos[cur[p]] = "open"
  /\ pc[p] = "c_db" => \A a \in Approvals : a = cur[p] /\ Plain(a) => Gone(a)

\* The one reading of the broker's positions, as far as it still counts.
SnapHolds(p) ==
  pc[p] \in Reconciling =>
    \A a \in Approvals : app[a] # "none" /\ ~Superseded(a) /\ Plain(a) =>
      /\ snap[p][app[a]] \in {0, Qty}
      /\ snap[p][app[a]] > 0 => ent[a] = "filled"
      /\ snap[p][app[a]] = 0 /\ pos[a] = "open" => Gone(a)

ExecutionHolds(p) ==
  /\ pc[p] \in Sends \union {"exec"} => work[p] \subseteq latest
  /\ pc[p] \in Sends => cur[p] \in latest /\ row[cur[p]] \in {"none", "error"}
  /\ pc[p] \in SendsStock => app[cur[p]] \in Stocks
  /\ pc[p] \in SendsCrypto => app[cur[p]] \in Cryptos
  /\ pc[p] \in {"s_record", "k_poll", "k_cancel", "k_settle", "k_stop", "k_record"} =>
       ent[cur[p]] # "none"
  /\ Whole =>
       /\ pc[p] = "s_record" /\ saw[p] > 0 => ent[cur[p]] = "filled"
       /\ pc[p] = "k_cancel" => saw[p] = 0
       /\ pc[p] \in {"k_stop", "k_record"} => ent[cur[p]] = "filled"
       /\ pc[p] = "k_stop" => saw[p] = Qty
       /\ pc[p] = "k_record" =>
            \A a \in Approvals : a = cur[p] /\ Plain(a) => saw[p] = Qty

PassHolds(p) == MonitorHolds(p) /\ SnapHolds(p) /\ ExecutionHolds(p)
BotInv == LotsHold /\ \A p \in Passes : PassHolds(p)

(***************************************************************************)
(* Failures, where there is one misfortune at most.                         *)
(***************************************************************************)
InHand(a) == \E p \in Passes : pc[p] \in Sends /\ cur[p] = a

FailureHolds(p) ==
  LET a == cur[p]
  IN /\ pc[p] \in {"s_send", "k_buy"} /\ faults = {} => ~Exposed(a)
     /\ pc[p] = "s_lookup" /\ exc[p] = "refused" => ent[a] = "none"
     /\ pc[p] = "k_settle" /\ ent[a] = "live" => faults # {} /\ Whole
     /\ pc[p] = "k_stop" => ent[a] # "live"
     /\ pc[p] \in {"k_flat", "k_flatpoll"} /\ exc[p] = "refused" => ent[a] # "live"
     /\ pc[p] = "fail" /\ exc[p] = "refused" => ~Exposed(a)

\* A lot the guards leave free, and no pass is at, is not exposed.
FreeHolds ==
  faults = {} =>
    \A a \in Approvals : row[a] \in {"none", "error"} /\ ~InHand(a) => ~Exposed(a)

ErrorInv == FreeHolds /\ \A p \in Passes : FailureHolds(p)
==============================================================================
