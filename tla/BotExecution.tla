---------------------------- MODULE BotExecution ----------------------------
(***************************************************************************)
(* nodes/risk_node.py's approvals and nodes/execution_node.py's entries: a  *)
(* stock bracket is one order, a crypto entry is a market buy followed by a *)
(* stop for what it bought.  The database hears of either only afterwards.  *)
(***************************************************************************)
EXTENDS BotPass

CONSTANT MaxOpen    \* MAX_OPEN_POSITIONS
ASSUME MaxOpenAssumption == MaxOpen \in Nat

(***************************************************************************)
(* Risk.                                                                    *)
(***************************************************************************)
Held == {s \in Symbols : HeldOf(s) > 0}

\* Broken twin of InFlight: only positions known to be filled.
InFlightOpen == {app[a] : a \in {b \in Approvals : pos[b] = "open"}}

\* _db_inflight_symbols.  "error" and "canceled" are over; so is an order
\* whose position has been closed.
InFlight == {app[a] : a \in {b \in Approvals :
               \/ pos[b] \in {"open", "pending"}
               \/ /\ pos[b] # "closed"
                  /\ row[b] \notin {"none", "error", "canceled"}}}

Unused == {a \in Approvals : app[a] = "none"}

\* One run of the node: the strategies of S pass every rule.  The count
\* against MaxOpen is of the broker's positions and this run's approvals.
ApproveAll(p, S) ==
  /\ S \intersect (Held \union InFlight) = {}
  /\ S # {} => Cardinality(Held) + Cardinality(S) <= MaxOpen
  /\ \E T \in SUBSET Unused :
       /\ Cardinality(T) = Cardinality(S)
       /\ \A a \in T, b \in Unused \ T : a < b
       /\ \E f \in Bijection(T, S) :
            app' = [a \in Approvals |-> IF a \in T THEN f[a] ELSE app[a]]
       /\ latest' = T
       /\ Loop(p, "exec", T, Nobody)

RiskRun(p) ==
  /\ pc[p] = "risk"
  /\ \/ \E S \in SUBSET Symbols : ApproveAll(p, S) /\ NoFault
     \/ ApproveAll(p, {}) /\ Fault("read")
     \/ Loop(p, "exec", {}, Nobody) /\ RiskQuiet /\ NoFault   \* no strategy
  /\ AccountQuiet /\ DbQuiet

(***************************************************************************)
(* run: one approval after another, and only those _already_executed does   *)
(* not know of.                                                             *)
(***************************************************************************)
ExecuteNext(p) ==
  /\ pc[p] = "exec"
  /\ \/ work[p] = {} /\ End(p)
     \/ \E a \in work[p] :
          IF row[a] \in {"none", "error"}
          THEN Take(p, a, IF app[a] \in Stocks THEN "s_send" ELSE "k_buy")
          ELSE Drop(p, a)
  /\ AccountQuiet /\ DbQuiet /\ RiskQuiet /\ NoFault

Record(p, l, status, q) ==
  /\ pc[p] = l
  /\ row' = [row EXCEPT ![cur[p]] = "submitted"]
  /\ pos' = [pos EXCEPT ![cur[p]] = status]
  /\ shr' = [shr EXCEPT ![cur[p]] = q]
  /\ Back(p, "exec")
  /\ UNCHANGED trd /\ AccountQuiet /\ RiskQuiet /\ NoFault

\* Only a message that names a refusal counts as one.
RecordFailure(p) ==
  /\ pc[p] = "fail"
  /\ row' = [row EXCEPT ![cur[p]] =
               IF exc[p] = "refused" THEN "error" ELSE "error_ambiguous"]
  /\ Back(p, "exec")
  /\ UNCHANGED <<pos, shr, trd>> /\ AccountQuiet /\ RiskQuiet /\ NoFault

(***************************************************************************)
(* A stock bracket.                                                         *)
(***************************************************************************)
\* A second order with the same client id is turned down in words that name
\* no refusal.
SendBracket(p) ==
  /\ pc[p] = "s_send"
  /\ LET a == cur[p]
     IN \/ AcceptBuy(a) /\ Saw(p, "s_record", 0) /\ NoFault
        \/ AcceptBuy(a) /\ Raise(p, "s_lookup", "unclear") /\ Fault("net")
        \/ /\ AccountQuiet /\ NoFault
           /\ \E e \in {"refused", "unclear"} :
                /\ ent[a] # "none" => e = "unclear"
                /\ Raise(p, "s_lookup", e)
  /\ DbQuiet /\ RiskQuiet

\* _try_reconcile_by_client_order_id.
LookUpBracket(p) ==
  /\ pc[p] = "s_lookup"
  /\ \/ ent[cur[p]] # "none" /\ Saw(p, "s_record", got[cur[p]]) /\ NoFault
     \/ ent[cur[p]] = "none" /\ To(p, "fail") /\ NoFault
     \/ To(p, "fail") /\ Fault("net")
  /\ AccountQuiet /\ DbQuiet /\ RiskQuiet

RecordBracket(p) ==
  Record(p, "s_record", IF saw[p] > 0 THEN "open" ELSE "pending", Qty)

(***************************************************************************)
(* A crypto entry and its stop.                                             *)
(***************************************************************************)
BuyCrypto(p) ==
  /\ pc[p] = "k_buy"
  /\ LET a == cur[p]
     IN \/ /\ HeldOf(app[a]) > 0 /\ Raise(p, "fail", "unclear")
           /\ AccountQuiet /\ NoFault
        \/ /\ HeldOf(app[a]) = 0 /\ AcceptBuy(a) /\ To(p, "k_poll") /\ NoFault
        \/ /\ HeldOf(app[a]) = 0 /\ AcceptBuy(a) /\ To(p, "k_lookup")
           /\ Fault("net")
        \/ /\ HeldOf(app[a]) = 0 /\ To(p, "k_lookup")
           /\ AccountQuiet /\ NoFault
        \/ /\ \E e \in {"refused", "unclear"} : Raise(p, "fail", e)
           /\ AccountQuiet /\ Fault("read")
  /\ DbQuiet /\ RiskQuiet

LookUpBuy(p) ==
  /\ pc[p] = "k_lookup"
  /\ \/ ent[cur[p]] # "none" /\ To(p, "k_poll") /\ NoFault
     \/ ent[cur[p]] = "none" /\ Raise(p, "fail", "refused") /\ NoFault
     \/ Raise(p, "fail", "unclear") /\ Fault("net")
  /\ AccountQuiet /\ DbQuiet /\ RiskQuiet

\* The last reading of twenty.  What is not all bought is to be canceled.
PollBuy(p) ==
  /\ pc[p] = "k_poll"
  /\ LET a == cur[p]
     IN \/ ent[a] = "filled" /\ Saw(p, "k_stop", got[a]) /\ NoFault
        \/ ent[a] # "filled" /\ Saw(p, "k_cancel", got[a]) /\ NoFault
        \/ Saw(p, "k_cancel", 0) /\ Fault("net")
  /\ AccountQuiet /\ DbQuiet /\ RiskQuiet

\* A cancellation that fails is ignored.
CancelRemainder(p) ==
  /\ pc[p] = "k_cancel"
  /\ \/ CancelBuy(cur[p]) /\ NoFault
     \/ AccountQuiet /\ Fault("net")
  /\ To(p, IF saw[p] > 0 THEN "k_stop" ELSE "k_settle")
  /\ DbQuiet /\ RiskQuiet

\* Broken twin of SettleBuy: an entry without a fill is a failed entry.
SettleBuyUnfilled(p) ==
  /\ pc[p] = "k_settle"
  /\ IF got[cur[p]] > 0 THEN Saw(p, "k_stop", got[cur[p]])
     ELSE Raise(p, "fail", "refused")
  /\ AccountQuiet /\ DbQuiet /\ RiskQuiet /\ NoFault

SettleBuy(p) ==
  /\ pc[p] = "k_settle"
  /\ LET a == cur[p]
     IN \/ got[a] > 0 /\ Saw(p, "k_stop", got[a]) /\ NoFault
        \/ /\ got[a] = 0 /\ ent[a] = "canceled"
           /\ Raise(p, "fail", "refused") /\ NoFault
        \/ got[a] = 0 /\ ent[a] = "live" /\ Raise(p, "k_flat", "unclear") /\ NoFault
        \/ Raise(p, "k_flat", "unclear") /\ Fault("net")
  /\ AccountQuiet /\ DbQuiet /\ RiskQuiet

\* Protect what was bought and is there; failing that, sell it again.  The
\* message of a failure here quotes the broker's and may name a refusal.
Unprotected(p) == \E e \in {"refused", "unclear"} : Raise(p, "k_flat", e)

PlaceStop(p) ==
  /\ pc[p] = "k_stop"
  /\ LET a == cur[p]
         q == Min({saw[p], HeldOf(app[a])})
     IN \/ q = 0 /\ AccountQuiet /\ Unprotected(p) /\ NoFault
        \/ q > 0 /\ AcceptStop(a, q) /\ Saw(p, "k_record", q) /\ NoFault
        \/ q > 0 /\ AccountQuiet /\ Unprotected(p) /\ NoFault
        \/ q > 0 /\ AcceptStop(a, q) /\ Unprotected(p) /\ Fault("net")
  /\ DbQuiet /\ RiskQuiet

RecordCrypto(p) == Record(p, "k_record", "open", saw[p])

\* _alpaca_emergency_flatten; FALSE makes the failure ambiguous.
Flatten(p) ==
  /\ pc[p] = "k_flat"
  /\ LET s == app[cur[p]]
     IN \/ AcceptClose(s) /\ To(p, "k_flatpoll") /\ NoFault
        \/ /\ ~Closable(s) /\ Raise(p, "fail", "unclear")
           /\ AccountQuiet /\ NoFault
        \/ /\ AcceptClose(s) \/ AccountQuiet
           /\ Raise(p, "fail", "unclear") /\ Fault("net")
  /\ DbQuiet /\ RiskQuiet

PollFlattened(p) ==
  /\ pc[p] = "k_flatpoll"
  /\ IF HeldOf(app[cur[p]]) = 0 THEN To(p, "fail")
     ELSE Raise(p, "fail", "unclear")
  /\ AccountQuiet /\ DbQuiet /\ RiskQuiet /\ NoFault

ExecutionStep(p) ==
  \/ RiskRun(p) \/ ExecuteNext(p) \/ RecordFailure(p)
  \/ SendBracket(p) \/ LookUpBracket(p) \/ RecordBracket(p)
  \/ BuyCrypto(p) \/ LookUpBuy(p) \/ PollBuy(p) \/ CancelRemainder(p)
  \/ SettleBuy(p) \/ PlaceStop(p) \/ RecordCrypto(p)
  \/ Flatten(p) \/ PollFlattened(p)
=============================================================================
