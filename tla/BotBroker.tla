----------------------------- MODULE BotBroker -----------------------------
(***************************************************************************)
(* The paper account as run_pipeline.py's nodes use it: stock brackets (a   *)
(* GTC limit parent with a stop and a target), crypto market entries with a *)
(* separate stop, and market closes of a whole symbol.  Not in this         *)
(* repository: read off the calls execution_node and monitor_node make.     *)
(* Orders are named by the risk approval whose client id they carry.        *)
(***************************************************************************)
EXTENDS Integers, FiniteSets, FiniteSetsExt

CONSTANTS
  Stocks, Cryptos,  \* the symbols of either market
  MaxApprovals,     \* how many risk approvals there may be (bound)
  Qty,              \* units one approval is for
  Faults,           \* the kinds of misfortune this instance explores
  MaxFaults         \* how many of them may happen in one behaviour (bound)

Symbols == Stocks \union Cryptos
Approvals == 1 .. MaxApprovals

ASSUME BotBrokerAssumption ==
  /\ Stocks \intersect Cryptos = {} /\ "none" \notin Symbols
  /\ MaxApprovals \in Nat /\ Qty \in Nat \ {0} /\ MaxFaults \in Nat
  /\ Faults \subseteq {"crash", "net", "read", "partial"}

VARIABLES
  app,      \* [Approvals -> Symbols or "none"] what each approval is for
  ent,      \* [Approvals -> EntStatus]  its entry order
  got,      \* [Approvals -> 0..Qty]     units that order has bought
  sold,     \* [Approvals -> 0..Qty]     units of them sold again
  prot,     \* [Approvals -> 0..Qty]     units under a resting stop
  hit,      \* SUBSET Approvals          its stop or its target has filled
  closing,  \* SUBSET Symbols            a market close is resting
  faults    \* SUBSET Faults             the misfortunes so far, each once

EntStatus == {"none", "live", "filled", "canceled"}
accountVars == <<ent, got, sold, prot, hit, closing>>

AccountTypeOK ==
  /\ ent \in [Approvals -> EntStatus]
  /\ got \in [Approvals -> 0 .. Qty]
  /\ sold \in [Approvals -> 0 .. Qty]
  /\ prot \in [Approvals -> 0 .. Qty]
  /\ hit \subseteq Approvals /\ closing \subseteq Symbols
  /\ faults \in SUBSET Faults

AccountInit ==
  /\ ent = [a \in Approvals |-> "none"]
  /\ got = [a \in Approvals |-> 0]
  /\ sold = [a \in Approvals |-> 0]
  /\ prot = [a \in Approvals |-> 0]
  /\ hit = {} /\ closing = {}
  /\ faults = {}

Fault(k) ==
  /\ k \in Faults \ faults /\ Cardinality(faults) < MaxFaults
  /\ faults' = faults \union {k}
NoFault == UNCHANGED faults

Lots(s) == {a \in Approvals : app[a] = s}
Left(a) == got[a] - sold[a]
SumOver(f) == MapThenSumSet(LAMBDA a : f[a], DOMAIN f)
HeldOf(s) == SumOver([a \in Lots(s) |-> Left(a)])
Holdings == [s \in Symbols |-> HeldOf(s)]

(***************************************************************************)
(* The market.                                                              *)
(***************************************************************************)
\* A bracket's stop is active once the parent has filled.
Fills(a) ==
  /\ ent[a] = "live"
  /\ ent' = [ent EXCEPT ![a] = "filled"]
  /\ got' = [got EXCEPT ![a] = Qty]
  /\ prot' = [prot EXCEPT ![a] = IF app[a] \in Stocks THEN Qty ELSE @]
  /\ UNCHANGED <<sold, hit, closing>> /\ NoFault

FillsPartly(a) ==
  /\ ent[a] = "live" /\ got[a] + 1 < Qty
  /\ Fault("partial")
  /\ got' = [got EXCEPT ![a] = @ + 1]
  /\ UNCHANGED <<ent, sold, prot, hit, closing>>

\* Canceled by the operator or expired, before any fill.
Lapses(a) ==
  /\ ent[a] = "live" /\ got[a] = 0
  /\ ent' = [ent EXCEPT ![a] = "canceled"]
  /\ UNCHANGED <<got, sold, prot, hit, closing>> /\ NoFault

\* The stop fills, or a bracket's target.  A stop sells units of the symbol,
\* its own lot's if they are still there.
Exits(a) ==
  /\ prot[a] > 0
  /\ \E b \in Lots(app[a]) :
       /\ Left(b) >= prot[a] /\ (b = a \/ Left(a) < prot[a])
       /\ sold' = [sold EXCEPT ![b] = @ + prot[a]]
  /\ prot' = [prot EXCEPT ![a] = 0]
  /\ hit' = hit \union {a}
  /\ UNCHANGED <<ent, got, closing>> /\ NoFault

CloseFills(s) ==
  /\ s \in closing
  /\ sold' = [a \in Approvals |-> IF app[a] = s THEN got[a] ELSE sold[a]]
  /\ closing' = closing \ {s}
  /\ UNCHANGED <<ent, got, prot, hit>> /\ NoFault

MarketMoves ==
  \/ \E a \in Approvals : Fills(a) \/ FillsPartly(a) \/ Lapses(a) \/ Exits(a)
  \/ \E s \in Symbols : CloseFills(s)

(***************************************************************************)
(* Calls that change the account.                                           *)
(***************************************************************************)
\* submit_order of the entry; a known client id is refused.
AcceptBuy(a) ==
  /\ ent[a] = "none"
  /\ ent' = [ent EXCEPT ![a] = "live"]
  /\ UNCHANGED <<got, sold, prot, hit, closing>>

\* cancel_order_by_id of the entry, when it comes through in time.
CancelBuy(a) ==
  /\ ent' = [ent EXCEPT ![a] = IF @ = "live" THEN "canceled" ELSE @]
  /\ UNCHANGED <<got, sold, prot, hit, closing>>

\* submit_order of a crypto stop over q units nothing else has reserved.
Reserved(s) == SumOver([a \in Lots(s) |-> prot[a]])
Free(s) == IF s \in closing THEN 0 ELSE HeldOf(s) - Reserved(s)
AcceptStop(a, q) ==
  /\ q <= Free(app[a])
  /\ prot' = [prot EXCEPT ![a] = q]
  /\ UNCHANGED <<ent, got, sold, hit, closing>>

\* cancel_order_by_id of every open order of the symbol, an earlier close of
\* it included.
CancelAll(s) ==
  /\ ent' = [a \in Approvals |-> IF app[a] = s /\ ent[a] = "live"
                                 THEN "canceled" ELSE ent[a]]
  /\ prot' = [a \in Approvals |-> IF app[a] = s THEN 0 ELSE prot[a]]
  /\ closing' = closing \ {s}
  /\ UNCHANGED <<got, sold, hit>>

\* close_position: resting sell orders reserve the units.
Closable(s) == HeldOf(s) > 0 /\ Free(s) = HeldOf(s)
AcceptClose(s) ==
  /\ Closable(s)
  /\ closing' = closing \union {s}
  /\ UNCHANGED <<ent, got, sold, prot, hit>>
=============================================================================
