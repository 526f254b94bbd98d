---------------------------- MODULE SlcRecovery ----------------------------
(***************************************************************************)
(* What the stages do about positions and orders an earlier stage left      *)
(* behind: reconciliation from broker exits and degraded recovery (cycle),  *)
(* delayed reconciliation of orders (preflight), the closeout guardian.     *)
(***************************************************************************)
EXTENDS SlcClosing

(***************************************************************************)
(* _reconcile_local_positions_from_broker_exits (cycle and closeout).       *)
(***************************************************************************)
ReconcileSet == {s \in Symbols : pos[s] \in {"open", "protected_degraded"}}

StartCycle ==
  /\ Begin("cycle", "reconcile", ReconcileSet, BrokerPositions)
  /\ BrokerQuiet /\ NoFault /\ StoreQuiet

StartCloseout ==
  /\ Begin("closeout", "reconcile", ReconcileSet, BrokerPositions)
  /\ BrokerQuiet /\ NoFault /\ StoreQuiet

\* The filled orders among the three exits the row knows of, with the shares
\* each of them closed.
FilledExits(s) ==
  (IF posStop[s] /\ oco[s] = "stop_filled"
   THEN {<<"stop", fill[s]>>} ELSE {})
  \union
  (IF posTgt[s] = tid[s] /\ oco[s] = "target_filled"
   THEN {<<"target", fill[s]>>} ELSE {})
  \union
  (IF exit[s] = "filled" THEN {<<"exit", exitQty[s]>>} ELSE {})

\* Exactly one filled exit, for exactly the local quantity.
ExitEvidence(s) ==
  \E e \in FilledExits(s) : FilledExits(s) = {e} /\ e[2] = posQty[s]

\* Still at the broker, with the side and quantity the row says.
ReconcileHeld ==
  /\ At("reconcile")
  /\ \E s \in todo : /\ seen[s] # 0 /\ seen[s] = posQty[s]
                     /\ Skip(s)
  /\ BrokerQuiet /\ NoFault /\ StoreQuiet

ReconcileMismatch ==
  /\ At("reconcile")
  /\ \E s \in todo : /\ \/ seen[s] # 0 /\ seen[s] # posQty[s]
                        \/ seen[s] = 0 /\ ~ExitEvidence(s)
                     /\ Skip(s)
                     /\ SetPosition(s, "ambiguous")
  /\ BrokerQuiet /\ NoFault

ReconcileExited ==
  /\ At("reconcile")
  /\ \E s \in todo : /\ seen[s] = 0 /\ ExitEvidence(s)
                     /\ Call("close_row", s, "reconcile")
                     /\ todo' = todo \ {s}
  /\ BrokerQuiet /\ NoFault /\ StoreQuiet

\* A failed read ends a cycle; the guardian goes on without it.
ReconcileUnreadable ==
  /\ At("reconcile")
  /\ Fault("read")
  /\ IF stage = "closeout" THEN Loop("orphans", {}, NothingHeld) ELSE Halt
  /\ BrokerQuiet /\ StoreQuiet

ReconcileDone ==
  /\ At("reconcile") /\ todo = {}
  /\ \/ /\ stage = "cycle"
        /\ Loop("degraded",
                {s \in Symbols : pos[s] = "protected_degraded" /\ posTgt[s] # 0},
                NothingHeld)
     \/ /\ stage = "closeout"
        /\ Loop("orphans", {}, NothingHeld)
  /\ BrokerQuiet /\ NoFault /\ StoreQuiet

(***************************************************************************)
(* _resolve_protected_degraded_positions: exit_via_marketable_replacement,  *)
(* whose new order id is polled and then forgotten.                         *)
(***************************************************************************)
DegradedReplace ==
  /\ At("degraded")
  /\ \E s \in todo : /\ AcceptTargetReplace(s, posTgt[s])
                     /\ Take(s, "deg_poll", [qty |-> 0, stop |-> FALSE, tgt |-> tid[s] + 1])
  /\ NoFault /\ StoreQuiet

DegradedSkip ==
  /\ At("degraded")
  /\ \E s \in todo : /\ \/ ~TargetReplaceable(s, posTgt[s]) /\ BrokerQuiet /\ NoFault
                        \/ BrokerQuiet /\ Fault("net")
                        \/ AcceptTargetReplace(s, posTgt[s]) /\ Fault("net")
                     /\ Skip(s)
  /\ StoreQuiet

DegradedPoll ==
  /\ At("deg_poll")
  /\ IF oco[cur] = "target_filled" /\ tid[cur] = obs.tgt
     THEN Call("close_row", cur, "degraded") /\ UNCHANGED todo
     ELSE Back("degraded")
  /\ BrokerQuiet /\ NoFault /\ StoreQuiet

DegradedDone ==
  /\ At("degraded") /\ todo = {}
  /\ Loop("admit", {}, NothingHeld)
  /\ BrokerQuiet /\ NoFault /\ StoreQuiet

(***************************************************************************)
(* run_preflight: _reconcile_ambiguous_orders, at least                     *)
(* DELAYED_RECONCILIATION_MIN_AGE after the submission.                     *)
(***************************************************************************)
\* Broken twin of StartPreflight: a bare intent is never looked up.
StartPreflightPartial ==
  /\ Begin("preflight", "resolve",
           {s \in Symbols : order[s] \in AmbiguousOrder \ {"submission_intent_pending"}},
           NothingHeld)
  /\ BrokerQuiet /\ NoFault /\ StoreQuiet

StartPreflight ==
  /\ Begin("preflight", "resolve", {s \in Symbols : order[s] \in AmbiguousOrder},
           NothingHeld)
  /\ BrokerQuiet /\ NoFault /\ StoreQuiet

ResolveUnreachable ==
  /\ At("resolve")
  /\ Fault("read")
  /\ \E s \in todo : Skip(s)
  /\ BrokerQuiet /\ StoreQuiet

\* A fill the code will not look at: the order is terminal, or never filled.
ShowsNoFill(s) == entry[s] \in {"none", "canceled"} \/ fill[s] = 0

ResolveNoOrder ==
  /\ At("resolve")
  /\ \E s \in todo : /\ ShowsNoFill(s)
                     /\ Skip(s)
                     /\ SetOrder(s, "confirmed_no_order_resulted")
  /\ BrokerQuiet /\ NoFault

ResolveFill ==
  /\ At("resolve")
  /\ \E s \in todo :
       /\ ~ShowsNoFill(s)
       /\ Take(s, "r_open", [qty |-> fill[s], stop |-> StopLegLive(s),
                             tgt |-> tid[s]])
       /\ SetOrder(s, "filled")
  /\ BrokerQuiet /\ NoFault

\* Broken twin of ResolveOpen: only the quantity is checked.
ResolveOpenUnprotected ==
  /\ At("r_open")
  /\ OpenPosition(cur, "open", obs)
  /\ IF obs.qty # Qty THEN Goto("r_flag") ELSE Back("resolve")
  /\ BrokerQuiet /\ NoFault

ResolveOpen ==
  /\ At("r_open")
  /\ OpenPosition(cur, "open", obs)
  /\ IF obs.qty # Qty \/ ~obs.stop THEN Goto("r_flag") ELSE Back("resolve")
  /\ BrokerQuiet /\ NoFault

ResolveFlag ==
  /\ At("r_flag")
  /\ SetPosition(cur, IF obs.qty # Qty THEN "ambiguous" ELSE "protected_degraded")
  /\ Back("resolve") /\ BrokerQuiet /\ NoFault

ResolveDone ==
  /\ At("resolve") /\ todo = {}
  /\ Halt /\ BrokerQuiet /\ NoFault /\ StoreQuiet

(***************************************************************************)
(* run_closeout_stage: orphans first.                                       *)
(***************************************************************************)
ReadOrphans ==
  /\ At("orphans")
  /\ \/ /\ NoFault
        /\ Loop("adopt", {s \in Symbols : Held(s) # 0 /\ pos[s] \notin Tracked},
                BrokerPositions)
     \/ Fault("read") /\ Loop("positions", {}, NothingHeld)
  /\ BrokerQuiet /\ StoreQuiet

\* One filled entry order, whose position was not closed, for the very
\* quantity and side the broker reports.
AdoptionCandidate(s) == order[s] = "filled" /\ pos[s] # "closed" /\ seen[s] = Qty

AdoptOrphan ==
  /\ At("adopt")
  /\ \E s \in todo : /\ AdoptionCandidate(s)
                     /\ Skip(s)
                     /\ OpenPosition(s, "protected_degraded",
                                     [qty |-> Qty, stop |-> FALSE, tgt |-> 0])
  /\ BrokerQuiet /\ NoFault

\* SLC has traded the symbol, but no order explains this position.
FlagOrphan ==
  /\ At("adopt")
  /\ \E s \in todo : /\ order[s] = "filled" /\ ~AdoptionCandidate(s)
                     /\ audit' = audit \union {s}
                     /\ bad' = bad \union {s}
                     /\ todo' = todo \ {s}
  /\ UNCHANGED <<stage, pc, cur, seen, ret, obs, done>>
  /\ UNCHANGED <<order, pos, posQty, posStop, posTgt, trade, flatStat>>
  /\ BrokerQuiet /\ NoFault

\* No filled entry order for the symbol: taken for somebody else's position.
IgnoreOrphan ==
  /\ At("adopt")
  /\ \E s \in todo : order[s] # "filled" /\ Skip(s)
  /\ BrokerQuiet /\ NoFault /\ StoreQuiet

OrphansDone ==
  /\ At("adopt") /\ todo = {}
  /\ Loop("positions", {}, NothingHeld)
  /\ BrokerQuiet /\ NoFault /\ StoreQuiet

(***************************************************************************)
(* run_closeout_stage: then every open position, then the broker readback.  *)
(***************************************************************************)
\* Broken twins of ForceFlattened: a position of ambiguous ownership is
\* flattened too; a degraded one is left to the cycles.
ForceFlattenedAll == Tracked
ForceFlattenedHealthy == {"open"}

ForceFlattened == {"open", "protected_degraded"}

GuardPositions ==
  /\ At("positions")
  /\ pc' = "guard"
  /\ todo' = {s \in Symbols : pos[s] \in ForceFlattened}
  /\ bad' = bad \union {s \in Symbols : pos[s] = "ambiguous"}
  /\ UNCHANGED <<stage, cur, seen, ret, obs, done>>
  /\ BrokerQuiet /\ NoFault /\ StoreQuiet

GuardPosition ==
  /\ At("guard")
  /\ \E s \in todo : /\ Call("x_cancel", s, "closeout")
                     /\ todo' = todo \ {s}
  /\ BrokerQuiet /\ NoFault /\ StoreQuiet

GuardDone ==
  /\ At("guard") /\ todo = {}
  /\ Loop("mark", done, NothingHeld)
  /\ BrokerQuiet /\ NoFault /\ StoreQuiet

MarkFlattened ==
  /\ At("mark")
  /\ \E s \in todo : /\ Call("close_row", s, "mark")
                     /\ todo' = todo \ {s}
  /\ BrokerQuiet /\ NoFault /\ StoreQuiet

MarkDone ==
  /\ At("mark") /\ todo = {}
  /\ Goto("readback")
  /\ BrokerQuiet /\ NoFault /\ StoreQuiet

\* Broken twin of AnsweredFor: only the confirmed closes are read back.
AnsweredForFlattened == done

AnsweredFor == done \union bad

ReadBack ==
  /\ At("readback")
  /\ \/ /\ NoFault
        /\ flatStat' = IF \E s \in AnsweredFor : Held(s) # 0
                       THEN "false" ELSE "true"
     \/ Fault("read") /\ flatStat' = "unknown"
  /\ UNCHANGED <<order, pos, posQty, posStop, posTgt, trade, audit>>
  /\ Halt /\ BrokerQuiet

Recovering ==
  \/ StartCycle \/ StartCloseout \/ StartPreflight
  \/ ReconcileHeld \/ ReconcileMismatch \/ ReconcileExited
  \/ ReconcileUnreadable \/ ReconcileDone
  \/ DegradedReplace \/ DegradedSkip \/ DegradedPoll \/ DegradedDone
  \/ ResolveUnreachable \/ ResolveNoOrder \/ ResolveFill
  \/ ResolveOpen \/ ResolveFlag \/ ResolveDone
  \/ ReadOrphans \/ AdoptOrphan \/ FlagOrphan \/ IgnoreOrphan \/ OrphansDone
  \/ GuardPositions \/ GuardPosition \/ GuardDone
  \/ MarkFlattened \/ MarkDone \/ ReadBack
=============================================================================
