----------------------------- MODULE SlcSession -----------------------------
(***************************************************************************)
(* One trading day of scheduled stages and what is reported of it:          *)
(* SlcCycleRun rows, the SlcSessionStat row, the dry-run session gate       *)
(* (authorization.py) and the schedule-health check                         *)
(* (check_schedule_health.py).                                              *)
(*                                                                          *)
(* Time counts the five-minute slots of the scheduler: 0 is the preflight,  *)
(* 1 .. Slots are the entry cycles, the closeout guardian fires from        *)
(* GuardianFrom on and does its work from CloseFrom on.  A trigger may be   *)
(* missed, a stage may last over many slots, raise, or die between any two  *)
(* transactions; the operator may also launch a stage by hand.  What        *)
(* happens to orders is in SlcOrderLifecycle; here an entry opens a         *)
(* position and the guardian closes it or fails to.                         *)
(***************************************************************************)
EXTENDS Naturals, FiniteSets, SequencesExt

CONSTANTS
  Slots, GuardianFrom, CloseFrom, LastTick,
  Cutoff,        \* the last slot whose confirmations may be entered
  StaleTicks,    \* a running row older than this is stuck
  MinCycles,     \* MIN_SUCCESSFUL_CYCLES_PER_SESSION
  MaxNew,        \* SLC_MAX_NEW_TRADES_PER_DAY
  Confirmations, \* confirmations one cycle may collect
  MaxFaults,     \* exceptions, crashes, missed triggers, failed reads and slots a
                 \* stage outlasts (bound)
  MaxManual      \* stages launched by hand and transitions recorded (bound)

ASSUME SessionAssumption ==
  /\ {Slots, GuardianFrom, CloseFrom, LastTick, Cutoff, StaleTicks, MinCycles,
      MaxNew, MaxFaults, MaxManual} \subseteq Nat
  /\ Confirmations \subseteq Nat
  /\ Cutoff <= Slots /\ Slots < CloseFrom /\ CloseFrom <= LastTick

Stages == {"preflight", "cycle", "closeout"}

VARIABLES
  time,
  fired,     \* the stages the scheduler has triggered (or missed) in this slot
  manual,    \* what the operator has done by hand so far
  faults,
  status,    \* SlcDeploymentStatus.status
  runs,      \* SlcCycleRun rows, in the order of their start; "did" is what
             \* the body achieved and is known to nobody
  stat,      \* the day's SlcSessionStat row
  proposals, \* SlcOrder rows dry_run_proposed
  placed,   \* entries the broker shows for the day
  position,  \* "none", "open", "exited": the broker is flat, the row is not, or
             \* "unrecorded": an entry is out or filled that no row stands for
  proc       \* the process that holds the lock

sessionVars == <<time, fired, manual, faults, status, runs, stat, proposals, placed,
          position, proc>>

NewStat ==
  [cycles_run |-> 0, failed_cycles |-> 0, overlapping_cycles |-> 0,
   cycles_over_budget |-> 0, expected |-> 0, valid |-> 0, proposals |-> 0,
   guardrails |-> FALSE, parity |-> FALSE, no_open |-> FALSE, flat |-> "unset"]

Idle == [stage |-> "none", pc |-> "idle", run |-> 0, status |-> "none",
         left |-> 0, made |-> 0, valid |-> 0]

SessionInit ==
  /\ time = 0 /\ fired = {} /\ manual = 0 /\ faults = 0
  /\ status \in {"dry_run", "paper_active"}
  /\ runs = << >> /\ stat = NewStat
  /\ proposals = 0 /\ placed = 0 /\ position = "none"
  /\ proc = Idle

Fault == faults < MaxFaults /\ faults' = faults + 1
Goto(l) == proc' = [proc EXCEPT !.pc = l]
Exit == proc' = Idle
Row == runs[proc.run]
Lasted == time - Row.start

(***************************************************************************)
(* The scheduler and the operator.                                          *)
(***************************************************************************)
Scheduled ==
  {s \in Stages : \/ s = "preflight" /\ time = 0
                  \/ s = "cycle" /\ time \in 1 .. Slots
                  \/ s = "closeout" /\ time >= GuardianFrom}

Tick ==
  /\ time < LastTick
  /\ Scheduled \subseteq fired
  /\ time' = time + 1 /\ fired' = {}
  /\ IF proc = Idle THEN UNCHANGED faults ELSE Fault    \* a stage outlasts its slot
  /\ UNCHANGED <<manual, status, runs, stat, proposals, placed, position, proc>>

\* main: the lock is free, the row says running.
FirstStep(s) == CASE s = "preflight" -> "p_gate" [] s = "cycle" -> "c_gate"
                  [] OTHER -> "x_gate"
BeginRun(s) ==
  /\ runs' = Append(runs, [stage |-> s, start |-> time, status |-> "running",
                           did |-> "nothing"])
  /\ proc' = [Idle EXCEPT !.stage = s, !.pc = FirstStep(s), !.run = Len(runs) + 1]

\* main: the lock is held.  A cycle counts itself as overlapping, at best.
Refused(s) ==
  /\ IF s = "cycle"
       THEN \/ stat' = [stat EXCEPT !.overlapping_cycles = @ + 1] /\ UNCHANGED faults
            \/ Fault /\ UNCHANGED stat
       ELSE UNCHANGED <<stat, faults>>
  /\ UNCHANGED <<runs, proc>>

Launch(s) ==
  IF proc = Idle THEN BeginRun(s) /\ UNCHANGED <<stat, faults>> ELSE Refused(s)

\* The scheduler starts no second instance of a task that is still running.
Trigger(s) ==
  /\ s \in Scheduled \ fired
  /\ fired' = fired \union {s}
  /\ IF proc.stage = s THEN UNCHANGED <<stat, faults, runs, proc>> ELSE Launch(s)
  /\ UNCHANGED <<time, manual, status, proposals, placed, position>>

\* The machine sleeps.  A preflight it missed is made up for later: ByHand.
Miss(s) ==
  /\ s \in Scheduled \ fired
  /\ Fault
  /\ fired' = fired \union {s}
  /\ UNCHANGED <<time, manual, status, runs, stat, proposals, placed, position, proc>>

ByHand(s) ==
  /\ manual < MaxManual /\ manual' = manual + 1
  /\ Launch(s)
  /\ UNCHANGED <<time, fired, status, proposals, placed, position>>

\* record_transition, beside whatever runs.
MoveStatus(to) ==
  /\ manual < MaxManual /\ manual' = manual + 1
  /\ to # status
  /\ status' = to
  /\ UNCHANGED <<time, fired, faults, runs, stat, proposals, placed, position, proc>>

\* The stop or the target of an open position fills at the broker.
BrokerExit ==
  /\ position = "open"
  /\ position' = "exited"
  /\ UNCHANGED <<time, fired, manual, faults, status, runs, stat, proposals, placed, proc>>

\* The process dies: its row says running for ever, the lock is free.
Crash ==
  /\ proc # Idle /\ Fault /\ Exit
  /\ UNCHANGED <<time, fired, manual, status, runs, stat, proposals, placed, position>>

(***************************************************************************)
(* Cycle-run rows.                                                          *)
(***************************************************************************)
\* _finish_cycle_run: completed unless the caller says otherwise.
FinalStatus_Overwritten(given) == "completed"
FinalStatus(given) == IF given = "none" THEN "completed" ELSE given

Finish(given, did) ==
  runs' = [runs EXCEPT ![proc.run].status = FinalStatus(given), ![proc.run].did = did]

\* An uncaught exception of a preflight or a cycle.
Raise(l) ==
  /\ Fault
  /\ Goto(l)
  /\ UNCHANGED <<time, fired, manual, status, runs, stat, proposals, placed, position>>

\* It overwrites a row already completed: the work done stays done.
MarkFailed_Counted ==
  /\ proc.pc \in {"p_failed", "c_failed"}
  /\ Finish("failed", Row.did)
  /\ IF proc.pc = "c_failed" THEN Goto("c_stat") ELSE Exit
  /\ UNCHANGED <<time, fired, manual, faults, status, stat, proposals, placed, position>>

MarkFailed ==
  /\ proc.pc \in {"p_failed", "c_failed"}
  /\ Finish("failed", Row.did)
  /\ IF proc.pc = "c_failed" THEN Goto("c_bump") ELSE Exit
  /\ UNCHANGED <<time, fired, manual, faults, status, stat, proposals, placed, position>>

\* Best effort: the counter may be lost.
BumpFailed ==
  /\ proc.pc = "c_bump"
  /\ \/ stat' = [stat EXCEPT !.failed_cycles = @ + 1] /\ UNCHANGED faults
     \/ Fault /\ UNCHANGED stat
  /\ Exit
  /\ UNCHANGED <<time, fired, manual, status, runs, proposals, placed, position>>

(***************************************************************************)
(* run_preflight                                                            *)
(***************************************************************************)
\* Its reconciliation gives an unrecorded entry a position, finds that nothing
\* came of it, or leaves it: too young, unreachable, or not among the statuses
\* it looks at.
PreflightGate ==
  /\ proc.pc = "p_gate"
  /\ \/ Raise("p_failed")
     \/ /\ Goto("p_parity")
        /\ position' \in {position} \union
             IF position = "unrecorded" THEN {"open", "none"} ELSE {}
        /\ UNCHANGED <<time, fired, manual, faults, status, runs, stat, proposals, placed>>

PreflightParity ==
  /\ proc.pc = "p_parity"
  /\ \/ Raise("p_failed")
     \/ /\ \/ stat' = [stat EXCEPT !.parity = TRUE] /\ UNCHANGED faults
           \/ stat' = [stat EXCEPT !.parity = FALSE] /\ Fault
        /\ Goto("p_finish")
        /\ UNCHANGED <<time, fired, manual, status, runs, proposals, placed, position>>

PreflightFinish ==
  /\ proc.pc = "p_finish"
  /\ Finish("none", "work")
  /\ Exit
  /\ UNCHANGED <<time, fired, manual, faults, status, stat, proposals, placed, position>>

(***************************************************************************)
(* _run_cycle_body                                                          *)
(***************************************************************************)
\* The account, the guardrails and the status are read once.
CycleGate ==
  /\ proc.pc = "c_gate"
  /\ \/ Raise("c_failed")
     \/ /\ proc' = [proc EXCEPT !.pc = "c_bars", !.status = status]
        /\ position' = IF position = "exited" THEN "none" ELSE position
        /\ UNCHANGED <<time, fired, manual, faults, status, runs, stat, proposals, placed>>

\* The cutoff looks at the confirmation's own bar, not at the clock.
WithinCutoff_Always(b) == TRUE
WithinCutoff(b) == b <= Cutoff

\* _dry_run_proposals_for_session counts rows; the counter of the day's
\* statistics is written at the end of each cycle.
ProposalsSoFar_FromStat == stat.proposals
ProposalsSoFar == proposals

Remaining ==
  LET broker == IF placed < MaxNew THEN MaxNew - placed ELSE 0
      used   == IF proc.status = "dry_run" THEN ProposalsSoFar ELSE 0
  IN IF used < broker THEN broker - used ELSE 0

\* A confirmation of bar b may still be acted on.
MayEnter(b) ==
  /\ WithinCutoff(b)
  /\ \/ proc.status = "dry_run"
     \/ proc.status = "paper_active" /\ stat.parity

Admitted(k, b) == IF ~MayEnter(b) THEN 0 ELSE IF k < Remaining THEN k ELSE Remaining

\* The expected bar is computed after the broker calls; it arrives with k
\* confirmations, or is missing.
CycleBars ==
  /\ proc.pc = "c_bars"
  /\ \/ Raise("c_failed")
     \/ /\ \/ /\ \E k \in Confirmations :
                  proc' = [proc EXCEPT !.pc = "c_each", !.left = Admitted(k, time), !.valid = 1]
              /\ UNCHANGED faults
           \/ Fault /\ Goto("c_each")
        /\ UNCHANGED <<time, fired, manual, status, runs, stat, proposals, placed, position>>

\* The next candidate is proposed, submitted, or passed over by its own checks.
\* Only a submission looks at the status again.
CycleEach ==
  /\ proc.pc = "c_each" /\ proc.left > 0
  /\ \/ Raise("c_failed")
     \/ /\ \/ /\ proc.status = "dry_run"
              /\ proposals' = proposals + 1
              /\ proc' = [proc EXCEPT !.left = @ - 1, !.made = @ + 1]
              /\ UNCHANGED <<placed, position>>
           \/ /\ proc.status = "paper_active" /\ position = "none"
              /\ IF status = "paper_active"
                   THEN /\ placed' = placed + 1 /\ position' = "unrecorded"
                        /\ proc' = [proc EXCEPT !.left = @ - 1, !.pc = "c_fill"]
                   ELSE Goto("c_failed") /\ UNCHANGED <<placed, position>>
              /\ UNCHANGED proposals
           \/ /\ proc' = [proc EXCEPT !.left = @ - 1]
              /\ UNCHANGED <<proposals, placed, position>>
        /\ UNCHANGED <<time, fired, manual, faults, status, runs, stat>>

\* The answer, the fill and the row, each in a call of its own: the position is
\* recorded, or nothing is left of the entry.  An incident ends the candidates,
\* with a position that could not be closed or an entry nobody accounts for.
CycleFill ==
  /\ proc.pc = "c_fill"
  /\ \/ Raise("c_failed")
     \/ /\ \/ position' \in {"open", "none"} /\ Goto("c_each") /\ UNCHANGED faults
           \/ /\ Fault /\ position' \in {"open", "unrecorded"}
              /\ proc' = [proc EXCEPT !.pc = "c_each", !.left = 0]
        /\ UNCHANGED <<time, fired, manual, status, runs, stat, proposals, placed>>

CycleFinish ==
  /\ proc.pc = "c_each" /\ proc.left = 0
  /\ Finish("none", "work")
  /\ Goto("c_stat")
  /\ UNCHANGED <<time, fired, manual, faults, status, stat, proposals, placed, position>>

\* _accumulate_session_stat, in a transaction of its own.  The budget is one
\* slot long.  An exception here still turns the completed row into a failed one.
CycleStat ==
  /\ proc.pc = "c_stat"
  /\ \/ Raise("c_failed")
     \/ /\ \E over \in BOOLEAN :
             /\ over => Lasted > 0
             /\ Lasted > 1 => over
             /\ stat' = [stat EXCEPT !.cycles_run = @ + 1, !.expected = @ + 1,
                           !.valid = @ + proc.valid, !.proposals = @ + proc.made,
                           !.guardrails = TRUE,
                           !.cycles_over_budget = @ + IF over THEN 1 ELSE 0]
        /\ Exit
        /\ UNCHANGED <<time, fired, manual, faults, status, runs, proposals, placed,
                       position>>

(***************************************************************************)
(* run_closeout_stage                                                       *)
(***************************************************************************)
\* Too early: completed.  Account unreachable: failed.  A gate that raises is
\* caught by nobody.
CloseoutGate ==
  /\ proc.pc = "x_gate"
  /\ \/ time < CloseFrom /\ Finish("none", "nothing") /\ Exit /\ UNCHANGED faults
     \/ time >= CloseFrom /\ Fault /\ Finish("failed", "nothing") /\ Exit
     \/ time >= CloseFrom /\ Fault /\ Exit /\ UNCHANGED runs
     \/ time >= CloseFrom /\ Goto("x_close") /\ UNCHANGED <<faults, runs>>
  /\ UNCHANGED <<time, fired, manual, status, stat, proposals, placed, position>>

\* Reconcile, adopt, cancel and close; what could not be closed is kept in left.
\* An entry whose row does not say filled is no candidate for adoption, and one
\* whose listing failed is not looked for: it stays where it is.
CloseoutClose ==
  /\ proc.pc = "x_close"
  /\ \/ /\ position' = "none" /\ UNCHANGED faults
        /\ proc' = [proc EXCEPT !.pc = "x_read", !.left = 0]
     \/ /\ position = "unrecorded" /\ UNCHANGED <<position, faults>>
        /\ proc' = [proc EXCEPT !.pc = "x_read", !.left = 0]
     \/ /\ position # "none" /\ Fault
        /\ position' = IF position = "unrecorded" THEN "open" ELSE position
        /\ proc' = [proc EXCEPT !.pc = "x_read", !.left = 1]
  /\ UNCHANGED <<time, fired, manual, status, runs, stat, proposals, placed>>

\* The broker's positions are looked up for the symbols acted on: those with a
\* row, and an entry without one only where the discovery saw that it is ours and
\* could not adopt it; else it counts as flat.
CloseoutReadback ==
  /\ proc.pc = "x_read"
  /\ \/ /\ \E found \in BOOLEAN :
             /\ found => position \in {"open", "unrecorded"}
             /\ position = "open" => found
             /\ stat' = [stat EXCEPT !.no_open = (proc.left = 0),
                                     !.flat = IF found THEN "no" ELSE "yes"]
        /\ UNCHANGED faults
     \/ /\ Fault    \* the readback failed
        /\ stat' = [stat EXCEPT !.no_open = (proc.left = 0), !.flat = "unset"]
  /\ runs' = [runs EXCEPT ![proc.run].did = "work"]
  /\ Goto("x_finish")
  /\ UNCHANGED <<time, fired, manual, status, proposals, placed, position>>

CloseoutFinish ==
  /\ proc.pc = "x_finish"
  /\ Finish("none", "work")
  /\ Exit
  /\ UNCHANGED <<time, fired, manual, faults, status, stat, proposals, placed, position>>

SessionNext ==
  \/ Tick \/ BrokerExit \/ Crash
  \/ \E s \in Stages : Trigger(s) \/ Miss(s) \/ ByHand(s)
  \/ \E to \in {"dry_run", "suspended", "paper_active"} : MoveStatus(to)
  \/ PreflightGate \/ PreflightParity \/ PreflightFinish
  \/ CycleGate \/ CycleBars \/ CycleEach \/ CycleFill \/ CycleFinish \/ CycleStat
  \/ MarkFailed \/ BumpFailed
  \/ CloseoutGate \/ CloseoutClose \/ CloseoutReadback \/ CloseoutFinish

SessionSpec == SessionInit /\ [][SessionNext]_sessionVars

(***************************************************************************)
(* The two reports on a session and what they may be trusted for.           *)
(***************************************************************************)
SessionTypeOK ==
  /\ time \in 0 .. LastTick /\ fired \subseteq Stages
  /\ manual \in 0 .. MaxManual
  /\ faults \in 0 .. MaxFaults
  /\ status \in {"dry_run", "suspended", "paper_active"}
  /\ \A i \in DOMAIN runs :
       runs[i] \in [stage : Stages, start : 0 .. LastTick,
                    status : {"running", "completed", "failed"}, did : {"nothing", "work"}]
  /\ DOMAIN stat = DOMAIN NewStat
  /\ proposals \in Nat /\ placed \in 0 .. MaxNew
  /\ position \in {"none", "open", "exited", "unrecorded"}
  /\ proc.stage \in Stages \union {"none"}
  /\ proc.run \in {0} \union DOMAIN runs

Rows(s) == {i \in DOMAIN runs : runs[i].stage = s}
In(rows, st) == {i \in rows : runs[i].status = st}
Worked(rows) == {i \in rows : runs[i].did = "work"}
Starts(rows) == {runs[i].start : i \in rows}

(***************************************************************************)
(* check_schedule_health.py, run now.                                       *)
(***************************************************************************)
Stuck(rows) == {i \in In(rows, "running") : time - runs[i].start > StaleTicks}
Trouble(rows) == In(rows, "failed") \union Stuck(rows)

PreflightHealthy ==
  /\ Trouble(Rows("preflight")) = {}
  /\ 0 \in Starts(In(Rows("preflight"), "completed"))   \* else absent or late

\* A slot is expected once its five minutes are over.
ExpectedSoFar == {s \in 1 .. Cutoff : s + 1 <= time}
CyclesHealthy ==
  /\ Trouble(Rows("cycle")) = {}
  /\ ExpectedSoFar \subseteq Starts(In(Rows("cycle"), "completed"))

CloseoutHealthy ==
  \/ time < GuardianFrom
  \/ LET rows == {i \in Rows("closeout") : runs[i].start >= GuardianFrom}
     IN Trouble(rows) = {} /\ In(rows, "completed") # {}

HealthPass == PreflightHealthy /\ CyclesHealthy /\ CloseoutHealthy

(***************************************************************************)
(* evaluate_dry_run_session_gate.  The criteria about rows that are not     *)
(* part of this model (duplicates, discrepancies, unprotected positions,    *)
(* blocking rows, fixtures) are left out: the gate here passes more often.  *)
(***************************************************************************)
GatePass ==
  /\ stat.cycles_run >= MinCycles /\ stat.cycles_run > 0
  /\ stat.expected > 0 /\ stat.valid > 0
  /\ 100 * stat.valid >= 95 * stat.expected
  /\ stat.cycles_over_budget = 0 /\ stat.failed_cycles = 0 /\ stat.overlapping_cycles = 0
  /\ stat.proposals <= MaxNew
  /\ stat.guardrails /\ stat.parity
  /\ stat.no_open /\ stat.flat = "yes"

-----------------------------------------------------------------------------
\* The gate passes only a day on which enough cycles did their whole work and
\* the guardian closed the day: no cycle that raised, crashed or was refused is
\* counted for one that ran (authorization.py:66, run_slc_live.py:1377).
GatePassMeansWorked ==
  GatePass =>
    /\ Cardinality(Worked(Rows("cycle"))) >= MinCycles
    /\ Worked(Rows("closeout")) # {}

\* After the readback that found the day flat, the one the gate relies on, no
\* entry is sent to the broker: by no cycle, however slow, late or launched by
\* hand (run_slc_live.py:69 and 2259).  That the readback found everything is
\* not claimed: an entry without a row counts as flat.
NoEntryAfterFlat == [][stat.flat = "yes" => placed' = placed]_sessionVars

\* A clean bill of schedule health means that the preflight and every cycle due
\* so far did their work in their own slot, and that none of them failed: a
\* preflight or a cycle that raised, died or is stuck is not reported as one
\* that ran.  A closeout is healthy once it completed, with nothing done too
\* (check_schedule_health.py, run_slc_live.py:_finish_cycle_run).
HealthPassMeansWorked ==
  HealthPass =>
    /\ 0 \in Starts(Worked(Rows("preflight")))
    /\ ExpectedSoFar \subseteq Starts(Worked(Rows("cycle")))

\* Over all cycles of the day, those that died before their statistics
\* included, no more simulated entries are proposed than the daily cap allows,
\* and the statistics never show more than there are
\* (run_slc_live.py:_dry_run_proposals_for_session).
ProposalsCapped ==
  /\ proposals <= MaxNew
  /\ stat.proposals <= proposals
=============================================================================
