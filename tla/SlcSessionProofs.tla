-------------------------- MODULE SlcSessionProofs --------------------------
(***************************************************************************)
(* What SlcSession promises of a day for any number of slots, cycles,       *)
(* confirmations and misfortunes: its types, the cap on simulated entries,  *)
(* and that neither report on the session passes a day whose stages did not *)
(* do their work.                                                           *)
(***************************************************************************)
EXTENDS SlcSession, FiniteSetTheorems, TLAPS

USE SessionAssumption

(***************************************************************************)
(* The inductive invariant.                                                 *)
(***************************************************************************)
RunRow == [stage : Stages, start : 0 .. LastTick,
           status : {"running", "completed", "failed"}, did : {"nothing", "work"}]
StatRow ==
  [cycles_run : Nat, failed_cycles : Nat, overlapping_cycles : Nat,
   cycles_over_budget : Nat, expected : Nat, valid : Nat, proposals : Nat,
   guardrails : BOOLEAN, parity : BOOLEAN, no_open : BOOLEAN, flat : {"unset", "no", "yes"}]
Process ==
  [stage : Stages \union {"none"}, run : Nat, left : Nat, made : Nat, valid : Nat,
   status : {"none", "dry_run", "suspended", "paper_active"},
   pc : {"idle", "p_gate", "p_parity", "p_finish", "p_failed", "c_gate", "c_bars", "c_each", "c_fill",
         "c_stat", "c_failed", "c_bump", "x_gate", "x_close", "x_read", "x_finish"}]

Types ==
  /\ runs \in Seq(RunRow) /\ stat \in StatRow /\ proc \in Process
  /\ time \in 0 .. LastTick /\ fired \subseteq Stages
  /\ manual \in 0 .. MaxManual /\ faults \in 0 .. MaxFaults
  /\ status \in {"dry_run", "suspended", "paper_active"}
  /\ proposals \in Nat /\ placed \in Nat
  /\ position \in {"none", "open", "exited", "unrecorded"}

\* A process works on the row of its own stage.
StageAt(l) ==
  IF l \in {"p_gate", "p_parity", "p_finish", "p_failed"} THEN "preflight"
  ELSE IF l \in {"x_gate", "x_close", "x_read", "x_finish"} THEN "closeout" ELSE "cycle"
OwnRow ==
  /\ proc.pc = "idle" => proc.run = 0
  /\ proc.pc # "idle" => proc.run \in DOMAIN runs /\ runs[proc.run].stage = StageAt(proc.pc)

\* A cycle admits no more than the day has left.
WithinCap ==
  /\ proposals <= MaxNew /\ placed <= MaxNew
  /\ proc.pc \in {"c_gate", "c_bars"} => proc.left = 0
  /\ proc.pc \in {"c_each", "c_fill"} =>
       /\ proc.status = "dry_run" => proposals + proc.left <= MaxNew
       /\ proc.status = "paper_active" => placed + proc.left <= MaxNew

\* The statistics count what a process has made once it writes them.
CountedOnce == stat.proposals + proc.made <= proposals

\* A row of a preflight or a cycle is completed only when the work is done, and
\* a cycle's only in the step before its statistics.
CompletedWorked ==
  \A i \in DOMAIN runs :
    runs[i].stage # "closeout" /\ runs[i].status = "completed" => runs[i].did = "work"
BeforeWork == {"p_gate", "p_parity", "p_finish",
               "c_gate", "c_bars", "c_each", "c_fill", "x_gate"}
NotYet == proc.pc \in BeforeWork => runs[proc.run].did = "nothing"

\* Each counted cycle has worked; the one about to be counted has too.
CyclesCounted ==
  stat.cycles_run + (IF proc.pc = "c_stat" THEN 1 ELSE 0) <= Cardinality(Worked(Rows("cycle")))

\* After a readback that found the account flat no cycle has a candidate left.
FlatStays ==
  /\ proc.pc \in {"x_close", "x_read", "x_finish"} => time >= CloseFrom
  /\ stat.flat = "yes" =>
       /\ time >= CloseFrom /\ Worked(Rows("closeout")) # {}
       /\ proc.pc # "c_fill"
       /\ proc.pc = "c_each" => proc.left = 0

SessionInv ==
  /\ Types /\ OwnRow /\ WithinCap /\ CountedOnce /\ CompletedWorked /\ NotYet
  /\ CyclesCounted /\ FlatStays

(***************************************************************************)
(* Rows.                                                                    *)
(***************************************************************************)
\* No row is taken back: not its stage, and not work once done.
RowsKept ==
  /\ DOMAIN runs \subseteq DOMAIN runs'
  /\ \A i \in DOMAIN runs : /\ runs'[i].stage = runs[i].stage
                            /\ runs[i].did = "work" => runs'[i].did = "work"

\* The rows of a stage that have done their work, in any table of runs.
WorkedIn(rs, s) == {i \in DOMAIN rs : rs[i].stage = s /\ rs[i].did = "work"}

\* The worked rows of a stage, by their places.
LEMMA WorkedRows ==
  ASSUME NEW s
  PROVE  /\ Worked(Rows(s)) = WorkedIn(runs, s)
         /\ Worked(Rows(s))' = WorkedIn(runs', s)
BY DEF Worked, Rows, WorkedIn

\* They are finitely many.
LEMMA WorkedFinite ==
  ASSUME NEW rs \in Seq(RunRow), NEW s
  PROVE  IsFiniteSet(WorkedIn(rs, s)) /\ Cardinality(WorkedIn(rs, s)) \in Nat
<1>1. DOMAIN rs = 1 .. Len(rs) /\ Len(rs) \in Nat
  OBVIOUS
<1>2. IsFiniteSet(DOMAIN rs)
  BY <1>1, FS_Interval
<1>3. WorkedIn(rs, s) \subseteq DOMAIN rs
  BY DEF WorkedIn
<1> QED BY <1>2, <1>3, FS_Subset, FS_CardinalityType

\* They only grow.
LEMMA WorkedGrows ==
  ASSUME Types, runs' \in Seq(RunRow), RowsKept, NEW s
  PROVE  /\ WorkedIn(runs, s) \subseteq WorkedIn(runs', s)
         /\ Cardinality(WorkedIn(runs, s)) <= Cardinality(WorkedIn(runs', s))
<1>1. WorkedIn(runs, s) \subseteq WorkedIn(runs', s)
  BY DEF RowsKept, WorkedIn
<1>2. IsFiniteSet(WorkedIn(runs', s))
  BY WorkedFinite
<1> QED BY <1>1, <1>2, FS_Subset

\* What _finish_cycle_run writes on the row of its own process.
LEMMA RowWritten ==
  ASSUME Types, proc.run \in DOMAIN runs, NEW st \in {"none", "failed"},
         NEW did \in {"nothing", "work"}, Finish(st, did)
  PROVE  /\ runs' \in Seq(RunRow) /\ DOMAIN runs' = DOMAIN runs
         /\ \A i \in DOMAIN runs : i # proc.run => runs'[i] = runs[i]
         /\ runs'[proc.run].stage = runs[proc.run].stage
         /\ runs'[proc.run].did = did
         /\ runs'[proc.run].status = IF st = "none" THEN "completed" ELSE st
<1> DEFINE row == [runs[proc.run] EXCEPT !.status = FinalStatus(st), !.did = did]
<1>1. FinalStatus(st) = (IF st = "none" THEN "completed" ELSE st)
  BY DEF FinalStatus
<1>2. runs[proc.run] \in RunRow
  BY DEF Types
<1>3. /\ row \in RunRow /\ row.stage = runs[proc.run].stage /\ row.did = did
      /\ row.status = IF st = "none" THEN "completed" ELSE st
  BY <1>1, <1>2 DEF RunRow
<1>4. runs' = [runs EXCEPT ![proc.run] = row]
  BY DEF Finish
<1> HIDE DEF row
<1> QED BY <1>3, <1>4 DEF Types

\* What a failing stage has done so far.
LEMMA OwnRowTyped ==
  ASSUME SessionInv, proc.pc # "idle"
  PROVE  Row.did \in {"nothing", "work"}
<1>1. proc.run \in DOMAIN runs /\ runs \in Seq(RunRow)
  BY DEF SessionInv, OwnRow, Types
<1>2. runs[proc.run] \in RunRow
  BY <1>1
<1> QED BY <1>2 DEF Row, RunRow

\* main appends a row that says running.
LEMMA RowAppended ==
  ASSUME Types, NEW s \in Stages, BeginRun(s)
  PROVE  /\ runs' \in Seq(RunRow) /\ DOMAIN runs' = DOMAIN runs \union {Len(runs) + 1}
         /\ Len(runs) + 1 \notin DOMAIN runs /\ Len(runs) + 1 \in Nat
         /\ \A i \in DOMAIN runs : runs'[i] = runs[i]
         /\ runs'[Len(runs) + 1].stage = s /\ runs'[Len(runs) + 1].did = "nothing"
         /\ runs'[Len(runs) + 1].status = "running"
<1> DEFINE row == [stage |-> s, start |-> time, status |-> "running", did |-> "nothing"]
<1>1. /\ row \in RunRow /\ row.stage = s /\ row.did = "nothing" /\ row.status = "running"
  BY DEF RunRow, Types
<1>2. runs' = Append(runs, row)
  BY DEF BeginRun
<1>3. runs \in Seq(RunRow)
  BY DEF Types
<1> HIDE DEF row
<1> QED BY <1>1, <1>2, <1>3

\* A step that counts no cycle keeps the count covered.
LEMMA CountKept ==
  ASSUME SessionInv, Types', RowsKept, stat'.cycles_run = stat.cycles_run,
         proc'.pc = "c_stat" => proc.pc = "c_stat"
  PROVE  CyclesCounted'
<1> DEFINE before == Cardinality(WorkedIn(runs, "cycle"))
           after == Cardinality(WorkedIn(runs', "cycle"))
<1>1. runs \in Seq(RunRow) /\ runs' \in Seq(RunRow) /\ stat.cycles_run \in Nat
  BY DEF SessionInv, Types, StatRow
<1>2. before <= after /\ before \in Nat /\ after \in Nat
  BY <1>1, WorkedGrows, WorkedFinite DEF SessionInv
<1>3. stat.cycles_run + (IF proc.pc = "c_stat" THEN 1 ELSE 0) <= before
  BY WorkedRows DEF SessionInv, CyclesCounted
<1> HIDE DEF before, after
<1>4. stat'.cycles_run + (IF proc'.pc = "c_stat" THEN 1 ELSE 0) <= after
  BY <1>1, <1>2, <1>3
<1>5. after = Cardinality(Worked(Rows("cycle")))'
  BY WorkedRows DEF after
<1> QED BY <1>4, <1>5 DEF CyclesCounted

\* A step after which no entry is made and no readback is taken keeps flat flat.
LEMMA FlatKept ==
  ASSUME SessionInv, Types', RowsKept, stat'.flat = stat.flat, time' >= time,
         proc'.pc = "c_fill" => proc.pc = "c_fill",
         proc'.pc \in {"x_close", "x_read", "x_finish"} =>
           proc.pc \in {"x_close", "x_read", "x_finish"} \/ time' >= CloseFrom,
         proc'.pc = "c_each" => proc.pc = "c_each" /\ proc'.left <= proc.left
  PROVE  FlatStays'
<1>1. /\ time \in Nat /\ time' \in Nat /\ CloseFrom \in Nat
      /\ proc.left \in Nat /\ proc'.left \in Nat
  BY DEF SessionInv, Types, Process
<1>2. WorkedIn(runs, "closeout") \subseteq WorkedIn(runs', "closeout")
  BY WorkedGrows DEF SessionInv, Types
<1>3. Worked(Rows("closeout")) # {} => Worked(Rows("closeout"))' # {}
  BY <1>2, WorkedRows
<1> QED BY <1>1, <1>3 DEF SessionInv, FlatStays

(***************************************************************************)
(* Steps.                                                                   *)
(***************************************************************************)
LEMMA InitSessionInv ==
  ASSUME SessionInit
  PROVE  SessionInv
<1>1. Types
  BY DEF SessionInit, Types, NewStat, StatRow, Idle, Process
<1>2. OwnRow /\ WithinCap /\ CountedOnce /\ CompletedWorked /\ NotYet /\ FlatStays
  BY DEF SessionInit, NewStat, Idle, OwnRow, WithinCap, CountedOnce, CompletedWorked, NotYet,
     BeforeWork, FlatStays
<1>3. CyclesCounted
  <2>1. WorkedIn(runs, "cycle") = {}
    BY DEF SessionInit, WorkedIn
  <2>2. Cardinality(Worked(Rows("cycle"))) = 0
    BY <2>1, WorkedRows, FS_EmptySet
  <2>3. stat.cycles_run = 0 /\ proc.pc = "idle"
    BY DEF SessionInit, NewStat, Idle
  <2> QED BY <2>2, <2>3 DEF CyclesCounted
<1> QED BY <1>1, <1>2, <1>3 DEF SessionInv

\* The clock, the machine, the broker and the operator, beside any process.
LEMMA AroundKeeps ==
  ASSUME SessionInv, Types', UNCHANGED <<runs, proc, proposals, placed>>,
         stat'.cycles_run = stat.cycles_run, stat'.proposals = stat.proposals,
         stat'.flat = stat.flat, time' >= time
  PROVE  SessionInv'
<1>1. OwnRow' /\ WithinCap' /\ CountedOnce' /\ CompletedWorked' /\ NotYet'
  BY DEF SessionInv, OwnRow, WithinCap, CountedOnce, CompletedWorked, NotYet
<1>2. RowsKept
  BY DEF RowsKept
<1>3. CyclesCounted'
  BY <1>2, CountKept
<1>4. FlatStays'
  <2>1. proc.left \in Nat
    BY DEF SessionInv, Types, Process
  <2> QED BY <1>2, <2>1, FlatKept
<1> QED BY <1>1, <1>3, <1>4 DEF SessionInv

\* A process takes its row and starts.
LEMMA BeginKeeps ==
  ASSUME SessionInv, Types', NEW s \in Stages, proc = Idle, BeginRun(s),
         UNCHANGED <<stat, time, proposals, placed>>
  PROVE  SessionInv'
<1>1. /\ DOMAIN runs' = DOMAIN runs \union {Len(runs) + 1}
      /\ Len(runs) + 1 \notin DOMAIN runs
      /\ \A i \in DOMAIN runs : runs'[i] = runs[i]
      /\ runs'[Len(runs) + 1].stage = s /\ runs'[Len(runs) + 1].did = "nothing"
      /\ runs'[Len(runs) + 1].status = "running"
  BY RowAppended DEF SessionInv
<1>2. /\ proc'.pc = FirstStep(s) /\ proc'.run = Len(runs) + 1
      /\ proc'.made = 0 /\ proc.made = 0 /\ proc'.left = 0
  BY DEF BeginRun, Idle
<1>3. OwnRow' /\ NotYet'
  BY <1>1, <1>2 DEF OwnRow, StageAt, NotYet, FirstStep, Stages
<1>4. WithinCap' /\ CountedOnce'
  BY <1>2 DEF SessionInv, WithinCap, CountedOnce, FirstStep, Stages
<1>5. CompletedWorked'
  BY <1>1 DEF SessionInv, CompletedWorked
<1>6. RowsKept
  BY <1>1 DEF RowsKept
<1>7. proc'.pc \in {"p_gate", "c_gate", "x_gate"}
  BY <1>2 DEF FirstStep
<1>8. CyclesCounted'
  BY <1>6, <1>7, CountKept
<1>9. FlatStays'
  BY <1>6, <1>7, FlatKept DEF SessionInv, Types
<1> QED BY <1>3, <1>4, <1>5, <1>8, <1>9 DEF SessionInv

\* A process moves on and writes no row: its gates, its statistics apart, and
\* every exception on the way to its handler.
LEMMA MoveKeeps ==
  ASSUME SessionInv, Types', UNCHANGED <<runs, time, proposals, placed>>,
         stat'.cycles_run = stat.cycles_run, stat'.proposals = stat.proposals,
         stat'.flat = stat.flat,
         proc.pc # "idle", proc'.pc # "idle", StageAt(proc'.pc) = StageAt(proc.pc),
         proc'.pc \notin {"c_each", "c_fill", "c_stat"},
         proc'.pc \in {"c_gate", "c_bars"} => proc.pc = "c_gate" /\ proc'.left = proc.left,
         proc'.run = proc.run, proc'.made = proc.made,
         proc'.pc \in BeforeWork => proc.pc \in BeforeWork,
         proc'.pc \in {"x_close", "x_read", "x_finish"} =>
           proc.pc \in {"x_close", "x_read", "x_finish"} \/ time >= CloseFrom
  PROVE  SessionInv'
<1>1. OwnRow' /\ NotYet' /\ WithinCap' /\ CountedOnce' /\ CompletedWorked'
  BY DEF SessionInv, OwnRow, NotYet, WithinCap, CountedOnce, CompletedWorked
<1>2. RowsKept
  BY DEF RowsKept
<1>3. CyclesCounted'
  BY <1>2, CountKept
<1>4. FlatStays'
  BY <1>2, FlatKept DEF SessionInv, Types
<1> QED BY <1>1, <1>3, <1>4 DEF SessionInv

\* The process is gone, and its row as it was.
LEMMA ExitKeeps ==
  ASSUME SessionInv, Types', UNCHANGED <<runs, time, proposals, placed>>,
         stat'.cycles_run = stat.cycles_run, stat'.proposals = stat.proposals,
         stat'.flat = stat.flat, Exit
  PROVE  SessionInv'
<1>1. proc'.pc = "idle" /\ proc'.run = 0 /\ proc'.made = 0 /\ proc.made \in Nat
  BY DEF Exit, Idle, SessionInv, Types, Process
<1>2. OwnRow' /\ NotYet' /\ WithinCap' /\ CompletedWorked'
  BY <1>1 DEF SessionInv, OwnRow, NotYet, BeforeWork, WithinCap, CompletedWorked
<1>6. CountedOnce'
  <2>1. stat.proposals \in Nat /\ proposals \in Nat
    BY DEF SessionInv, Types, StatRow
  <2> QED BY <1>1, <2>1 DEF SessionInv, CountedOnce
<1>3. RowsKept
  BY DEF RowsKept
<1>4. CyclesCounted'
  BY <1>1, <1>3, CountKept
<1>5. FlatStays'
  BY <1>1, <1>3, FlatKept DEF SessionInv, Types
<1> QED BY <1>2, <1>4, <1>5, <1>6 DEF SessionInv

\* A process closes its row.  Only a cycle that has done its work goes on to
\* its statistics.
LEMMA FinishKeeps ==
  ASSUME SessionInv, Types', UNCHANGED <<time, stat, proposals, placed, position>>,
         proc.pc \in {"p_finish", "p_failed", "c_failed", "x_gate", "x_finish"},
         NEW st \in {"none", "failed"}, NEW did \in {"nothing", "work"}, Finish(st, did),
         proc.pc \in {"p_finish", "x_finish"} => did = "work",
         proc.pc \in {"p_failed", "c_failed"} => did = Row.did,
         proc.pc = "p_failed" \/ proc.pc = "c_failed" => st = "failed",
         Exit \/ (proc.pc = "c_failed" /\ Goto("c_bump"))
  PROVE  SessionInv'
<1>1. proc.run \in DOMAIN runs /\ runs[proc.run].stage = StageAt(proc.pc)
  BY DEF SessionInv, OwnRow
<1>2. /\ DOMAIN runs' = DOMAIN runs
      /\ \A i \in DOMAIN runs : i # proc.run => runs'[i] = runs[i]
      /\ runs'[proc.run].stage = runs[proc.run].stage /\ runs'[proc.run].did = did
      /\ runs'[proc.run].status = IF st = "none" THEN "completed" ELSE st
  BY <1>1, RowWritten DEF SessionInv
<1>3. proc'.pc \in {"idle", "c_bump"} /\ proc'.made <= proc.made
  <2>1. proc \in Process /\ proc.made \in Nat
    BY DEF SessionInv, Types, Process
  <2>2. CASE Exit
    BY <2>1, <2>2 DEF Exit, Idle
  <2>3. CASE Goto("c_bump")
    BY <2>1, <2>3 DEF Goto, Process
  <2> QED BY <2>2, <2>3
<1>4. OwnRow' /\ NotYet'
  <2>1. CASE Exit
    BY <2>1 DEF Exit, Idle, OwnRow, NotYet, BeforeWork
  <2>2. CASE proc.pc = "c_failed" /\ Goto("c_bump")
    <3>1. proc'.pc = "c_bump" /\ proc'.run = proc.run
      BY <2>2 DEF Goto, SessionInv, Types, Process
    <3> QED BY <1>1, <1>2, <2>2, <3>1 DEF OwnRow, StageAt, NotYet, BeforeWork
  <2> QED BY <2>1, <2>2
<1>5. WithinCap' /\ CountedOnce'
  <2>1. /\ stat.proposals \in Nat /\ proposals \in Nat
        /\ proc.made \in Nat /\ proc'.made \in Nat
    BY DEF SessionInv, Types, Process, StatRow
  <2> QED BY <1>3, <2>1 DEF SessionInv, WithinCap, CountedOnce
<1>6. CompletedWorked'
  BY <1>1, <1>2 DEF SessionInv, CompletedWorked, StageAt
<1>7. RowsKept
  BY <1>2 DEF RowsKept, Row, SessionInv, NotYet, BeforeWork
<1>8. CyclesCounted'
  BY <1>3, <1>7, CountKept
<1>9. FlatStays'
  BY <1>3, <1>7, FlatKept DEF SessionInv, Types
<1> QED BY <1>4, <1>5, <1>6, <1>8, <1>9 DEF SessionInv

(***************************************************************************)
(* The cycle.                                                               *)
(***************************************************************************)
LEMMA AdmittedWithinCap ==
  ASSUME Types, WithinCap, NEW k \in Confirmations, NEW b \in Nat
  PROVE  /\ Admitted(k, b) \in Nat
         /\ proc.status = "dry_run" => proposals + Admitted(k, b) <= MaxNew
         /\ proc.status = "paper_active" => placed + Admitted(k, b) <= MaxNew
         /\ b > Cutoff => Admitted(k, b) = 0
<1>1. /\ proposals \in Nat /\ placed \in Nat /\ k \in Nat
      /\ proposals <= MaxNew /\ placed <= MaxNew
  BY DEF Types, WithinCap
<1>2. /\ Remaining \in Nat
      /\ proc.status = "dry_run" => proposals + Remaining <= MaxNew
      /\ proc.status = "paper_active" => placed + Remaining <= MaxNew
  BY <1>1 DEF Remaining, ProposalsSoFar
<1>3. Admitted(k, b) \in Nat /\ Admitted(k, b) <= Remaining
  BY <1>1, <1>2 DEF Admitted
<1>4. b > Cutoff => Admitted(k, b) = 0
  BY DEF Admitted, MayEnter, WithinCutoff
<1> HIDE DEF Admitted
<1> QED BY <1>1, <1>2, <1>3, <1>4

\* A cycle admits what the day has left, and nothing once the day is closed.
LEMMA CycleBarsKeeps ==
  ASSUME SessionInv, Types', CycleBars
  PROVE  SessionInv'
<1> DEFINE Opened(n) ==
      /\ proc.pc = "c_bars" /\ proc'.pc = "c_each" /\ proc'.left = n
      /\ proc'.run = proc.run /\ proc'.made = proc.made /\ proc'.status = proc.status
      /\ UNCHANGED <<time, runs, stat, proposals, placed, position>>
<1>1. proc \in Process
  BY DEF SessionInv, Types
<1>2. CASE Raise("c_failed")
  <2>1. /\ proc.pc = "c_bars" /\ proc'.pc = "c_failed"
        /\ proc'.run = proc.run /\ proc'.made = proc.made
        /\ UNCHANGED <<time, runs, stat, proposals, placed, position>>
    BY <1>1, <1>2 DEF CycleBars, Raise, Goto, Process
  <2> QED BY <2>1, MoveKeeps DEF StageAt, BeforeWork
<1>3. CASE \E n \in {0} \union {Admitted(k, time) : k \in Confirmations} : Opened(n)
  <2>1. PICK n \in {0} \union {Admitted(k, time) : k \in Confirmations} : Opened(n)
    BY <1>3
  <2>2. /\ n \in Nat
        /\ proc.status = "dry_run" => proposals + n <= MaxNew
        /\ proc.status = "paper_active" => placed + n <= MaxNew
        /\ time > Cutoff => n = 0
    <3>1. CASE n = 0
      <4>1. /\ proposals \in Nat /\ placed \in Nat
            /\ proposals <= MaxNew /\ placed <= MaxNew
        BY DEF SessionInv, WithinCap, Types
      <4> QED BY <3>1, <4>1
    <3>2. CASE \E k \in Confirmations : n = Admitted(k, time)
      <4>1. Types /\ WithinCap /\ time \in Nat
        BY DEF SessionInv, Types
      <4> QED BY <3>2, <4>1, AdmittedWithinCap
    <3>3. n = 0 \/ \E k \in Confirmations : n = Admitted(k, time)
      BY <2>1
    <3> HIDE DEF Opened
    <3> QED BY <3>1, <3>2, <3>3
  <2>3. OwnRow' /\ NotYet' /\ CountedOnce' /\ CompletedWorked'
    BY <2>1 DEF SessionInv, OwnRow, StageAt, NotYet, BeforeWork, CountedOnce, CompletedWorked
  <2>4. WithinCap'
    BY <2>1, <2>2 DEF SessionInv, WithinCap
  <2>5. RowsKept
    BY <2>1 DEF RowsKept
  <2>6. CyclesCounted'
    BY <2>1, <2>5, CountKept
  <2>7. FlatStays'
    <3>1. stat.flat = "yes" => n = 0
      <4>1. time \in Nat
        BY DEF SessionInv, Types
      <4> QED BY <2>2, <4>1 DEF SessionInv, FlatStays
    <3>2. Worked(Rows("closeout"))' = Worked(Rows("closeout"))
      BY <2>1 DEF Worked, Rows
    <3> QED BY <2>1, <3>1, <3>2 DEF SessionInv, FlatStays
  <2> QED BY <2>3, <2>4, <2>6, <2>7 DEF SessionInv
<1>4. ASSUME CycleBars, ~Raise("c_failed")
      PROVE  \E n \in {0} \union {Admitted(k, time) : k \in Confirmations} : Opened(n)
  <2>1. /\ proc.pc = "c_bars" /\ proc.left = 0
        /\ UNCHANGED <<time, runs, stat, proposals, placed, position>>
    BY <1>4 DEF CycleBars, SessionInv, WithinCap
  <2>2. CASE \E k \in Confirmations :
               proc' = [proc EXCEPT !.pc = "c_each", !.left = Admitted(k, time), !.valid = 1]
    <3>1. PICK k \in Confirmations :
            proc' = [proc EXCEPT !.pc = "c_each", !.left = Admitted(k, time), !.valid = 1]
      BY <2>2
    <3>2. Opened(Admitted(k, time))
      BY <1>1, <2>1, <3>1 DEF Process
    <3> QED BY <3>2
  <2>3. CASE Goto("c_each")
    <3>1. Opened(0)
      BY <1>1, <2>1, <2>3 DEF Goto, Process
    <3> QED BY <3>1
  <2> QED BY <1>4, <2>2, <2>3 DEF CycleBars
<1> QED BY <1>2, <1>3, <1>4

\* One candidate: a proposal or an entry takes the place it was admitted to.
LEMMA CycleEachKeeps ==
  ASSUME SessionInv, Types', CycleEach
  PROVE  SessionInv'
<1> DEFINE Handled ==
      /\ proc'.pc \in {"c_each", "c_fill"} /\ proc'.run = proc.run
      /\ proc'.status = proc.status /\ proc'.left = proc.left - 1
      /\ UNCHANGED <<time, runs, stat>>
      /\ \/ /\ proc.status = "dry_run" /\ proposals' = proposals + 1
            /\ proc'.made = proc.made + 1 /\ placed' = placed
         \/ /\ proc.status = "paper_active" /\ placed' = placed + 1
            /\ proc'.made = proc.made /\ proposals' = proposals
         \/ proc'.made = proc.made /\ UNCHANGED <<proposals, placed>>
<1>1. /\ proc \in Process /\ proc.pc = "c_each" /\ proc.left > 0
      /\ proc.left \in Nat /\ proc.made \in Nat
      /\ proposals \in Nat /\ placed \in Nat /\ stat.proposals \in Nat
  BY DEF SessionInv, Types, CycleEach, Process, StatRow
<1>2. CASE Goto("c_failed") /\ UNCHANGED <<time, runs, stat, proposals, placed, position>>
  <2>1. /\ proc'.pc = "c_failed" /\ proc'.run = proc.run /\ proc'.made = proc.made
    BY <1>1, <1>2 DEF Goto, Process
  <2> QED BY <1>1, <1>2, <2>1, MoveKeeps DEF StageAt, BeforeWork
<1>3. CASE Handled
  <2>1. OwnRow' /\ NotYet' /\ CompletedWorked'
    BY <1>1, <1>3 DEF SessionInv, OwnRow, StageAt, NotYet, BeforeWork, CompletedWorked
  <2>2. WithinCap'
    BY <1>1, <1>3 DEF SessionInv, WithinCap
  <2>3. CountedOnce'
    BY <1>1, <1>3 DEF SessionInv, CountedOnce
  <2>4. RowsKept
    BY <1>3 DEF RowsKept
  <2>5. CyclesCounted'
    BY <1>1, <1>3, <2>4, CountKept
  <2>6. stat.flat # "yes"
    BY <1>1 DEF SessionInv, FlatStays
  <2>7. FlatStays'
    BY <1>3, <2>6 DEF FlatStays
  <2> QED BY <2>1, <2>2, <2>3, <2>5, <2>7 DEF SessionInv
<1>4. CASE Raise("c_failed")
  BY <1>2, <1>4 DEF Raise
<1>5. ASSUME ~Raise("c_failed")
      PROVE  \/ Handled
             \/ Goto("c_failed") /\ UNCHANGED <<time, runs, stat, proposals, placed, position>>
  <2>1. UNCHANGED <<time, runs, stat>>
    BY <1>5 DEF CycleEach
  <2>2. CASE /\ proc.status = "dry_run" /\ proposals' = proposals + 1
             /\ proc' = [proc EXCEPT !.left = @ - 1, !.made = @ + 1] /\ UNCHANGED <<placed, position>>
    BY <1>1, <2>1, <2>2 DEF Process
  <2>3. CASE /\ proc.status = "paper_active" /\ placed' = placed + 1
             /\ proc' = [proc EXCEPT !.left = @ - 1, !.pc = "c_fill"] /\ UNCHANGED proposals
    BY <1>1, <2>1, <2>3 DEF Process
  <2>4. CASE proc' = [proc EXCEPT !.left = @ - 1] /\ UNCHANGED <<proposals, placed, position>>
    BY <1>1, <2>1, <2>4 DEF Process
  <2>5. CASE Goto("c_failed") /\ UNCHANGED <<proposals, placed, position>>
    BY <2>1, <2>5
  <2> HIDE DEF Handled
  <2> QED BY <1>5, <2>2, <2>3, <2>4, <2>5 DEF CycleEach
<1> HIDE DEF Handled
<1> QED BY <1>2, <1>3, <1>4, <1>5

\* What becomes of the entry takes no further place.
LEMMA CycleFillKeeps ==
  ASSUME SessionInv, Types', CycleFill
  PROVE  SessionInv'
<1>1. /\ proc \in Process /\ proc.pc = "c_fill" /\ proc.left \in Nat
      /\ proposals \in Nat /\ placed \in Nat
      /\ UNCHANGED <<time, runs, stat, proposals, placed>>
  BY DEF SessionInv, Types, CycleFill, Raise, Process
<1>2. CASE Raise("c_failed")
  <2>1. /\ proc'.pc = "c_failed" /\ proc'.run = proc.run /\ proc'.made = proc.made
    BY <1>1, <1>2 DEF Raise, Goto, Process
  <2> QED BY <1>1, <2>1, MoveKeeps DEF StageAt, BeforeWork
<1>3. CASE proc' \in {[proc EXCEPT !.pc = "c_each"], [proc EXCEPT !.pc = "c_each", !.left = 0]}
  <2>1. /\ proc'.pc = "c_each" /\ proc'.run = proc.run /\ proc'.status = proc.status
        /\ proc'.made = proc.made /\ proc'.left \in {0, proc.left}
    BY <1>1, <1>3 DEF Process
  <2>2. OwnRow' /\ NotYet' /\ CompletedWorked' /\ CountedOnce'
    BY <1>1, <2>1 DEF SessionInv, OwnRow, StageAt, NotYet, BeforeWork, CompletedWorked, CountedOnce
  <2>3. WithinCap'
    BY <1>1, <2>1 DEF SessionInv, WithinCap
  <2>4. RowsKept
    BY <1>1 DEF RowsKept
  <2>5. CyclesCounted'
    BY <1>1, <2>1, <2>4, CountKept
  <2>6. stat'.flat # "yes"
    BY <1>1 DEF SessionInv, FlatStays
  <2>7. FlatStays'
    BY <2>1, <2>6 DEF FlatStays
  <2> QED BY <2>2, <2>3, <2>5, <2>7 DEF SessionInv
<1> QED BY <1>2, <1>3 DEF CycleFill, Goto

\* The row is closed before the statistics are written.
LEMMA CycleFinishKeeps ==
  ASSUME SessionInv, Types', CycleFinish
  PROVE  SessionInv'
<1>1. /\ proc.pc = "c_each" /\ proc \in Process /\ proc'.pc = "c_stat"
      /\ proc'.run = proc.run /\ proc'.made = proc.made
      /\ UNCHANGED <<time, stat, proposals, placed, position>>
  BY DEF SessionInv, Types, CycleFinish, Goto, Process
<1>2. proc.run \in DOMAIN runs /\ runs[proc.run].stage = "cycle" /\ runs[proc.run].did = "nothing"
  BY <1>1 DEF SessionInv, OwnRow, StageAt, NotYet, BeforeWork
<1>3. /\ DOMAIN runs' = DOMAIN runs
      /\ \A i \in DOMAIN runs : i # proc.run => runs'[i] = runs[i]
      /\ runs'[proc.run].stage = runs[proc.run].stage /\ runs'[proc.run].did = "work"
  BY <1>2, RowWritten DEF SessionInv, CycleFinish
<1>4. OwnRow' /\ NotYet'
  BY <1>1, <1>2, <1>3 DEF OwnRow, StageAt, NotYet, BeforeWork
<1>5. WithinCap' /\ CountedOnce'
  BY <1>1 DEF SessionInv, WithinCap, CountedOnce
<1>6. CompletedWorked'
  BY <1>3 DEF SessionInv, CompletedWorked
<1>7. RowsKept
  BY <1>3 DEF RowsKept
<1>8. FlatStays'
  BY <1>1, <1>7, FlatKept DEF SessionInv, Types
<1>9. CyclesCounted'
  <2> DEFINE before == WorkedIn(runs, "cycle")
             after == WorkedIn(runs', "cycle")
  <2>1. runs \in Seq(RunRow) /\ runs' \in Seq(RunRow) /\ stat.cycles_run \in Nat
    BY DEF SessionInv, Types, StatRow
  <2>2. after = before \union {proc.run} /\ proc.run \notin before
    BY <1>2, <1>3 DEF WorkedIn
  <2>3. IsFiniteSet(before) /\ Cardinality(before) \in Nat
    BY <2>1, WorkedFinite
  <2>4. Cardinality(after) = Cardinality(before) + 1
    BY <2>2, <2>3, FS_AddElement
  <2>5. stat.cycles_run <= Cardinality(before)
    <3>1. before = Worked(Rows("cycle"))
      BY WorkedRows
    <3> HIDE DEF before
    <3> QED BY <1>1, <2>1, <3>1 DEF SessionInv, CyclesCounted
  <2>6. after = Worked(Rows("cycle"))'
    BY WorkedRows
  <2> HIDE DEF before, after
  <2> QED BY <1>1, <2>1, <2>3, <2>4, <2>5, <2>6 DEF CyclesCounted
<1> QED BY <1>4, <1>5, <1>6, <1>8, <1>9 DEF SessionInv

\* The cycle is counted, with what it made, and is gone.
LEMMA CycleStatKeeps ==
  ASSUME SessionInv, Types', CycleStat
  PROVE  SessionInv'
<1>2. stat \in StatRow /\ proc \in Process
  BY DEF SessionInv, Types
<1>9. CASE Raise("c_failed")
  <2>1. /\ proc.pc = "c_stat" /\ proc'.pc = "c_failed"
        /\ proc'.run = proc.run /\ proc'.made = proc.made
        /\ UNCHANGED <<time, runs, stat, proposals, placed>>
    BY <1>2, <1>9 DEF CycleStat, Raise, Goto, Process
  <2> QED BY <2>1, MoveKeeps DEF StageAt, BeforeWork
<1>10. SUFFICES ASSUME ~Raise("c_failed") PROVE SessionInv'
  BY <1>9
<1>1. /\ proc.pc = "c_stat" /\ proc'.pc = "idle" /\ proc'.run = 0 /\ proc'.made = 0
      /\ UNCHANGED <<time, runs, proposals, placed, position>>
  <2>1. proc.pc = "c_stat" /\ Exit /\ UNCHANGED <<time, runs, proposals, placed, position>>
    BY <1>10 DEF CycleStat
  <2> QED BY <2>1 DEF Exit, Idle
<1>3. /\ stat'.cycles_run = stat.cycles_run + 1 /\ stat'.flat = stat.flat
      /\ stat'.proposals = stat.proposals + proc.made
  BY <1>2, <1>10 DEF CycleStat, StatRow
<1>4. OwnRow' /\ NotYet' /\ WithinCap' /\ CompletedWorked'
  BY <1>1 DEF SessionInv, OwnRow, NotYet, BeforeWork, WithinCap, CompletedWorked
<1>5. CountedOnce'
  <2>1. stat.proposals \in Nat /\ proc.made \in Nat
    BY <1>2 DEF StatRow, Process
  <2> QED BY <1>1, <1>3, <2>1 DEF SessionInv, CountedOnce
<1>6. RowsKept
  BY <1>1 DEF RowsKept
<1>7. FlatStays'
  BY <1>1, <1>3, <1>6, FlatKept DEF SessionInv, Types
<1>8. CyclesCounted'
  <2>1. Worked(Rows("cycle"))' = Worked(Rows("cycle"))
    BY <1>1 DEF Worked, Rows
  <2>2. stat.cycles_run \in Nat
    BY <1>2 DEF StatRow
  <2> QED BY <1>1, <1>3, <2>1, <2>2 DEF SessionInv, CyclesCounted
<1> QED BY <1>4, <1>5, <1>7, <1>8 DEF SessionInv

(***************************************************************************)
(* The guardian.                                                            *)
(***************************************************************************)
\* The readback that finds the account flat is taken by a closeout that worked.
LEMMA CloseoutReadbackKeeps ==
  ASSUME SessionInv, Types', CloseoutReadback
  PROVE  SessionInv'
<1>1. /\ proc.pc = "x_read" /\ proc \in Process /\ proc'.pc = "x_finish"
      /\ proc'.run = proc.run /\ proc'.made = proc.made
      /\ UNCHANGED <<time, proposals, placed, position>>
  BY DEF SessionInv, Types, CloseoutReadback, Goto, Process
<1>2. proc.run \in DOMAIN runs /\ runs[proc.run].stage = "closeout" /\ time >= CloseFrom
  BY <1>1 DEF SessionInv, OwnRow, StageAt, FlatStays
<1>3. /\ DOMAIN runs' = DOMAIN runs
      /\ \A i \in DOMAIN runs : i # proc.run => runs'[i] = runs[i]
      /\ runs'[proc.run].stage = "closeout" /\ runs'[proc.run].did = "work"
      /\ runs'[proc.run].status = runs[proc.run].status
  <2>1. runs[proc.run] \in RunRow
    <3>1. runs \in Seq(RunRow)
      BY DEF SessionInv, Types
    <3> QED BY <1>2, <3>1
  <2>2. runs' = [runs EXCEPT ![proc.run].did = "work"] /\ runs \in Seq(RunRow)
    BY DEF CloseoutReadback, SessionInv, Types
  <2> QED BY <1>2, <2>1, <2>2 DEF RunRow
<1>4. /\ stat'.cycles_run = stat.cycles_run /\ stat'.proposals = stat.proposals
  <2>1. stat \in StatRow
    BY DEF SessionInv, Types
  <2> QED BY <2>1 DEF CloseoutReadback, StatRow
<1>5. OwnRow' /\ NotYet'
  BY <1>1, <1>2, <1>3 DEF OwnRow, StageAt, NotYet, BeforeWork
<1>6. WithinCap' /\ CountedOnce'
  BY <1>1, <1>4 DEF SessionInv, WithinCap, CountedOnce
<1>7. CompletedWorked'
  BY <1>2, <1>3 DEF SessionInv, CompletedWorked
<1>8. RowsKept
  BY <1>2, <1>3 DEF RowsKept
<1>9. CyclesCounted'
  BY <1>1, <1>4, <1>8, CountKept
<1>10. FlatStays'
  <2>1. proc.run \in Worked(Rows("closeout"))'
    BY <1>2, <1>3 DEF Worked, Rows
  <2> QED BY <1>1, <1>2, <1>4, <2>1 DEF FlatStays
<1> QED BY <1>5, <1>6, <1>7, <1>9, <1>10 DEF SessionInv

\* The closeout, up to its readback.
LEMMA CloseoutKeeps ==
  ASSUME SessionInv, Types', CloseoutGate \/ CloseoutClose \/ CloseoutFinish
  PROVE  SessionInv'
<1>1. proc \in Process
  BY DEF SessionInv, Types
<1>2. CASE CloseoutGate
  <2>1. proc.pc = "x_gate" /\ UNCHANGED <<time, stat, proposals, placed, position>>
    BY <1>2 DEF CloseoutGate
  <2>2. CASE Exit /\ \E st \in {"none", "failed"} : Finish(st, "nothing")
    BY <2>1, <2>2, FinishKeeps
  <2>3. CASE Exit /\ UNCHANGED runs
    BY <2>1, <2>3, ExitKeeps
  <2>4. CASE time >= CloseFrom /\ Goto("x_close") /\ UNCHANGED runs
    <3>1. proc'.pc = "x_close" /\ proc'.run = proc.run /\ proc'.made = proc.made
      BY <1>1, <2>4 DEF Goto, Process
    <3> QED BY <2>1, <2>4, <3>1, MoveKeeps DEF StageAt, BeforeWork
  <2> QED BY <1>2, <2>2, <2>3, <2>4 DEF CloseoutGate
<1>3. CASE CloseoutClose
  <2>1. /\ proc.pc = "x_close" /\ UNCHANGED <<time, runs, stat, proposals, placed>>
        /\ proc'.pc = "x_read" /\ proc'.run = proc.run /\ proc'.made = proc.made
    BY <1>1, <1>3 DEF CloseoutClose, Process
  <2> QED BY <2>1, MoveKeeps DEF StageAt, BeforeWork
<1>4. CASE CloseoutFinish
  BY <1>4, FinishKeeps DEF CloseoutFinish
<1> QED BY <1>2, <1>3, <1>4

(***************************************************************************)
(* Types.                                                                   *)
(***************************************************************************)
LEMMA BeginTypes ==
  ASSUME SessionInv, NEW s \in Stages, BeginRun(s)
  PROVE  runs' \in Seq(RunRow) /\ proc' \in Process
<1>1. runs' \in Seq(RunRow) /\ Len(runs) + 1 \in Nat
  BY RowAppended DEF SessionInv
<1>2. proc' \in Process
  BY <1>1 DEF BeginRun, Idle, FirstStep, Process
<1> QED BY <1>1, <1>2

\* A launch starts a process, or is counted as an overlap at best.
LEMMA LaunchTypes ==
  ASSUME SessionInv, NEW s \in Stages, Launch(s)
  PROVE  /\ runs' \in Seq(RunRow) /\ proc' \in Process /\ stat' \in StatRow
         /\ faults' \in 0 .. MaxFaults
<1>1. /\ runs \in Seq(RunRow) /\ proc \in Process /\ stat \in StatRow
      /\ faults \in 0 .. MaxFaults
  BY DEF SessionInv, Types
<1>2. CASE proc = Idle
  BY <1>1, <1>2, BeginTypes DEF Launch
<1>3. CASE proc # Idle
  <2> DEFINE m == stat.overlapping_cycles + 1
  <2>1. stat' = stat \/ stat' = [stat EXCEPT !.overlapping_cycles = m]
    BY <1>3 DEF Launch, Refused
  <2>2. stat' \in StatRow
    <3>0. stat.overlapping_cycles \in Nat
      BY <1>1 DEF StatRow
    <3>1. m \in Nat
      BY <3>0
    <3> HIDE DEF m
    <3>2. [stat EXCEPT !.overlapping_cycles = m] \in StatRow
      BY <1>1, <3>1 DEF StatRow
    <3> QED BY <1>1, <2>1, <3>2
  <2> QED BY <1>1, <1>3, <2>2 DEF Launch, Refused, Fault
<1> QED BY <1>2, <1>3

\* Steps of a process that leave its row alone.
LEMMA ProcessTypes ==
  ASSUME SessionInv,
         \/ PreflightGate \/ PreflightParity \/ CycleGate \/ CycleBars \/ CycleEach
         \/ CycleFill \/ CycleStat \/ BumpFailed \/ Crash \/ CloseoutClose
  PROVE  Types'
<1> USE DEF Fault, Raise, Goto
<1>1. proc \in Process /\ stat \in StatRow /\ Types
  BY DEF SessionInv, Types
<1>2. Idle \in Process
  BY DEF Idle, Process
<1>3. CASE PreflightGate
  <2>1. proc' \in Process
    BY <1>1, <1>3 DEF PreflightGate, Process
  <2> QED BY <1>1, <1>3, <2>1 DEF Types, PreflightGate
<1>4. CASE PreflightParity
  <2>1. proc' \in Process
    BY <1>1, <1>4 DEF PreflightParity, Process
  <2>2. stat' \in StatRow
    BY <1>1, <1>4 DEF PreflightParity, StatRow
  <2> QED BY <1>1, <1>4, <2>1, <2>2 DEF Types, PreflightParity
<1>5. CASE CycleGate
  <2>1. status \in {"dry_run", "suspended", "paper_active"}
    BY DEF SessionInv, Types
  <2>2. proc' \in Process
    BY <1>1, <1>5, <2>1 DEF CycleGate, Process
  <2> QED BY <1>1, <1>5, <2>2 DEF Types, CycleGate
<1>6. CASE CycleBars
  <2>1. \A k \in Confirmations : Admitted(k, time) \in Nat
    BY AdmittedWithinCap DEF SessionInv, Types
  <2>2. /\ \A n \in Nat : [proc EXCEPT !.pc = "c_each", !.left = n, !.valid = 1] \in Process
        /\ \A l \in {"c_each", "c_failed"} : [proc EXCEPT !.pc = l] \in Process
    BY <1>1 DEF Process
  <2>3. proc' \in Process
    BY <1>6, <2>1, <2>2 DEF CycleBars
  <2>4. faults' \in 0 .. MaxFaults
    <3>1. faults' = faults \/ (faults < MaxFaults /\ faults' = faults + 1)
      BY <1>6 DEF CycleBars
    <3> QED BY <1>1, <3>1 DEF Types
  <2>5. UNCHANGED <<time, fired, manual, status, runs, stat, proposals, placed, position>>
    BY <1>6 DEF CycleBars
  <2> QED BY <1>1, <2>3, <2>4, <2>5 DEF Types
<1>7. CASE CycleEach
  <2>1. proc.left \in Nat /\ proc.left > 0 /\ proc.made \in Nat
    BY <1>1, <1>7 DEF CycleEach, Process
  <2>2. proc.left - 1 \in Nat /\ proc.made + 1 \in Nat
    BY <2>1
  <2>3. proc' \in Process
    BY <1>1, <1>7, <2>2 DEF CycleEach, Process
  <2>4. /\ proposals' \in Nat /\ placed' \in Nat /\ position' \in {"none", "open", "exited", "unrecorded"}
        /\ faults' \in 0 .. MaxFaults
        /\ UNCHANGED <<time, fired, manual, status, runs, stat>>
    BY <1>1, <1>7, SMTT(30) DEF Types, CycleEach
  <2> QED BY <2>3, <2>4 DEF SessionInv, Types
<1>12. CASE CycleFill
  <2>1. \A l \in {"c_each", "c_failed"} :
          [proc EXCEPT !.pc = l] \in Process /\ [proc EXCEPT !.pc = l, !.left = 0] \in Process
    BY <1>1 DEF Process
  <2>2. proc' \in Process
    BY <1>12, <2>1 DEF CycleFill
  <2>3. /\ position' \in {"none", "open", "exited", "unrecorded"} /\ faults' \in 0 .. MaxFaults
        /\ UNCHANGED <<time, fired, manual, status, runs, stat, proposals, placed>>
    BY <1>1, <1>12, SMTT(30) DEF Types, CycleFill
  <2> QED BY <1>1, <2>2, <2>3 DEF Types
<1>8. CASE CycleStat /\ ~Raise("c_failed")
  <2>1. /\ stat.cycles_run \in Nat /\ stat.expected \in Nat /\ stat.valid \in Nat
        /\ stat.proposals \in Nat /\ stat.cycles_over_budget \in Nat
        /\ proc.valid \in Nat /\ proc.made \in Nat
    BY <1>1 DEF StatRow, Process
  <2>2. PICK over \in BOOLEAN :
          stat' = [stat EXCEPT !.cycles_run = @ + 1, !.expected = @ + 1,
                     !.valid = @ + proc.valid, !.proposals = @ + proc.made,
                     !.guardrails = TRUE,
                     !.cycles_over_budget = @ + IF over THEN 1 ELSE 0]
    BY <1>8 DEF CycleStat
  <2>3. stat' \in StatRow
    <3> DEFINE a == stat.cycles_run + 1
               b == stat.expected + 1
               c == stat.valid + proc.valid
               d == stat.proposals + proc.made
               e == stat.cycles_over_budget + IF over THEN 1 ELSE 0
    <3>1. a \in Nat /\ b \in Nat /\ c \in Nat /\ d \in Nat /\ e \in Nat
      BY <2>1
    <3>2. stat' = [stat EXCEPT !.cycles_run = a, !.expected = b, !.valid = c, !.proposals = d,
                     !.guardrails = TRUE, !.cycles_over_budget = e]
      BY <2>2
    <3> HIDE DEF a, b, c, d, e
    <3> QED BY <1>1, <3>1, <3>2 DEF StatRow
  <2> QED BY <1>1, <1>2, <1>8, <2>3 DEF Types, CycleStat, Exit
<1>13. CASE CycleStat /\ Raise("c_failed")
  <2>1. [proc EXCEPT !.pc = "c_failed"] \in Process
    BY <1>1 DEF Process
  <2> QED BY <1>1, <1>13, <2>1 DEF Types
<1>9. CASE BumpFailed
  <2>1. stat' \in StatRow
    BY <1>1, <1>9 DEF BumpFailed, StatRow
  <2> QED BY <1>1, <1>2, <1>9, <2>1, SMTT(30) DEF Types, BumpFailed, Exit
<1>10. CASE Crash
  BY <1>1, <1>2, <1>10 DEF Types, Crash, Exit
<1>11. CASE CloseoutClose
  <2>1. \A n \in Nat : [proc EXCEPT !.pc = "x_read", !.left = n] \in Process
    BY <1>1 DEF Process
  <2>2. \E n \in {0, 1} : proc' = [proc EXCEPT !.pc = "x_read", !.left = n]
    BY <1>11 DEF CloseoutClose
  <2>3. proc' \in Process
    BY <2>1, <2>2
  <2> QED BY <1>1, <1>11, <2>3, SMTT(30) DEF Types, CloseoutClose
<1> QED BY <1>3, <1>4, <1>5, <1>6, <1>7, <1>8, <1>9, <1>10, <1>11, <1>12, <1>13

\* Steps of a process that write its row.
LEMMA RowTypes ==
  ASSUME SessionInv,
         \/ PreflightFinish \/ CycleFinish \/ MarkFailed
         \/ CloseoutGate \/ CloseoutReadback \/ CloseoutFinish
  PROVE  Types'
<1> USE DEF Fault
<1>1. proc \in Process /\ stat \in StatRow /\ Types
  BY DEF SessionInv, Types
<1>2. proc.run \in DOMAIN runs /\ runs[proc.run] \in RunRow /\ runs \in Seq(RunRow)
  <2>1. proc.pc # "idle"
    BY DEF PreflightFinish, CycleFinish, MarkFailed, CloseoutGate, CloseoutReadback,
       CloseoutFinish
  <2>2. proc.run \in DOMAIN runs /\ runs \in Seq(RunRow)
    BY <2>1 DEF SessionInv, OwnRow, Types
  <2> QED BY <2>2
<1>3. \A st \in {"none", "failed"}, did \in {"nothing", "work"} :
        Finish(st, did) => runs' \in Seq(RunRow)
  BY <1>1, <1>2, RowWritten
<1>4. /\ Exit => proc' \in Process
      /\ \A l \in {"c_bump", "c_stat", "x_close", "x_finish"} : Goto(l) => proc' \in Process
  BY <1>1 DEF Exit, Idle, Goto, Process
<1>5. CASE PreflightFinish
  <2>1. runs' \in Seq(RunRow) /\ proc' \in Process
    BY <1>3, <1>4, <1>5 DEF PreflightFinish
  <2> QED BY <1>1, <1>5, <2>1 DEF Types, PreflightFinish
<1>6. CASE CycleFinish
  <2>1. runs' \in Seq(RunRow) /\ proc' \in Process
    BY <1>3, <1>4, <1>6 DEF CycleFinish
  <2> QED BY <1>1, <1>6, <2>1 DEF Types, CycleFinish
<1>7. CASE MarkFailed
  <2>1. runs' \in Seq(RunRow) /\ proc' \in Process
    BY <1>3, <1>4, <1>7, OwnRowTyped DEF MarkFailed
  <2> QED BY <1>1, <1>7, <2>1 DEF Types, MarkFailed
<1>8. CASE CloseoutGate
  <2>1. runs' \in Seq(RunRow) /\ proc' \in Process
    BY <1>2, <1>3, <1>4, <1>8 DEF CloseoutGate
  <2> QED BY <1>1, <1>8, <2>1 DEF Types, CloseoutGate
<1>9. CASE CloseoutFinish
  <2>1. runs' \in Seq(RunRow) /\ proc' \in Process
    BY <1>3, <1>4, <1>9 DEF CloseoutFinish
  <2> QED BY <1>1, <1>9, <2>1 DEF Types, CloseoutFinish
<1>10. CASE CloseoutReadback
  <2>1. runs' \in Seq(RunRow)
    <3> DEFINE row == [runs[proc.run] EXCEPT !.did = "work"]
    <3>1. row \in RunRow
      BY <1>2 DEF RunRow
    <3>2. runs' = [runs EXCEPT ![proc.run] = row]
      BY <1>10 DEF CloseoutReadback
    <3> HIDE DEF row
    <3> QED BY <1>2, <3>1, <3>2
  <2>2. stat' \in StatRow
    BY <1>1, <1>10 DEF CloseoutReadback, StatRow
  <2>3. proc' \in Process
    BY <1>4, <1>10 DEF CloseoutReadback
  <2>4. /\ UNCHANGED <<time, fired, manual, status, proposals, placed, position>>
        /\ faults' \in 0 .. MaxFaults
    <3>1. faults' = faults \/ (faults < MaxFaults /\ faults' = faults + 1)
      BY <1>10 DEF CloseoutReadback
    <3>2. UNCHANGED <<time, fired, manual, status, proposals, placed, position>>
      BY <1>10 DEF CloseoutReadback
    <3> QED BY <1>1, <3>1, <3>2 DEF Types
  <2> QED BY <1>1, <2>1, <2>2, <2>3, <2>4 DEF Types
<1> QED BY <1>5, <1>6, <1>7, <1>8, <1>9, <1>10

\* The clock, the scheduler, the operator and the broker.
LEMMA AroundTypes ==
  ASSUME SessionInv,
         \/ Tick \/ BrokerExit \/ UNCHANGED sessionVars
         \/ \E s \in Stages : Trigger(s) \/ Miss(s) \/ ByHand(s)
         \/ \E to \in {"dry_run", "suspended", "paper_active"} : MoveStatus(to)
  PROVE  Types'
<1> USE DEF Fault
<1>1. Types
  BY DEF SessionInv
<1>2. CASE Tick
  BY <1>1, <1>2 DEF Types, Tick
<1>3. CASE BrokerExit
  BY <1>1, <1>3 DEF Types, BrokerExit
<1>4. CASE UNCHANGED sessionVars
  BY <1>1, <1>4 DEF Types, sessionVars
<1>5. ASSUME NEW s \in Stages, Trigger(s)  PROVE Types'
  <2>1. /\ fired' \subseteq Stages /\ UNCHANGED <<time, manual, status, proposals, placed, position>>
    BY <1>1, <1>5 DEF Types, Trigger
  <2>2. /\ runs' \in Seq(RunRow) /\ proc' \in Process /\ stat' \in StatRow
        /\ faults' \in 0 .. MaxFaults
    BY <1>1, <1>5, LaunchTypes DEF Trigger, Types
  <2> QED BY <1>1, <2>1, <2>2 DEF Types
<1>6. ASSUME NEW s \in Stages, Miss(s)  PROVE Types'
  BY <1>1, <1>6 DEF Types, Miss
<1>7. ASSUME NEW s \in Stages, ByHand(s)  PROVE Types'
  <2>1. /\ manual' \in 0 .. MaxManual
        /\ UNCHANGED <<time, fired, status, proposals, placed, position>>
    BY <1>1, <1>7 DEF Types, ByHand
  <2>2. /\ runs' \in Seq(RunRow) /\ proc' \in Process /\ stat' \in StatRow
        /\ faults' \in 0 .. MaxFaults
    BY <1>7, LaunchTypes DEF ByHand
  <2> QED BY <1>1, <2>1, <2>2 DEF Types
<1>8. ASSUME NEW to \in {"dry_run", "suspended", "paper_active"}, MoveStatus(to)  PROVE Types'
  BY <1>1, <1>8 DEF Types, MoveStatus
<1> QED BY <1>2, <1>3, <1>4, <1>5, <1>6, <1>7, <1>8

(***************************************************************************)
(* The invariant is inductive.                                              *)
(***************************************************************************)
LEMMA NextTypes ==
  ASSUME SessionInv, [SessionNext]_sessionVars
  PROVE  Types'
<1>1. CASE \/ PreflightGate \/ PreflightParity \/ CycleGate \/ CycleBars \/ CycleEach
           \/ CycleFill \/ CycleStat \/ BumpFailed \/ Crash \/ CloseoutClose
  BY <1>1, ProcessTypes
<1>2. CASE \/ PreflightFinish \/ CycleFinish \/ MarkFailed
           \/ CloseoutGate \/ CloseoutReadback \/ CloseoutFinish
  BY <1>2, RowTypes
<1>3. CASE \/ Tick \/ BrokerExit \/ UNCHANGED sessionVars
           \/ \E s \in Stages : Trigger(s) \/ Miss(s) \/ ByHand(s)
           \/ \E to \in {"dry_run", "suspended", "paper_active"} : MoveStatus(to)
  BY <1>3, AroundTypes
<1> QED BY <1>1, <1>2, <1>3 DEF SessionNext

\* The scheduler and the operator start a process, or bump a counter, or nothing.
LEMMA LaunchKeeps ==
  ASSUME SessionInv, Types', NEW s \in Stages, Launch(s),
         UNCHANGED <<time, position, proposals, placed>>
  PROVE  SessionInv'
<1>1. CASE proc = Idle
  BY <1>1, BeginKeeps DEF Launch
<1>2. CASE proc # Idle
  <2>1. stat \in StatRow /\ time \in Nat
    BY DEF SessionInv, Types
  <2>2. /\ UNCHANGED <<runs, proc>>
        /\ stat' = stat \/ stat' = [stat EXCEPT !.overlapping_cycles = @ + 1]
    BY <1>2 DEF Launch, Refused
  <2>3. /\ stat'.cycles_run = stat.cycles_run /\ stat'.proposals = stat.proposals
        /\ stat'.flat = stat.flat
    BY <2>1, <2>2 DEF StatRow
  <2> QED BY <2>1, <2>2, <2>3, AroundKeeps
<1> QED BY <1>1, <1>2

\* Every step keeps the invariant.
LEMMA NextSessionInv ==
  ASSUME SessionInv, [SessionNext]_sessionVars
  PROVE  SessionInv'
<1> USE NextTypes
<1>1. time \in Nat /\ proc \in Process /\ stat \in StatRow
  BY DEF SessionInv, Types
<1>2. CASE Tick \/ BrokerExit \/ UNCHANGED sessionVars \/ (\E s \in Stages : Miss(s))
           \/ \E to \in {"dry_run", "suspended", "paper_active"} : MoveStatus(to)
  <2>1. /\ UNCHANGED <<runs, proc, proposals, placed, stat>> /\ time' >= time
    BY <1>1, <1>2 DEF Tick, BrokerExit, Miss, MoveStatus, sessionVars
  <2> QED BY <2>1, AroundKeeps
<1>3. ASSUME NEW s \in Stages, Trigger(s)  PROVE SessionInv'
  <2>1. UNCHANGED <<time, position, proposals, placed>>
    BY <1>3 DEF Trigger
  <2>2. CASE Launch(s)
    BY <2>1, <2>2, LaunchKeeps
  <2>3. CASE UNCHANGED <<stat, faults, runs, proc>>
    BY <1>1, <2>1, <2>3, AroundKeeps
  <2> QED BY <1>3, <2>2, <2>3 DEF Trigger
<1>4. ASSUME NEW s \in Stages, ByHand(s)  PROVE SessionInv'
  BY <1>4, LaunchKeeps DEF ByHand
<1>5. CASE Crash
  BY <1>5, ExitKeeps DEF Crash
<1>6. CASE PreflightGate \/ PreflightParity \/ CycleGate
  <2>1. \E l \in {"p_failed", "p_parity", "p_finish", "c_failed", "c_bars"} :
          /\ proc'.pc = l /\ proc'.run = proc.run /\ proc'.made = proc.made
          /\ proc'.left = proc.left
          /\ l \in {"p_failed", "p_parity", "p_finish"} => proc.pc \in {"p_gate", "p_parity"}
          /\ l \in {"c_failed", "c_bars"} => proc.pc = "c_gate"
    BY <1>1, <1>6 DEF PreflightGate, PreflightParity, CycleGate, Raise, Goto, Process
  <2>2. /\ UNCHANGED <<runs, time, proposals, placed>>
        /\ stat' = stat \/ \E b \in BOOLEAN : stat' = [stat EXCEPT !.parity = b]
    BY <1>6 DEF PreflightGate, PreflightParity, CycleGate, Raise
  <2>3. /\ stat'.cycles_run = stat.cycles_run /\ stat'.proposals = stat.proposals
        /\ stat'.flat = stat.flat
    BY <1>1, <2>2 DEF StatRow
  <2> QED BY <2>1, <2>2, <2>3, MoveKeeps DEF StageAt, BeforeWork
<1>7. CASE PreflightFinish
  BY <1>7, FinishKeeps DEF PreflightFinish
<1>8. CASE MarkFailed
  <2>1. /\ proc.pc \in {"p_failed", "c_failed"} /\ Finish("failed", Row.did)
        /\ Row.did \in {"nothing", "work"}
        /\ UNCHANGED <<time, stat, proposals, placed, position>>
        /\ Exit \/ (proc.pc = "c_failed" /\ Goto("c_bump"))
    BY <1>8, OwnRowTyped DEF MarkFailed
  <2> QED BY <2>1, FinishKeeps
<1>9. CASE BumpFailed
  <2>1. /\ Exit /\ UNCHANGED <<runs, time, proposals, placed, position>>
        /\ stat' = stat \/ stat' = [stat EXCEPT !.failed_cycles = @ + 1]
    BY <1>9 DEF BumpFailed
  <2>2. /\ stat'.cycles_run = stat.cycles_run /\ stat'.proposals = stat.proposals
        /\ stat'.flat = stat.flat
    BY <1>1, <2>1 DEF StatRow
  <2> QED BY <2>1, <2>2, ExitKeeps
<1>10. CASE CycleBars
  BY <1>10, CycleBarsKeeps
<1>11. CASE CycleEach
  BY <1>11, CycleEachKeeps
<1>12. CASE CycleFinish
  BY <1>12, CycleFinishKeeps
<1>16. CASE CycleFill
  BY <1>16, CycleFillKeeps
<1>13. CASE CycleStat
  BY <1>13, CycleStatKeeps
<1>14. CASE CloseoutGate \/ CloseoutClose \/ CloseoutFinish
  BY <1>14, CloseoutKeeps
<1>15. CASE CloseoutReadback
  BY <1>15, CloseoutReadbackKeeps
<1> QED BY <1>2, <1>3, <1>4, <1>5, <1>6, <1>7, <1>8, <1>9, <1>10, <1>11, <1>12, <1>13,
        <1>14, <1>15, <1>16 DEF SessionNext

(***************************************************************************)
(* The theorems.                                                            *)
(***************************************************************************)
\* The inductive invariant holds in every reachable state.
THEOREM SessionInvariant == SessionSpec => []SessionInv
<1>1. SessionInit => SessionInv
  BY InitSessionInv
<1>2. SessionInv /\ [SessionNext]_sessionVars => SessionInv'
  BY NextSessionInv
<1> QED BY <1>1, <1>2, PTL DEF SessionSpec

\* Rows, statistics and the process that holds the lock are what the tables and
\* the code hold.
THEOREM SessionTypes == SessionSpec => []SessionTypeOK
<1>1. SessionInv => SessionTypeOK
  <2> SUFFICES ASSUME SessionInv PROVE SessionTypeOK
    OBVIOUS
  <2>1. Types
    BY DEF SessionInv
  <2>2. \A i \in DOMAIN runs : runs[i] \in RunRow
    BY <2>1 DEF Types
  <2>3. DOMAIN stat = DOMAIN NewStat
    BY <2>1 DEF Types, StatRow, NewStat
  <2>4. placed \in 0 .. MaxNew
    BY <2>1 DEF SessionInv, WithinCap, Types
  <2>5. proc.stage \in Stages \union {"none"}
    BY <2>1 DEF Types, Process
  <2>6. proc.run \in {0} \union DOMAIN runs
    BY DEF SessionInv, OwnRow
  <2> QED BY <2>1, <2>2, <2>3, <2>4, <2>5, <2>6 DEF Types, SessionTypeOK, RunRow
<1> QED BY <1>1, SessionInvariant, PTL

\* However cycles crash between a proposal and its statistics, the day proposes
\* no more than its cap, and reports no more than it proposed.
THEOREM DailyCapHolds == SessionSpec => []ProposalsCapped
<1>1. SessionInv => ProposalsCapped
  <2> SUFFICES ASSUME SessionInv PROVE ProposalsCapped
    OBVIOUS
  <2>1. stat.proposals \in Nat /\ proc.made \in Nat /\ proposals \in Nat
    BY DEF SessionInv, Types, StatRow, Process
  <2> QED BY <2>1 DEF SessionInv, WithinCap, CountedOnce, ProposalsCapped
<1> QED BY <1>1, SessionInvariant, PTL

\* A clean bill of schedule health is never given for a preflight or for cycles
\* that did not work.  It says nothing of that kind of the closeouts.
THEOREM HealthIsEarned == SessionSpec => []HealthPassMeansWorked
<1>1. SessionInv => HealthPassMeansWorked
  <2> SUFFICES ASSUME SessionInv, HealthPass
               PROVE  /\ 0 \in Starts(Worked(Rows("preflight")))
                      /\ ExpectedSoFar \subseteq Starts(Worked(Rows("cycle")))
    BY DEF HealthPassMeansWorked
  <2>1. \A s \in {"preflight", "cycle"} :
          Starts(In(Rows(s), "completed")) \subseteq Starts(Worked(Rows(s)))
    BY DEF SessionInv, CompletedWorked, Starts, In, Rows, Worked
  <2> QED BY <2>1 DEF HealthPass, PreflightHealthy, CyclesHealthy
<1> QED BY <1>1, SessionInvariant, PTL

\* The gate never passes a day whose cycles or whose closeout did not work.
THEOREM GateIsEarned == SessionSpec => []GatePassMeansWorked
<1>1. SessionInv => GatePassMeansWorked
  <2> SUFFICES ASSUME SessionInv, GatePass
               PROVE  /\ Cardinality(Worked(Rows("cycle"))) >= MinCycles
                      /\ Worked(Rows("closeout")) # {}
    BY DEF GatePassMeansWorked
  <2>1. stat.flat = "yes" /\ stat.cycles_run >= MinCycles
    BY DEF GatePass
  <2>2. stat.cycles_run \in Nat /\ Cardinality(Worked(Rows("cycle"))) \in Nat
    BY WorkedRows, WorkedFinite DEF SessionInv, Types, StatRow
  <2>3. stat.cycles_run <= Cardinality(Worked(Rows("cycle")))
    BY <2>2 DEF SessionInv, CyclesCounted
  <2> QED BY <2>1, <2>2, <2>3 DEF SessionInv, FlatStays
<1> QED BY <1>1, SessionInvariant, PTL

\* After a flat readback no cycle sends an entry, whatever was missed, late,
\* launched by hand or left without a row.
THEOREM NothingEntersOnceFlat == SessionSpec => NoEntryAfterFlat
<1>1. SessionInv /\ [SessionNext]_sessionVars => [stat.flat = "yes" => placed' = placed]_sessionVars
  <2> SUFFICES ASSUME SessionInv, [SessionNext]_sessionVars, stat.flat = "yes"
               PROVE  placed' = placed
    OBVIOUS
  <2>1. CASE CycleEach
    <3>1. proc.pc = "c_each" /\ proc.left > 0
      BY <2>1 DEF CycleEach
    <3>2. proc.left = 0
      BY <3>1 DEF SessionInv, FlatStays
    <3> QED BY <3>1, <3>2
  <2>2. CASE \/ PreflightGate \/ PreflightParity \/ PreflightFinish \/ CycleGate \/ CycleBars
             \/ CycleFill \/ CycleFinish \/ CycleStat \/ MarkFailed \/ BumpFailed
             \/ CloseoutGate \/ CloseoutClose \/ CloseoutReadback \/ CloseoutFinish
    BY <2>2 DEF Raise, PreflightGate, PreflightParity, PreflightFinish, CycleGate, CycleBars,
       CycleFill, CycleFinish, CycleStat, MarkFailed, BumpFailed, CloseoutGate, CloseoutClose,
       CloseoutReadback, CloseoutFinish
  <2>3. CASE \/ Tick \/ BrokerExit \/ Crash \/ UNCHANGED sessionVars
             \/ \E st \in Stages : Trigger(st) \/ Miss(st) \/ ByHand(st)
             \/ \E to \in {"dry_run", "suspended", "paper_active"} : MoveStatus(to)
    BY <2>3 DEF Tick, BrokerExit, Crash, sessionVars, Trigger, Miss, ByHand, MoveStatus
  <2> QED BY <2>1, <2>2, <2>3 DEF SessionNext
<1> QED BY <1>1, SessionInvariant, PTL DEF SessionSpec, NoEntryAfterFlat
=============================================================================
