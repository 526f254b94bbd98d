---------------------------- MODULE SlcMigration ----------------------------
(***************************************************************************)
(* live_slc/migrations.py and models.init_live_slc_db: what happens to      *)
(* live_slc.db between the moment a scheduled process has the lock and the  *)
(* stage it runs.  An old file is brought to the current schema in one      *)
(* transaction; the tables it lacks altogether are created one by one       *)
(* afterwards.  Four of the tables stand for all; slc_trades also for the   *)
(* other table with a unique constraint, the bars.                          *)
(***************************************************************************)
EXTENDS Integers, FiniteSets

CONSTANTS
  Positions,   \* rows slc_positions may have
  Signals,     \* rows of slc_signal_records
  NoKey,       \* NULL in level_id and confirmation_time, or in signal_id
  KeyOf        \* [Signals -> natural keys] level_id and confirmation_time

NaturalKeys == {KeyOf[g] : g \in Signals}
ASSUME MigrationAssumption ==
  /\ NoKey \notin NaturalKeys \union Signals
  /\ KeyOf \in [Signals -> NaturalKeys]

SCHEMA_VERSION == 3
Tables == {"slc_signal_records", "slc_positions", "slc_trades", "slc_orders"}
\* Those with a UniqueConstraint.  The unique client_order_id of slc_orders is
\* an index of its own, which a migration neither creates nor verifies.
Constrained == {"slc_positions", "slc_trades"}

VARIABLES
  file,     \* the database as committed
  work,     \* the same as the open transaction sees it
  pc,       \* the statement the process has reached
  stored,   \* the tables it found when it started (preexisting)
  altered,  \* somebody has taken an index or a column from a current file
  halved    \* a start has died between CREATE TABLE slc_orders and its index
migrationVars == <<file, work, pc, stored, altered, halved>>

\* cols and uniq: the tables with all their columns, with their unique index.
\* A position that is not there has no entry in pos.
RowSet == [key : NaturalKeys \union {NoKey}, sig : Signals \union {NoKey}]
Databases ==
  [version : {0, SCHEMA_VERSION}, tables : SUBSET Tables, cols : SUBSET Tables,
   uniq : SUBSET Tables, pos : UNION {[P -> RowSet] : P \in SUBSET Positions},
   trades : [Positions -> 0 .. 2]]
Labels == {"idle", "version", "current", "columns", "backfill", "indexes",
           "bump", "verify", "create", "stage"}

MigrationTypeOK ==
  /\ file \in Databases /\ work \in Databases
  /\ pc \in Labels /\ stored \subseteq Tables
  /\ altered \in BOOLEAN /\ halved \in BOOLEAN

\* A file of some earlier release, or none: later tables may be missing, and
\* what is there may lack columns and indexes.  Its positions have a signal,
\* or were adopted without one, and a key if it has the column.  Where there are
\* orders there is their index (taken as declared by those releases too); what a
\* start that died leaves behind, the actions below produce.
Earlier ==
  {d \in [version : {0}, tables : SUBSET Tables, cols : SUBSET Tables,
          uniq : SUBSET Tables, pos : UNION {[P -> RowSet] : P \in SUBSET Positions},
          trades : [Positions -> 0 .. 2]] :
     /\ d.cols \subseteq d.tables /\ d.uniq \subseteq d.cols
     /\ d.uniq \subseteq Constrained \union {"slc_orders"}
     /\ "slc_orders" \in d.tables => "slc_orders" \in d.uniq
     /\ "slc_positions" \in d.tables => "slc_signal_records" \in d.tables
     /\ "slc_positions" \notin d.tables => DOMAIN d.pos = {}
     /\ "slc_trades" \notin d.tables => \A p \in Positions : d.trades[p] = 0
     /\ \A p \in DOMAIN d.pos :
          d.pos[p].key # NoKey =>
            /\ "slc_positions" \in d.cols
            /\ d.pos[p].sig # NoKey => d.pos[p].key = KeyOf[d.pos[p].sig]}

Duplicates(d, t) ==
  IF t = "slc_trades" THEN \E p \in Positions : d.trades[p] > 1
  ELSE \E p, q \in DOMAIN d.pos :
         p # q /\ d.pos[p].key = d.pos[q].key /\ d.pos[p].key # NoKey

MigrationInit ==
  /\ file \in {d \in Earlier : \A t \in d.uniq \intersect Constrained : ~Duplicates(d, t)}
  /\ work = file /\ pc = "idle" /\ stored = {}
  /\ altered = FALSE /\ halved = FALSE

To(l) == pc' = l /\ UNCHANGED <<stored, altered, halved>>
Write(d, l) == work' = d /\ To(l) /\ UNCHANGED file
\* ROLLBACK: an exception, after which the process ends.
Abort == Write(file, "idle")

(***************************************************************************)
(* migrate_live_slc_db.                                                     *)
(***************************************************************************)
BeginMigration ==
  /\ pc = "idle"
  /\ pc' = "version" /\ work' = file /\ stored' = file.tables
  /\ UNCHANGED <<file, altered, halved>>

ReadVersion ==
  /\ pc = "version"
  /\ To(IF work.version >= SCHEMA_VERSION THEN "current" ELSE "columns")
  /\ UNCHANGED <<file, work>>

\* _verify_schema_matches_expected, of the tables found at the start.
Sound(d, T) == T \subseteq d.cols /\ T \intersect Constrained \subseteq d.uniq

\* Broken twin of VerifyCurrent: the version row is believed.
VerifyCurrentNot ==
  /\ pc = "current"
  /\ Write(file, "create")

VerifyCurrent ==
  /\ pc = "current"
  /\ IF Sound(work, stored) THEN Write(file, "create") ELSE Abort

\* Broken twin of AddColumns: the driver commits before each DDL statement,
\* the version row included.
AddColumnsCommitted ==
  /\ pc = "columns"
  /\ file' = [work EXCEPT !.cols = @ \union stored, !.version = SCHEMA_VERSION]
  /\ work' = file' /\ To("backfill")

AddColumns ==
  /\ pc = "columns"
  /\ Write([work EXCEPT !.cols = @ \union stored], "backfill")

Keyless(d) == {p \in DOMAIN d.pos : d.pos[p].key = NoKey}

\* Every position with its key, taken from k where it has none.
WithKeys(k) ==
  [p \in DOMAIN work.pos |->
     IF p \in Keyless(work) THEN [work.pos[p] EXCEPT !.key = k[p]] ELSE work.pos[p]]

\* _backfill_position_natural_key_or_abort.  An index that is there already
\* refuses a second row of one key, and that is an exception too.
Backfill ==
  /\ pc = "backfill"
  /\ \/ /\ \E p \in Keyless(work) : work.pos[p].sig = NoKey
        /\ Abort
     \/ /\ \A p \in Keyless(work) : work.pos[p].sig # NoKey
        /\ LET d == [work EXCEPT !.pos =
                       WithKeys([p \in Keyless(work) |-> KeyOf[work.pos[p].sig]])]
           IN IF "slc_positions" \in d.uniq /\ Duplicates(d, "slc_positions")
              THEN Abort ELSE Write(d, "indexes")

\* _create_unique_index_safely, for each constraint that has no index yet.
CreateIndexes ==
  /\ pc = "indexes"
  /\ LET missing == (stored \intersect Constrained) \ work.uniq
     IN IF \E t \in missing : Duplicates(work, t) THEN Abort
        ELSE Write([work EXCEPT !.uniq = @ \union missing], "bump")

WriteVersion ==
  /\ pc = "bump"
  /\ Write([work EXCEPT !.version = SCHEMA_VERSION], "verify")

Commit ==
  /\ pc = "verify"
  /\ IF Sound(work, stored)
     THEN file' = work /\ To("create") /\ UNCHANGED work
     ELSE Abort

(***************************************************************************)
(* create_all: each statement commits by itself, and a table that exists is *)
(* passed over together with its indexes.                                   *)
(***************************************************************************)
PendingIndex == "slc_orders" \in file.tables \ (stored \union file.uniq)

Create(d) ==
  /\ pc = "create"
  /\ file' = d /\ work' = d /\ UNCHANGED <<pc, stored, altered, halved>>

CreateTable(t) ==
  /\ t \notin file.tables /\ ~PendingIndex
  /\ Create([file EXCEPT !.tables = @ \union {t}, !.cols = @ \union {t},
                         !.uniq = @ \union ({t} \intersect Constrained)])

\* The unique index of slc_orders is a statement of its own.
CreateIndex ==
  /\ PendingIndex
  /\ Create([file EXCEPT !.uniq = @ \union {"slc_orders"}])

Created ==
  /\ pc = "create" /\ file.tables = Tables /\ ~PendingIndex
  /\ To("stage") /\ UNCHANGED <<file, work>>

(***************************************************************************)
(* The stage: find-or-update on the natural key, one trade per position.    *)
(***************************************************************************)
AddPosition(p, g) ==
  /\ pc = "stage" /\ p \notin DOMAIN file.pos
  /\ \A q \in DOMAIN file.pos : file.pos[q].key # KeyOf[g]
  /\ \E s \in {g, NoKey} :
       file' = [file EXCEPT !.pos =
                  [q \in DOMAIN @ \union {p} |->
                     IF q = p THEN [key |-> KeyOf[g], sig |-> s] ELSE @[q]]]
  /\ UNCHANGED <<work, pc, stored, altered, halved>>

AddTrade(p) ==
  /\ pc = "stage" /\ p \in DOMAIN file.pos /\ file.trades[p] = 0
  /\ file' = [file EXCEPT !.trades[p] = 1]
  /\ UNCHANGED <<work, pc, stored, altered, halved>>

\* The stage ends, or the process dies anywhere: an open transaction is lost.
EndOrCrash ==
  /\ pc # "idle"
  /\ pc' = "idle" /\ work' = file /\ halved' = (halved \/ PendingIndex)
  /\ UNCHANGED <<file, stored, altered>>

Alter(t) ==
  /\ pc = "idle" /\ file.version = SCHEMA_VERSION /\ t \in file.uniq
  /\ \/ file' = [file EXCEPT !.uniq = @ \ {t}]
     \/ file' = [file EXCEPT !.uniq = @ \ {t}, !.cols = @ \ {t},
                   !.pos = IF t # "slc_positions" THEN @
                           ELSE [p \in DOMAIN @ |-> [@[p] EXCEPT !.key = NoKey]]]
  /\ work' = file' /\ altered' = TRUE /\ UNCHANGED <<pc, stored, halved>>

MigrationNext ==
  \/ BeginMigration \/ ReadVersion \/ VerifyCurrent \/ AddColumns \/ Backfill
  \/ CreateIndexes \/ WriteVersion \/ Commit
  \/ \E t \in Tables : CreateTable(t) \/ Alter(t)
  \/ CreateIndex \/ Created
  \/ \E p \in Positions : AddTrade(p) \/ \E g \in Signals : AddPosition(p, g)
  \/ EndOrCrash

MigrationSpec == MigrationInit /\ [][MigrationNext]_migrationVars

(***************************************************************************)
(* Properties.                                                              *)
(***************************************************************************)
Clean(d, T) == Sound(d, T) /\ Keyless(d) = {} /\ \A t \in Constrained : ~Duplicates(d, t)

\* A stage finds every table, column and unique constraint in place, whatever
\* release wrote the file, however often a start died on the way, and also
\* after somebody altered it ("must never conceal actual drift").  The unique
\* index of slc_orders, which nothing verifies, it finds unless somebody has
\* altered a file or a start has died just before creating it.
StageOnSoundStore ==
  pc = "stage" =>
    /\ file.tables = Tables /\ Clean(file, Tables)
    /\ "slc_orders" \in file.uniq \/ altered \/ halved

\* The version row never runs ahead of the tables it speaks of: a start that
\* was refused or died has left the file as it was.
VersionHonest ==
  file.version = SCHEMA_VERSION /\ ~altered => Clean(file, file.tables)

=============================================================================
