------------------------- MODULE SlcMigrationProofs -------------------------
(***************************************************************************)
(* What SlcMigration promises for any positions, signals and natural keys:  *)
(* its types, that a stage runs on a sound store and that the version row   *)
(* never runs ahead of the tables.                                          *)
(***************************************************************************)
EXTENDS SlcMigration, TLAPS

USE MigrationAssumption

(***************************************************************************)
(* The inductive invariant.                                                 *)
(***************************************************************************)
\* A table that is not there has no columns and no rows.
Shaped(d) ==
  /\ d.cols \subseteq d.tables
  /\ "slc_positions" \notin d.tables => DOMAIN d.pos = {}
  /\ "slc_trades" \notin d.tables => \A p \in Positions : d.trades[p] = 0

\* What SQLite enforces while an index exists.
IndexesHold(d) == \A t \in d.uniq \intersect Constrained : ~Duplicates(d, t)

\* A file of the current version has no position without its key, unless the
\* whole column was taken out of it.
KeyedWhenCurrent(d) ==
  d.version = SCHEMA_VERSION /\ "slc_positions" \in d.cols => Keyless(d) = {}

Coherent(d) == Shaped(d) /\ IndexesHold(d) /\ KeyedWhenCurrent(d)

\* How far the open transaction has got at each statement.
Progress ==
  /\ pc \in {"idle", "version", "current", "columns", "create"} => work = file
  /\ pc \in {"version", "current", "columns"} => stored = file.tables
  /\ pc \in {"columns", "backfill", "indexes", "bump", "verify"} => file.version = 0
  /\ pc \in {"backfill", "indexes", "bump", "verify"} =>
       stored = work.tables /\ stored = file.tables /\ stored \subseteq work.cols
  /\ pc \in {"indexes", "bump", "verify"} => Keyless(work) = {}
  /\ pc \in {"bump", "verify"} => stored \intersect Constrained \subseteq work.uniq
  /\ pc = "verify" => work.version = SCHEMA_VERSION
  /\ pc \in {"current", "create", "stage"} => file.version = SCHEMA_VERSION
  /\ pc \in {"create", "stage"} => Sound(file, file.tables)
  /\ pc = "create" => stored \subseteq file.tables
  /\ pc = "stage" => file.tables = Tables

SoundUnlessAltered ==
  file.version = SCHEMA_VERSION /\ ~altered => Sound(file, file.tables)

\* Where the index of slc_orders is missing, somebody has taken it or a start has
\* died before it, unless this start is about to create it.
OrdersIndexed ==
  \/ altered \/ halved
  \/ \A d \in {file, work} : "slc_orders" \in d.tables => "slc_orders" \in d.uniq
  \/ pc = "create" /\ "slc_orders" \notin stored

MigInv ==
  MigrationTypeOK /\ Coherent(file) /\ Coherent(work) /\ Progress /\ SoundUnlessAltered

(***************************************************************************)
(* Databases.                                                               *)
(***************************************************************************)
\* What a database is made of.
LEMMA DatabaseParts ==
  ASSUME NEW d \in Databases
  PROVE  /\ d.version \in {0, SCHEMA_VERSION}
         /\ d.tables \subseteq Tables /\ d.cols \subseteq Tables /\ d.uniq \subseteq Tables
         /\ DOMAIN d.pos \subseteq Positions /\ d.pos \in [DOMAIN d.pos -> RowSet]
         /\ d.trades \in [Positions -> 0 .. 2]
BY DEF Databases

\* Positions may be written as any function from some of them to rows.
LEMMA PosIntro ==
  ASSUME NEW P \in SUBSET Positions, NEW f \in [P -> RowSet]
  PROVE  f \in UNION {[Q -> RowSet] : Q \in SUBSET Positions} /\ DOMAIN f = P
OBVIOUS

\* A coherent file of the current version whose tables are all sound is clean.
LEMMA CleanFromParts ==
  ASSUME NEW d \in Databases, Coherent(d), d.version = SCHEMA_VERSION, Sound(d, d.tables)
  PROVE  Clean(d, d.tables)
<1>1. Keyless(d) = {}
  BY DEF Coherent, Shaped, KeyedWhenCurrent, Sound, Keyless
<1>2. ~Duplicates(d, "slc_trades")
  <2>1. CASE "slc_trades" \in d.tables
    BY <2>1 DEF Coherent, IndexesHold, Sound, Constrained
  <2>2. CASE "slc_trades" \notin d.tables
    BY <2>2 DEF Coherent, Shaped, Duplicates
  <2> QED BY <2>1, <2>2
<1>3. ~Duplicates(d, "slc_positions")
  <2>1. CASE "slc_positions" \in d.tables
    BY <2>1 DEF Coherent, IndexesHold, Sound, Constrained
  <2>2. CASE "slc_positions" \notin d.tables
    BY <2>2 DEF Coherent, Shaped, Duplicates
  <2> QED BY <2>1, <2>2
<1> QED BY <1>1, <1>2, <1>3 DEF Clean, Constrained

\* What the invariant says of a write that leaves the tables' rows alone.
LEMMA RowsSame ==
  ASSUME NEW d, NEW c, c.pos = d.pos, c.trades = d.trades
  PROVE  /\ Keyless(c) = Keyless(d)
         /\ \A t : Duplicates(c, t) <=> Duplicates(d, t)
BY DEF Keyless, Duplicates

(***************************************************************************)
(* Steps.                                                                   *)
(***************************************************************************)
\* Whatever file an earlier release has left is coherent.
LEMMA InitMigInv ==
  ASSUME MigrationInit
  PROVE  MigInv
<1>1. file \in Earlier /\ \A t \in file.uniq \intersect Constrained : ~Duplicates(file, t)
  BY DEF MigrationInit
<1>2. file \in Databases /\ file.version = 0
  BY <1>1 DEF Earlier, Databases
<1>3. Shaped(file)
  BY <1>1 DEF Earlier, Shaped
<1>4. Coherent(file)
  BY <1>1, <1>2, <1>3 DEF Coherent, IndexesHold, KeyedWhenCurrent, SCHEMA_VERSION
<1>5. work = file /\ pc = "idle" /\ stored = {} /\ altered = FALSE /\ halved = FALSE
  BY DEF MigrationInit
<1>6. MigrationTypeOK
  BY <1>2, <1>5 DEF MigrationTypeOK, Labels
<1>7. Progress /\ SoundUnlessAltered
  BY <1>2, <1>5 DEF Progress, SoundUnlessAltered, SCHEMA_VERSION
<1> QED BY <1>4, <1>5, <1>6, <1>7 DEF MigInv

\* Statements that write nothing.
LEMMA ReadingKeeps ==
  ASSUME MigInv, BeginMigration \/ ReadVersion \/ VerifyCurrent \/ Created \/ EndOrCrash
  PROVE  MigInv'
<1> USE DEF MigInv, MigrationTypeOK, Labels
<1>1. CASE BeginMigration
  BY <1>1, DatabaseParts DEF BeginMigration, Progress, SoundUnlessAltered
<1>2. CASE ReadVersion
  BY <1>2, DatabaseParts DEF ReadVersion, To, Progress, SoundUnlessAltered, SCHEMA_VERSION
<1>3. CASE VerifyCurrent
  BY <1>3 DEF VerifyCurrent, Write, Abort, To, Progress, SoundUnlessAltered
<1>4. CASE Created
  BY <1>4 DEF Created, To, Progress, SoundUnlessAltered
<1>5. CASE EndOrCrash
  BY <1>5 DEF EndOrCrash, Progress, SoundUnlessAltered
<1> QED BY <1>1, <1>2, <1>3, <1>4, <1>5

\* Statements of the open transaction: the file is as it was.
LEMMA AddColumnsKeeps ==
  ASSUME MigInv, AddColumns
  PROVE  MigInv'
<1> USE DEF MigInv
<1>1. /\ work' = [work EXCEPT !.cols = @ \union stored]
      /\ pc = "columns" /\ pc' = "backfill" /\ UNCHANGED <<file, stored, altered, halved>>
  BY DEF AddColumns, Write, To
<1>2. work = file /\ stored = file.tables /\ file.version = 0
  BY <1>1 DEF Progress
<1>3. /\ work' \in Databases /\ work'.version = 0 /\ work'.tables = work.tables
      /\ work'.pos = work.pos /\ work'.trades = work.trades /\ work'.uniq = work.uniq
      /\ work'.cols = work.cols \union stored
  BY <1>1, <1>2 DEF MigrationTypeOK, Databases
<1>4. MigrationTypeOK'
  BY <1>1, <1>3 DEF MigrationTypeOK, Labels
<1>5. Coherent(work')
  BY <1>2, <1>3, RowsSame DEF Coherent, Shaped, IndexesHold, KeyedWhenCurrent, SCHEMA_VERSION
<1>6. Progress'
  BY <1>1, <1>2, <1>3 DEF Progress
<1> QED BY <1>1, <1>4, <1>5, <1>6 DEF SoundUnlessAltered

\* The keys go in as the signals have them, or nothing does.
LEMMA BackfillKeeps ==
  ASSUME MigInv, Backfill
  PROVE  MigInv'
<1> USE DEF MigInv
<1> DEFINE k == [p \in Keyless(work) |-> KeyOf[work.pos[p].sig]]
           d == [work EXCEPT !.pos = WithKeys(k)]
<1>1. CASE Abort
  BY <1>1 DEF Abort, Write, To, MigrationTypeOK, Labels, Progress, SoundUnlessAltered
<1>2. CASE /\ \A p \in Keyless(work) : work.pos[p].sig # NoKey
           /\ ~("slc_positions" \in d.uniq /\ Duplicates(d, "slc_positions"))
           /\ Write(d, "indexes")
  <2>1. pc = "backfill" /\ pc' = "indexes" /\ work' = d /\ UNCHANGED <<file, stored, altered, halved>>
    BY <1>2 DEF Backfill, Write, To
  <2>2. /\ file.version = 0 /\ stored = work.tables /\ stored = file.tables
        /\ stored \subseteq work.cols
    BY <2>1 DEF Progress
  <2>3. DOMAIN work.pos \subseteq Positions /\ work.pos \in [DOMAIN work.pos -> RowSet]
    BY DatabaseParts DEF MigrationTypeOK
  <2>4. WithKeys(k) \in [DOMAIN work.pos -> RowSet]
    <3> SUFFICES ASSUME NEW p \in DOMAIN work.pos
                 PROVE  WithKeys(k)[p] \in RowSet
      BY DEF WithKeys
    <3>1. CASE p \notin Keyless(work)
      BY <2>3, <3>1 DEF WithKeys
    <3>2. CASE p \in Keyless(work)
      <4>1. work.pos[p] \in RowSet /\ work.pos[p].sig \in Signals
        BY <1>2, <2>3, <3>2 DEF RowSet
      <4>2. k[p] \in NaturalKeys
        BY <3>2, <4>1
      <4> HIDE DEF k
      <4> QED BY <3>2, <4>1, <4>2 DEF WithKeys, RowSet
    <3> QED BY <3>1, <3>2
  <2>5. \A p \in DOMAIN work.pos : WithKeys(k)[p].key # NoKey
    <3> SUFFICES ASSUME NEW p \in DOMAIN work.pos
                 PROVE  WithKeys(k)[p].key # NoKey
      OBVIOUS
    <3>1. CASE p \notin Keyless(work)
      BY <3>1 DEF WithKeys, Keyless
    <3>2. CASE p \in Keyless(work)
      <4>1. work.pos[p] \in RowSet /\ work.pos[p].sig \in Signals
        BY <1>2, <2>3, <3>2 DEF RowSet
      <4>2. k[p] \in NaturalKeys
        BY <3>2, <4>1
      <4> HIDE DEF k
      <4> QED BY <3>2, <4>1, <4>2 DEF WithKeys, RowSet
    <3> QED BY <3>1, <3>2
  <2> HIDE DEF k
  <2>6. /\ d \in Databases /\ d.tables = work.tables /\ d.cols = work.cols
        /\ d.uniq = work.uniq /\ d.trades = work.trades /\ d.version = work.version
        /\ d.pos = WithKeys(k) /\ DOMAIN d.pos = DOMAIN work.pos
    BY <2>3, <2>4, PosIntro DEF MigrationTypeOK, Databases
  <2> HIDE DEF d
  <2>7. Keyless(d) = {}
    BY <2>5, <2>6 DEF Keyless
  <2>8. Coherent(d)
    <3>1. Shaped(d)
      BY <2>6 DEF Coherent, Shaped
    <3>2. ASSUME NEW t \in d.uniq \intersect Constrained  PROVE ~Duplicates(d, t)
      BY <1>2, <2>6, <3>2 DEF Constrained, Coherent, IndexesHold, Duplicates
    <3> QED BY <2>7, <3>1, <3>2 DEF Coherent, IndexesHold, KeyedWhenCurrent
  <2>9. MigrationTypeOK' /\ Progress'
    BY <2>1, <2>2, <2>6, <2>7 DEF MigrationTypeOK, Labels, Progress
  <2> QED BY <2>1, <2>8, <2>9 DEF SoundUnlessAltered
<1> QED BY <1>1, <1>2 DEF Backfill

\* An index is created only on rows without duplicates.
LEMMA CreateIndexesKeeps ==
  ASSUME MigInv, CreateIndexes
  PROVE  MigInv'
<1> USE DEF MigInv
<1> DEFINE missing == (stored \intersect Constrained) \ work.uniq
<1>1. CASE Abort
  BY <1>1 DEF Abort, Write, To, MigrationTypeOK, Labels, Progress, SoundUnlessAltered
<1>2. CASE /\ ~\E t \in missing : Duplicates(work, t)
           /\ Write([work EXCEPT !.uniq = @ \union missing], "bump")
  <2>1. /\ work' = [work EXCEPT !.uniq = @ \union missing]
        /\ pc = "indexes" /\ pc' = "bump" /\ UNCHANGED <<file, stored, altered, halved>>
    BY <1>2 DEF CreateIndexes, Write, To
  <2>2. /\ file.version = 0 /\ stored = work.tables /\ stored = file.tables
        /\ stored \subseteq work.cols /\ Keyless(work) = {}
    BY <2>1 DEF Progress
  <2>3. /\ work' \in Databases /\ work'.version = work.version /\ work'.tables = work.tables
        /\ work'.pos = work.pos /\ work'.trades = work.trades
        /\ work'.uniq = work.uniq \union missing /\ work'.cols = work.cols
    BY <2>1 DEF MigrationTypeOK, Databases
  <2>4. Coherent(work')
    <3>1. Keyless(work') = {} /\ \A t : Duplicates(work', t) <=> Duplicates(work, t)
      BY <2>2, <2>3, RowsSame
    <3> QED BY <1>2, <2>3, <3>1 DEF Coherent, Shaped, IndexesHold, KeyedWhenCurrent
  <2>5. MigrationTypeOK' /\ Progress'
    BY <2>1, <2>2, <2>3, RowsSame DEF MigrationTypeOK, Labels, Progress
  <2> QED BY <2>1, <2>4, <2>5 DEF SoundUnlessAltered
<1> QED BY <1>1, <1>2 DEF CreateIndexes

\* The version goes up when the copy is whole.
LEMMA WriteVersionKeeps ==
  ASSUME MigInv, WriteVersion
  PROVE  MigInv'
<1> USE DEF MigInv
<1>1. /\ work' = [work EXCEPT !.version = SCHEMA_VERSION]
      /\ pc = "bump" /\ pc' = "verify" /\ UNCHANGED <<file, stored, altered, halved>>
  BY DEF WriteVersion, Write, To
<1>2. /\ file.version = 0 /\ stored = work.tables /\ stored = file.tables
      /\ stored \subseteq work.cols /\ Keyless(work) = {}
      /\ stored \intersect Constrained \subseteq work.uniq
  BY <1>1 DEF Progress
<1>3. /\ work' \in Databases /\ work'.version = SCHEMA_VERSION /\ work'.tables = work.tables
      /\ work'.pos = work.pos /\ work'.trades = work.trades
      /\ work'.uniq = work.uniq /\ work'.cols = work.cols
  BY <1>1 DEF MigrationTypeOK, Databases
<1>4. Coherent(work')
  <2>1. Keyless(work') = {} /\ \A t : Duplicates(work', t) <=> Duplicates(work, t)
    BY <1>2, <1>3, RowsSame
  <2> QED BY <1>3, <2>1 DEF Coherent, Shaped, IndexesHold, KeyedWhenCurrent
<1>5. MigrationTypeOK' /\ Progress'
  BY <1>1, <1>2, <1>3, RowsSame DEF MigrationTypeOK, Labels, Progress
<1> QED BY <1>1, <1>4, <1>5 DEF SoundUnlessAltered

\* A commit makes the file the copy.
LEMMA CommitKeeps ==
  ASSUME MigInv, Commit
  PROVE  MigInv'
<1> USE DEF MigInv
<1>1. CASE Abort
  BY <1>1 DEF Abort, Write, To, MigrationTypeOK, Labels, Progress, SoundUnlessAltered
<1>2. CASE file' = work /\ To("create") /\ UNCHANGED work
  <2>1. /\ pc = "verify" /\ pc' = "create" /\ stored = work.tables
        /\ work.version = SCHEMA_VERSION /\ Sound(work, work.tables)
        /\ UNCHANGED <<stored, altered, halved>>
    <3>1. pc = "verify" /\ stored \subseteq work.cols
      BY DEF Commit, Progress
    <3> QED BY <1>2, <3>1 DEF To, Progress, Sound
  <2>2. MigrationTypeOK' /\ Progress' /\ SoundUnlessAltered'
    BY <1>2, <2>1 DEF MigrationTypeOK, Labels, Progress, SoundUnlessAltered
  <2> QED BY <1>2, <2>2
<1> QED BY <1>1, <1>2 DEF Commit

\* create_all adds a table that has its columns and its constraint.
LEMMA CreateKeeps ==
  ASSUME MigInv, CreateIndex \/ \E t \in Tables : CreateTable(t)
  PROVE  MigInv'
<1> USE DEF MigInv
<1>1. /\ pc = "create" /\ pc' = "create" /\ work' = file' /\ UNCHANGED <<stored, altered, halved>>
      /\ file.version = SCHEMA_VERSION /\ Sound(file, file.tables)
  BY DEF CreateIndex, CreateTable, Create, Progress
<1> DEFINE Adds(T, U) ==
      /\ T \intersect file.tables = {} /\ U \intersect Constrained = T \intersect Constrained
      /\ file' \in Databases /\ file'.version = file.version
      /\ file'.tables = file.tables \union T /\ file'.cols = file.cols \union T
      /\ file'.uniq = file.uniq \union U
      /\ file'.pos = file.pos /\ file'.trades = file.trades
<1>2. \E T \in SUBSET Tables, U \in SUBSET Tables : Adds(T, U)
  <2>1. CASE CreateIndex
    <3>1. Adds({}, {"slc_orders"})
      BY <2>1 DEF CreateIndex, Create, MigrationTypeOK, Databases, Constrained, Tables
    <3> QED BY <3>1 DEF Tables
  <2>2. ASSUME NEW t \in Tables, CreateTable(t)
        PROVE  \E T \in SUBSET Tables, U \in SUBSET Tables : Adds(T, U)
    <3>1. /\ t \notin file.tables
          /\ file' = [file EXCEPT !.tables = file.tables \union {t}, !.cols = file.cols \union {t},
                                  !.uniq = file.uniq \union ({t} \intersect Constrained)]
      BY <2>2 DEF CreateTable, Create
    <3>2. /\ file'.version = file.version
          /\ file'.tables = file.tables \union {t} /\ file'.cols = file.cols \union {t}
          /\ file'.uniq = file.uniq \union ({t} \intersect Constrained)
          /\ file'.pos = file.pos /\ file'.trades = file.trades
      BY <3>1 DEF MigrationTypeOK, Databases
    <3>3. file' \in Databases
      BY <3>1 DEF MigrationTypeOK, Databases, Constrained, Tables
    <3>4. Adds({t}, {t} \intersect Constrained)
      BY <3>1, <3>2, <3>3
    <3> HIDE DEF Adds
    <3> QED BY <3>4
  <2> QED BY <2>1, <2>2
<1>3. PICK T \in SUBSET Tables, U \in SUBSET Tables : Adds(T, U)
  BY <1>2
<1>4. Coherent(file')
  <2>1. Keyless(file') = Keyless(file) /\ \A t : Duplicates(file', t) <=> Duplicates(file, t)
    BY <1>3, RowsSame
  <2>2. Shaped(file') /\ KeyedWhenCurrent(file')
    <3>1. "slc_positions" \in T => Keyless(file) = {}
      BY <1>3 DEF Coherent, Shaped, Keyless
    <3> QED BY <1>1, <1>3, <2>1, <3>1 DEF Coherent, Shaped, KeyedWhenCurrent
  <2>3. \A t \in T \intersect Constrained : ~Duplicates(file, t)
    BY <1>3 DEF Coherent, Shaped, Duplicates, Constrained
  <2> QED BY <1>3, <2>1, <2>2, <2>3 DEF Coherent, IndexesHold
<1>5. Sound(file', file'.tables)
  BY <1>1, <1>3 DEF Sound
<1>6. MigrationTypeOK' /\ Progress' /\ SoundUnlessAltered'
  BY <1>1, <1>3, <1>5 DEF MigrationTypeOK, Labels, Progress, SoundUnlessAltered
<1> QED BY <1>1, <1>4, <1>6

\* The stage adds a row only where the unique index lets it.
LEMMA StageKeeps ==
  ASSUME MigInv,
         \E p \in Positions : AddTrade(p) \/ \E g \in Signals : AddPosition(p, g)
  PROVE  MigInv'
<1> USE DEF MigInv
<1>1. /\ pc = "stage" /\ UNCHANGED <<work, pc, stored, altered, halved>>
      /\ file.version = SCHEMA_VERSION /\ Sound(file, file.tables) /\ file.tables = Tables
  BY DEF AddTrade, AddPosition, Progress
<1>2. /\ file \in Databases /\ Keyless(file) = {}
      /\ \A t \in Constrained : ~Duplicates(file, t)
  BY <1>1, CleanFromParts DEF MigrationTypeOK, Clean
<1>3. /\ file' \in Databases /\ file'.version = file.version /\ file'.tables = file.tables
      /\ file'.cols = file.cols /\ file'.uniq = file.uniq
      /\ Keyless(file') = {} /\ \A t \in Constrained : ~Duplicates(file', t)
  <2>1. ASSUME NEW p \in Positions, AddTrade(p)
        PROVE  /\ file' \in Databases /\ file'.version = file.version
               /\ file'.tables = file.tables /\ file'.cols = file.cols /\ file'.uniq = file.uniq
               /\ Keyless(file') = {} /\ \A t \in Constrained : ~Duplicates(file', t)
    <3>1. file' = [file EXCEPT !.trades[p] = 1]
      BY <2>1 DEF AddTrade
    <3>2. /\ file'.version = file.version /\ file'.tables = file.tables
          /\ file'.cols = file.cols /\ file'.uniq = file.uniq /\ file'.pos = file.pos
          /\ file'.trades = [file.trades EXCEPT ![p] = 1] /\ file' \in Databases
      BY <1>2, <3>1 DEF Databases
    <3>3. Keyless(file') = {} /\ \A t \in Constrained : ~Duplicates(file', t)
      BY <1>2, <3>2, DatabaseParts DEF Keyless, Duplicates, Constrained
    <3> QED BY <3>2, <3>3
  <2>2. ASSUME NEW p \in Positions, NEW g \in Signals, AddPosition(p, g)
        PROVE  /\ file' \in Databases /\ file'.version = file.version
               /\ file'.tables = file.tables /\ file'.cols = file.cols /\ file'.uniq = file.uniq
               /\ Keyless(file') = {} /\ \A t \in Constrained : ~Duplicates(file', t)
    <3>1. PICK s \in {g, NoKey} :
            file' = [file EXCEPT !.pos =
                       [q \in DOMAIN @ \union {p} |->
                          IF q = p THEN [key |-> KeyOf[g], sig |-> s] ELSE @[q]]]
      BY <2>2 DEF AddPosition
    <3> DEFINE row == [key |-> KeyOf[g], sig |-> s]
               f == [q \in DOMAIN file.pos \union {p} |-> IF q = p THEN row ELSE file.pos[q]]
    <3>2. /\ p \notin DOMAIN file.pos
          /\ \A q \in DOMAIN file.pos : file.pos[q].key # KeyOf[g]
      BY <2>2 DEF AddPosition
    <3>3. KeyOf[g] \in NaturalKeys /\ row \in RowSet /\ row.key = KeyOf[g]
      BY <3>1 DEF RowSet
    <3>4. DOMAIN file.pos \subseteq Positions /\ file.pos \in [DOMAIN file.pos -> RowSet]
      BY <1>2, DatabaseParts
    <3> HIDE DEF row
    <3>5. /\ DOMAIN f = DOMAIN file.pos \union {p} /\ f[p] = row
          /\ \A q \in DOMAIN file.pos : f[q] = file.pos[q]
      BY <3>2
    <3>6. f \in [DOMAIN file.pos \union {p} -> RowSet]
      BY <3>2, <3>3, <3>4
    <3> HIDE DEF f
    <3>7. /\ file'.version = file.version /\ file'.tables = file.tables
          /\ file'.cols = file.cols /\ file'.uniq = file.uniq /\ file'.pos = f
          /\ file'.trades = file.trades /\ file' \in Databases
      BY <1>2, <3>1, <3>4, <3>5, <3>6, PosIntro DEF Databases, f, row
    <3>8. Keyless(file') = {}
      BY <1>2, <3>3, <3>5, <3>7 DEF Keyless
    <3>9. \A t \in Constrained : ~Duplicates(file', t)
      BY <1>2, <3>2, <3>3, <3>5, <3>7 DEF Duplicates, Constrained
    <3> QED BY <3>7, <3>8, <3>9
  <2> QED BY <2>1, <2>2
<1>4. Coherent(file')
  BY <1>1, <1>3 DEF Coherent, Shaped, IndexesHold, KeyedWhenCurrent, Tables
<1> QED BY <1>1, <1>3, <1>4 DEF MigrationTypeOK, Progress, SoundUnlessAltered, Sound

\* Whoever alters a current file leaves it unsound and says so.
LEMMA AlterKeeps ==
  ASSUME MigInv, NEW t \in Tables, Alter(t)
  PROVE  MigInv'
<1> USE DEF MigInv
<1>1. /\ pc = "idle" /\ pc' = "idle" /\ work' = file' /\ altered' = TRUE
      /\ UNCHANGED <<stored, halved>>
      /\ file.version = SCHEMA_VERSION
  BY DEF Alter
<1>2. file' \in Databases /\ Coherent(file')
  <2>1. CASE file' = [file EXCEPT !.uniq = @ \ {t}]
    <3>1. /\ file'.version = file.version /\ file'.tables = file.tables
          /\ file'.cols = file.cols /\ file'.uniq = file.uniq \ {t} /\ file'.pos = file.pos
          /\ file'.trades = file.trades /\ file' \in Databases
      BY <2>1 DEF MigrationTypeOK, Databases
    <3>2. Keyless(file') = Keyless(file) /\ \A c : Duplicates(file', c) <=> Duplicates(file, c)
      BY <3>1, RowsSame
    <3> QED BY <3>1, <3>2 DEF Coherent, Shaped, IndexesHold, KeyedWhenCurrent
  <2>2. CASE file' = [file EXCEPT !.uniq = @ \ {t}, !.cols = @ \ {t},
                       !.pos = IF t # "slc_positions" THEN @
                               ELSE [p \in DOMAIN @ |-> [@[p] EXCEPT !.key = NoKey]]]
    <3> DEFINE f == IF t # "slc_positions" THEN file.pos
                    ELSE [p \in DOMAIN file.pos |-> [file.pos[p] EXCEPT !.key = NoKey]]
    <3>1. DOMAIN file.pos \subseteq Positions /\ file.pos \in [DOMAIN file.pos -> RowSet]
      BY DatabaseParts DEF MigrationTypeOK
    <3>2. /\ DOMAIN f = DOMAIN file.pos /\ f \in [DOMAIN file.pos -> RowSet]
          /\ t # "slc_positions" => f = file.pos
      BY <3>1 DEF RowSet
    <3>3. t = "slc_positions" => \A p \in DOMAIN f : f[p].key = NoKey
      BY <3>1 DEF RowSet
    <3>4. file' = [file EXCEPT !.uniq = file.uniq \ {t}, !.cols = file.cols \ {t}, !.pos = f]
      BY <2>2
    <3> HIDE DEF f
    <3>5. /\ file'.version = file.version /\ file'.tables = file.tables
          /\ file'.cols = file.cols \ {t} /\ file'.uniq = file.uniq \ {t} /\ file'.pos = f
          /\ file'.trades = file.trades /\ file' \in Databases
      BY <3>1, <3>2, <3>4, PosIntro DEF MigrationTypeOK, Databases
    <3>6. Shaped(file')
      BY <3>2, <3>5 DEF Coherent, Shaped
    <3>7. KeyedWhenCurrent(file')
      BY <3>2, <3>5 DEF Coherent, KeyedWhenCurrent, Keyless
    <3>8. IndexesHold(file')
      BY <3>2, <3>5 DEF Coherent, IndexesHold, Duplicates, Constrained
    <3> QED BY <3>5, <3>6, <3>7, <3>8 DEF Coherent
  <2> QED BY <2>1, <2>2 DEF Alter
<1> QED BY <1>1, <1>2 DEF MigrationTypeOK, Labels, Progress, SoundUnlessAltered

\* The statement after CREATE TABLE slc_orders is lost only with a start that dies
\* between the two.
LEMMA OrdersIndexedKept ==
  ASSUME MigInv, OrdersIndexed, [MigrationNext]_migrationVars
  PROVE  OrdersIndexed'
<1> SUFFICES ASSUME ~altered, ~halved, ~altered', ~halved'
             PROVE  OrdersIndexed'
  <2>1. (altered \/ halved) => (altered' \/ halved')
    BY DEF MigrationNext, BeginMigration, ReadVersion, VerifyCurrent, AddColumns, Backfill, CreateIndexes,
           WriteVersion, Commit, CreateTable, Alter, CreateIndex, Created, AddTrade,
           AddPosition, EndOrCrash, Create, Write, Abort, To, migrationVars
  <2> QED BY <2>1 DEF OrdersIndexed
<1> USE DEF OrdersIndexed
<1>1. CASE BeginMigration \/ ReadVersion \/ UNCHANGED migrationVars
  BY <1>1 DEF BeginMigration, ReadVersion, To, migrationVars, MigInv, Progress
<1>2. CASE VerifyCurrent
  BY <1>2 DEF VerifyCurrent, Write, Abort, To, MigInv, Progress
<1>3. CASE AddColumns
  BY <1>3 DEF AddColumns, Write, To, MigInv, MigrationTypeOK, Databases
<1>4. CASE Backfill
  BY <1>4 DEF Backfill, Write, Abort, To, MigInv, MigrationTypeOK, Databases
<1>5. CASE CreateIndexes
  BY <1>5 DEF CreateIndexes, Write, Abort, To, MigInv, MigrationTypeOK, Databases
<1>6. CASE WriteVersion
  BY <1>6 DEF WriteVersion, Write, To, MigInv, MigrationTypeOK, Databases
<1>7. CASE Commit
  BY <1>7 DEF Commit, Write, Abort, To
<1>8. CASE CreateIndex
  BY <1>8 DEF CreateIndex, Create, PendingIndex, MigInv, MigrationTypeOK, Databases
<1>9. ASSUME NEW t \in Tables, CreateTable(t)
      PROVE  OrdersIndexed'
  BY <1>9 DEF CreateTable, Create, PendingIndex, MigInv, Progress, MigrationTypeOK, Databases
<1>10. CASE Created
  BY <1>10 DEF Created, PendingIndex, To, MigInv, Progress
<1>11. CASE \E p \in Positions : AddTrade(p) \/ \E g \in Signals : AddPosition(p, g)
  BY <1>11 DEF AddTrade, AddPosition, MigInv, MigrationTypeOK, Databases
<1>12. CASE EndOrCrash
  BY <1>12 DEF EndOrCrash, PendingIndex, MigInv, Progress
<1>13. CASE \E t \in Tables : Alter(t)
  BY <1>13 DEF Alter
<1> QED BY <1>1, <1>2, <1>3, <1>4, <1>5, <1>6, <1>7, <1>8, <1>9, <1>10, <1>11, <1>12, <1>13
       DEF MigrationNext

\* Every step keeps the invariant.
LEMMA NextMigInv ==
  ASSUME MigInv, [MigrationNext]_migrationVars
  PROVE  MigInv'
<1>1. CASE BeginMigration \/ ReadVersion \/ VerifyCurrent \/ Created \/ EndOrCrash
  BY <1>1, ReadingKeeps
<1>2. CASE AddColumns
  BY <1>2, AddColumnsKeeps
<1>3. CASE Backfill
  BY <1>3, BackfillKeeps
<1>4. CASE CreateIndexes
  BY <1>4, CreateIndexesKeeps
<1>5. CASE WriteVersion
  BY <1>5, WriteVersionKeeps
<1>6. CASE Commit
  BY <1>6, CommitKeeps
<1>7. CASE CreateIndex \/ \E t \in Tables : CreateTable(t)
  BY <1>7, CreateKeeps
<1>8. CASE \E p \in Positions : AddTrade(p) \/ \E g \in Signals : AddPosition(p, g)
  BY <1>8, StageKeeps
<1>9. CASE \E t \in Tables : Alter(t)
  BY <1>9, AlterKeeps
<1>10. CASE UNCHANGED migrationVars
  BY <1>10 DEF migrationVars, MigInv, MigrationTypeOK, Progress, SoundUnlessAltered
<1> QED BY <1>1, <1>2, <1>3, <1>4, <1>5, <1>6, <1>7, <1>8, <1>9, <1>10 DEF MigrationNext

(***************************************************************************)
(* The theorems.                                                            *)
(***************************************************************************)
\* The inductive invariant holds in every reachable state.
THEOREM MigrationInvariant == MigrationSpec => []MigInv
<1>1. MigrationInit => MigInv
  BY InitMigInv
<1>2. MigInv /\ [MigrationNext]_migrationVars => MigInv'
  BY NextMigInv
<1> QED BY <1>1, <1>2, PTL DEF MigrationSpec

\* The file and the open transaction hold rows, columns and indexes of the tables.
THEOREM MigrationTypes == MigrationSpec => []MigrationTypeOK
<1>1. MigInv => MigrationTypeOK
  BY DEF MigInv
<1> QED BY <1>1, MigrationInvariant, PTL

\* Where slc_orders lacks its unique index, a file was altered or a start died.
LEMMA OrdersIndexedAlways == MigrationSpec => []OrdersIndexed
<1>1. MigrationInit => OrdersIndexed
  BY DEF MigrationInit, Earlier, OrdersIndexed
<1>2. MigInv /\ OrdersIndexed /\ [MigrationNext]_migrationVars => OrdersIndexed'
  BY OrdersIndexedKept
<1> QED BY <1>1, <1>2, MigrationInvariant, PTL DEF MigrationSpec

\* No stage runs on a file that lacks a table, a column, a key or the unique index
\* of a table constraint; nor, unless a file was altered or a start died in between
\* its two statements, one that lacks the unique index of slc_orders.
THEOREM StagesOnSoundStore == MigrationSpec => []StageOnSoundStore
<1>1. MigInv /\ OrdersIndexed => StageOnSoundStore
  BY CleanFromParts DEF MigInv, MigrationTypeOK, Progress, OrdersIndexed, StageOnSoundStore, Tables
<1> QED BY <1>1, MigrationInvariant, OrdersIndexedAlways, PTL

\* A file nobody altered is as sound as its version row says, after any crash.
THEOREM VersionsHonest == MigrationSpec => []VersionHonest
<1>1. MigInv => VersionHonest
  BY CleanFromParts DEF MigInv, MigrationTypeOK, SoundUnlessAltered, VersionHonest
<1> QED BY <1>1, MigrationInvariant, PTL
=============================================================================
