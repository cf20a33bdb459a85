------------------------ MODULE SchemaMigrationProofs ------------------------
(***************************************************************************)
(* SchemaMigration proved for every sequence of engines, every set of       *)
(* migrators and every number of faults and emptyings.                      *)
(***************************************************************************)
EXTENDS SchemaMigration, TLAPS

Table == Known \cup Stray

\* Stages of a run that has seen to every database before the one it is at.
Underway == {"walking", "tables", "locked", "created", "disconnecting", "succeeded"}

\* What holds of a migrator m whose run is q.
RunIs(m, q, holder, done) ==
  /\ q.stage = "connecting" => q.at = 1
  /\ q.stage = "tables" => q.at \in Describing
  /\ q.stage \in {"locked", "created"} => q.at \in Sql /\ holder[q.at] = m
  /\ q.stage \in {"disconnecting", "succeeded"} => q.at = N + 1
  /\ q.stage \in Underway => \A i \in Sql : i < q.at => i \in done

WorkerIs(w) ==
  /\ w.stage = "rows" => w.at \in Sql
  /\ w.stage = "tables" => w.at \in Describing

SchemaInv ==
  /\ MigrationTypeOK
  /\ recorded \subseteq sqlTables
  /\ \A m \in Migrator : RunIs(m, run[m], lock, recorded)
  /\ WorkerIs(worker)

LEMMA Numbers ==
  /\ N \in Nat /\ (\A i \in Db : i \in Nat /\ i >= 1 /\ i <= N /\ i + 1 \in 1..(N + 1))
  /\ 1 \in 1..(N + 1) /\ N + 1 \in 1..(N + 1) /\ N + 1 \notin Db
  /\ Sql \subseteq Db /\ Describing \subseteq Db /\ Schemaless \subseteq Db
  /\ Sql \cap Describing = {} /\ Sql \cap Schemaless = {} /\ Schemaless \cap Describing = {}
  /\ Schemaless \cup Describing \cup Sql = Db
<1>1. N \in Nat /\ \A i \in Db : Engines[i] \in Engine
  BY EnginesAssumption DEF N, Db
<1>2. \A i \in Db : i \in Nat /\ i >= 1 /\ i <= N /\ i + 1 \in 1..(N + 1)
  BY <1>1 DEF Db
<1>3. 1 \in 1..(N + 1) /\ N + 1 \in 1..(N + 1) /\ N + 1 \notin Db
  BY <1>1 DEF Db
<1>4. /\ Sql \subseteq Db /\ Describing \subseteq Db /\ Schemaless \subseteq Db
      /\ Sql \cap Describing = {} /\ Sql \cap Schemaless = {}
      /\ Schemaless \cap Describing = {}
  BY DEF Sql, Describing, Schemaless
<1>5. Schemaless \cup Describing \cup Sql = Db
  BY <1>1 DEF Sql, Describing, Schemaless, Engine
<1>. QED
  BY <1>1, <1>2, <1>3, <1>4, <1>5

LEMMA RunFields ==
  ASSUME SchemaInv, NEW m \in Migrator
  PROVE  /\ run[m] \in Run /\ run[m].at \in 1..(N + 1)
         /\ run[m].describe \subseteq Known /\ run[m].create \subseteq Known
         /\ run[m].refused \in BOOLEAN /\ RunIs(m, run[m], lock, recorded)
<1>1. run[m] \in Run
  BY DEF SchemaInv, MigrationTypeOK
<1>. QED
  BY <1>1 DEF Run, SchemaInv

LEMMA WorkerFields ==
  ASSUME SchemaInv
  PROVE  /\ worker \in Emptying /\ worker.at \in 1..(N + 1) /\ WorkerIs(worker)
         /\ worker.delete \subseteq Table /\ worker.create \subseteq Known
         /\ worker.refused \in BOOLEAN /\ worker.calls \in 0..MaxEmptyings
<1>1. worker \in Emptying
  BY DEF SchemaInv, MigrationTypeOK
<1>. QED
  BY <1>1 DEF Emptying, SchemaInv, Table

\* A migrator m becomes q; what it does to the databases takes nothing away.
LEMMA RunMoves ==
  ASSUME SchemaInv, NEW m \in Migrator, NEW q \in Run, run' = [run EXCEPT ![m] = q],
         UNCHANGED <<worker, rows>>, faults' \in 0..MaxFaults,
         dynamoTables' \subseteq Table,
         sqlTables' \subseteq Sql, recorded \subseteq recorded', recorded' \subseteq sqlTables',
         lock' \in [Sql -> Migrator \cup {Nobody}],
         \A i \in Sql : lock[i] \in Migrator \ {m} => lock'[i] = lock[i],
         RunIs(m, q, lock', recorded')
  PROVE  SchemaInv'
<1>1. /\ run' \in [Migrator -> Run] /\ run'[m] = q
      /\ \A p \in Migrator : p # m => run'[p] = run[p]
  BY DEF SchemaInv, MigrationTypeOK
<1>2. MigrationTypeOK' /\ recorded' \subseteq sqlTables' /\ WorkerIs(worker')
  BY <1>1 DEF SchemaInv, MigrationTypeOK, Table
<1>3. ASSUME NEW p \in Migrator PROVE RunIs(p, run'[p], lock', recorded')
  <2>1. CASE p = m
    BY <1>1, <2>1
  <2>2. CASE p # m
    BY <1>1, <2>2 DEF SchemaInv, RunIs
  <2>. QED
    BY <2>1, <2>2
<1>. QED
  BY <1>2, <1>3 DEF SchemaInv

LEMMA RunMovesAlone ==
  ASSUME SchemaInv, NEW m \in Migrator, NEW q \in Run, run' = [run EXCEPT ![m] = q],
         UNCHANGED schema, OutsideTests, RunIs(m, q, lock, recorded)
  PROVE  SchemaInv'
<1>1. /\ UNCHANGED <<worker, rows, faults, dynamoTables, sqlTables, recorded, lock>>
  BY DEF OutsideTests, schema
<1>. QED
  BY <1>1, RunMoves DEF SchemaInv, MigrationTypeOK, Table

LEMMA WorkerMoves ==
  ASSUME SchemaInv, UNCHANGED <<run, sqlTables, recorded, lock>>, faults' \in 0..MaxFaults,
         worker' \in Emptying, WorkerIs(worker'),
         dynamoTables' \subseteq Table, rows' \subseteq Db \cup Table
  PROVE  SchemaInv'
BY DEF SchemaInv, MigrationTypeOK, Table

-----------------------------------------------------------------------------
(* The migrators                                                            *)

LEMMA NewRunIs ==
  ASSUME NEW at \in 1..(N + 1), NEW stage \in {"connecting", "walking", "failed"}
  PROVE  LET q == [NewRun EXCEPT !.stage = stage, !.at = at] IN
         q \in Run /\ q.stage = stage /\ q.at = at /\ q.create = {} /\ q.describe = {}
BY DEF NewRun, Run

\* The databases before the next one are seen to when this one is.
LEMMA NextDatabase ==
  ASSUME SchemaInv, NEW m \in Migrator, run[m].stage \in Underway, run[m].at \in Db,
         NEW done, recorded \subseteq done, run[m].at \in Sql => run[m].at \in done
  PROVE  /\ run[m].at + 1 \in 1..(N + 1)
         /\ \A i \in Sql : i < run[m].at + 1 => i \in done
<1>1. \A i \in Sql : i < run[m].at => i \in recorded
  BY RunFields DEF RunIs
<1>2. \A i \in Sql : i < run[m].at + 1 => i < run[m].at \/ i = run[m].at
  BY Numbers
<1>. QED
  BY <1>1, <1>2, Numbers

LEMMA AdvancedRun ==
  ASSUME SchemaInv, NEW m \in Migrator, run[m].stage \in Underway, run[m].at \in Db,
         NEW holder, NEW done, recorded \subseteq done, run[m].at \in Sql => run[m].at \in done
  PROVE  LET q == [NewRun EXCEPT !.stage = "walking", !.at = run[m].at + 1] IN
         q \in Run /\ RunIs(m, q, holder, done)
<1>. DEFINE q == [NewRun EXCEPT !.stage = "walking", !.at = run[m].at + 1]
<1>1. /\ run[m].at + 1 \in 1..(N + 1)
      /\ \A i \in Sql : i < run[m].at + 1 => i \in done
  BY NextDatabase
<1>2. q \in Run /\ q.stage = "walking" /\ q.at = run[m].at + 1
  BY <1>1, NewRunIs
<1>. HIDE DEF q
<1>3. RunIs(m, q, holder, done)
  BY <1>1, <1>2 DEF RunIs
<1>. QED
  BY <1>2, <1>3 DEF q

LEMMA FailedRun ==
  ASSUME SchemaInv, NEW m \in Migrator, NEW holder, NEW done
  PROVE  LET q == [NewRun EXCEPT !.stage = "failed", !.at = run[m].at] IN
         q \in Run /\ RunIs(m, q, holder, done)
<1>. DEFINE q == [NewRun EXCEPT !.stage = "failed", !.at = run[m].at]
<1>1. q \in Run /\ q.stage = "failed"
  BY RunFields, NewRunIs
<1>. HIDE DEF q
<1>2. RunIs(m, q, holder, done)
  BY <1>1 DEF RunIs, Underway
<1>. QED
  BY <1>1, <1>2 DEF q

LEMMA StagedRun ==
  ASSUME SchemaInv, NEW m \in Migrator,
         NEW stage \in {"walking", "locked", "created", "disconnecting", "succeeded"}
  PROVE  LET q == [run[m] EXCEPT !.stage = stage] IN
         q \in Run /\ q.stage = stage /\ q.at = run[m].at
<1>1. run[m] \in Run
  BY RunFields
<1>. QED
  BY <1>1 DEF Run

LEMMA PlainSteps ==
  ASSUME SchemaInv, NEW m \in Migrator,
         \/ Start(m) \/ Rerun(m) \/ connectDatabases(m) \/ SkipMigration(m)
         \/ runMigrationsReturns(m) \/ disconnectDatabases(m)
  PROVE  SchemaInv'
<1>. USE DEF In, At
<1>1. CASE Start(m) \/ Rerun(m)
  <2>. DEFINE q == [NewRun EXCEPT !.stage = "connecting"]
  <2>1. q \in Run /\ q.stage = "connecting" /\ q.at = 1
    BY Numbers DEF NewRun, Run
  <2>2. run' = [run EXCEPT ![m] = q] /\ UNCHANGED schema /\ OutsideTests
    BY <1>1 DEF Start, Rerun
  <2>. HIDE DEF q
  <2>3. RunIs(m, q, lock, recorded)
    BY <2>1 DEF RunIs, Underway
  <2>. QED
    BY <2>1, <2>2, <2>3, RunMovesAlone
<1>2. CASE connectDatabases(m)
  <2>. DEFINE q == [run[m] EXCEPT !.stage = "walking"]
  <2>1. q \in Run /\ q.stage = "walking" /\ q.at = 1
    BY <1>2, StagedRun, RunFields DEF connectDatabases, RunIs
  <2>2. run' = [run EXCEPT ![m] = q] /\ UNCHANGED schema /\ OutsideTests
    BY <1>2 DEF connectDatabases, Moved, SchemaInv, MigrationTypeOK
  <2>. HIDE DEF q
  <2>3. RunIs(m, q, lock, recorded)
    BY <2>1, Numbers DEF RunIs
  <2>. QED
    BY <2>1, <2>2, <2>3, RunMovesAlone
<1>3. CASE SkipMigration(m)
  <2>. DEFINE q == [NewRun EXCEPT !.stage = "walking", !.at = run[m].at + 1]
  <2>1. q \in Run /\ RunIs(m, q, lock, recorded)
    BY <1>3, AdvancedRun, Numbers DEF SkipMigration, Underway
  <2>2. run' = [run EXCEPT ![m] = q] /\ UNCHANGED schema /\ OutsideTests
    BY <1>3 DEF SkipMigration, Advanced
  <2>. HIDE DEF q
  <2>. QED
    BY <2>1, <2>2, RunMovesAlone
<1>4. CASE runMigrationsReturns(m) \/ disconnectDatabases(m)
  <2>1. PICK stage \in {"disconnecting", "succeeded"} :
          Moved(m, stage) /\ UNCHANGED schema /\ OutsideTests
    BY <1>4 DEF runMigrationsReturns, disconnectDatabases
  <2>. DEFINE q == [run[m] EXCEPT !.stage = stage]
  <2>2. run[m].at = N + 1 /\ \A i \in Sql : i < run[m].at => i \in recorded
    BY <1>4, RunFields DEF runMigrationsReturns, disconnectDatabases, RunIs, Underway
  <2>3. q \in Run /\ q.stage = stage /\ q.at = run[m].at
    BY StagedRun
  <2>4. run' = [run EXCEPT ![m] = q]
    BY <2>1 DEF Moved, SchemaInv, MigrationTypeOK
  <2>. HIDE DEF q
  <2>5. RunIs(m, q, lock, recorded)
    BY <2>2, <2>3 DEF RunIs
  <2>. QED
    BY <2>1, <2>3, <2>4, <2>5, RunMovesAlone
<1>. QED
  BY <1>1, <1>2, <1>3, <1>4

\* A run among the tables of dynamo stays there.
LEMMA TableRun ==
  ASSUME SchemaInv, NEW m \in Migrator, run[m].stage = "tables", NEW q \in Run,
         q.stage = "tables", q.at = run[m].at
  PROVE  RunIs(m, q, lock, recorded)
BY RunFields DEF RunIs, Underway

LEMMA DynamoSteps ==
  ASSUME SchemaInv, NEW m \in Migrator,
         \/ DescribeTables(m) \/ TablesSettled(m)
         \/ \E t \in Known : TableDescribed(m, t) \/ TableCreated(m, t)
  PROVE  SchemaInv'
<1>. USE DEF In, At
<1>0. run[m] \in Run
  BY RunFields
<1>1. CASE DescribeTables(m)
  <2>. DEFINE q == [run[m] EXCEPT !.stage = "tables", !.describe = Known]
  <2>1. run' = [run EXCEPT ![m] = q] /\ UNCHANGED schema /\ OutsideTests
    BY <1>1 DEF DescribeTables
  <2>2. q \in Run /\ q.stage = "tables" /\ q.at = run[m].at
    BY <1>0 DEF Run
  <2>. HIDE DEF q
  <2>3. RunIs(m, q, lock, recorded)
    BY <1>1, <2>2, RunFields DEF RunIs, DescribeTables, Underway
  <2>. QED
    BY <2>1, <2>2, <2>3, RunMovesAlone
<1>2. ASSUME NEW t \in Known, TableDescribed(m, t) PROVE SchemaInv'
  <2>. DEFINE describe == run[m].describe \ {t}
              create == run[m].create \cup ({t} \ dynamoTables)
              q == [run[m] EXCEPT !.describe = describe, !.create = create]
  <2>1. run' = [run EXCEPT ![m] = q] /\ UNCHANGED schema /\ OutsideTests
    BY <1>2 DEF TableDescribed
  <2>2. describe \in SUBSET Known /\ create \in SUBSET Known
    BY RunFields
  <2>. HIDE DEF describe, create
  <2>3. q \in Run /\ q.stage = run[m].stage /\ q.at = run[m].at
    BY <1>0, <2>2 DEF Run
  <2>. HIDE DEF q
  <2>. QED
    BY <1>2, <2>1, <2>3, TableRun, RunMovesAlone DEF TableDescribed
<1>3. ASSUME NEW t \in Known, TableCreated(m, t) PROVE SchemaInv'
  <2>. DEFINE create == run[m].create \ {t}
              refused == run[m].refused \/ t \in dynamoTables
              q == [run[m] EXCEPT !.create = create, !.refused = refused]
  <2>1. /\ run' = [run EXCEPT ![m] = q] /\ dynamoTables' = dynamoTables \cup {t}
        /\ UNCHANGED <<sqlTables, recorded, lock>> /\ OutsideTests
    BY <1>3 DEF TableCreated
  <2>2. create \in SUBSET Known /\ refused \in BOOLEAN
    BY RunFields
  <2>. HIDE DEF refused, create
  <2>3. q \in Run /\ q.stage = run[m].stage /\ q.at = run[m].at
    BY <1>0, <2>2 DEF Run
  <2>. HIDE DEF q
  <2>4. RunIs(m, q, lock, recorded)
    BY <1>3, <2>3, TableRun DEF TableCreated
  <2>. QED
    BY <2>1, <2>3, <2>4, RunMoves DEF OutsideTests, SchemaInv, MigrationTypeOK, Table
<1>4. CASE TablesSettled(m)
  <2>1. /\ UNCHANGED schema /\ OutsideTests /\ run[m].stage \in Underway
        /\ run[m].at \in Describing /\ (Failed(m) \/ Advanced(m))
    BY <1>4, RunFields DEF TablesSettled, RunIs, Underway
  <2>2. CASE Failed(m)
    BY <2>1, <2>2, FailedRun, RunMovesAlone DEF Failed
  <2>3. CASE Advanced(m)
    <3>. DEFINE q == [NewRun EXCEPT !.stage = "walking", !.at = run[m].at + 1]
    <3>1. q \in Run /\ RunIs(m, q, lock, recorded)
      BY <2>1, AdvancedRun, Numbers
    <3>2. run' = [run EXCEPT ![m] = q]
      BY <2>3 DEF Advanced
    <3>. HIDE DEF q
    <3>. QED
      BY <2>1, <3>1, <3>2, RunMovesAlone
  <2>. QED
    BY <2>1, <2>2, <2>3
<1>. QED
  BY <1>1, <1>2, <1>3, <1>4

LEMMA ReleasedLocks ==
  ASSUME SchemaInv, NEW m \in Migrator, Released(m)
  PROVE  /\ lock' \in [Sql -> Migrator \cup {Nobody}]
         /\ \A i \in Sql : lock[i] \in Migrator \ {m} => lock'[i] = lock[i]
BY DEF Released, SchemaInv, MigrationTypeOK

LEMMA LockSteps ==
  ASSUME SchemaInv, NEW m \in Migrator, AcquireLock(m) \/ CreateBaseTable(m)
  PROVE  SchemaInv'
<1>. USE DEF In, At
<1>1. PICK stage \in {"locked", "created"} :
        /\ Moved(m, stage) /\ OutsideTests /\ UNCHANGED <<dynamoTables, recorded>>
        /\ lock' \in [Sql -> Migrator \cup {Nobody}]
        /\ \A i \in Sql : lock[i] \in Migrator \ {m} => lock'[i] = lock[i]
        /\ run[m].at \in Sql /\ lock'[run[m].at] = m
        /\ sqlTables \subseteq sqlTables' /\ sqlTables' \subseteq Sql
        /\ run[m].stage \in Underway
  <2>1. CASE AcquireLock(m)
    BY <2>1, NobodyAssumption DEF AcquireLock, SchemaInv, MigrationTypeOK, Underway
  <2>2. CASE CreateBaseTable(m)
    <3>1. run[m].at \in Sql /\ lock[run[m].at] = m
      BY <2>2, RunFields DEF CreateBaseTable, RunIs
    <3>. QED
      BY <2>2, <3>1 DEF CreateBaseTable, SchemaInv, MigrationTypeOK, Underway
  <2>. QED
    BY <2>1, <2>2
<1>. DEFINE q == [run[m] EXCEPT !.stage = stage]
<1>2. q \in Run /\ q.stage = stage /\ q.at = run[m].at
  BY StagedRun
<1>3. run' = [run EXCEPT ![m] = q]
  BY <1>1 DEF Moved, SchemaInv, MigrationTypeOK
<1>. HIDE DEF q
<1>4. RunIs(m, q, lock', recorded')
  BY <1>1, <1>2, RunFields DEF RunIs
<1>. QED
  BY <1>1, <1>2, <1>3, <1>4, RunMoves DEF OutsideTests, SchemaInv, MigrationTypeOK, Table

LEMMA UnlockSteps ==
  ASSUME SchemaInv, NEW m \in Migrator, UpToDate(m) \/ RecordMigration(m)
  PROVE  SchemaInv'
<1>. USE DEF In, At
<1>. DEFINE q == [NewRun EXCEPT !.stage = "walking", !.at = run[m].at + 1]
<1>1. /\ run' = [run EXCEPT ![m] = q] /\ Released(m) /\ OutsideTests
      /\ dynamoTables' = dynamoTables /\ run[m].stage \in Underway
      /\ run[m].at \in Sql
  BY RunFields DEF UpToDate, RecordMigration, Advanced, RunIs, Underway
<1>2. /\ recorded \subseteq recorded' /\ recorded' \subseteq sqlTables' /\ sqlTables' \subseteq Sql
      /\ run[m].at \in recorded'
  BY <1>1 DEF UpToDate, RecordMigration, SchemaInv, MigrationTypeOK
<1>3. q \in Run /\ RunIs(m, q, lock', recorded')
  BY <1>1, <1>2, AdvancedRun, Numbers
<1>. HIDE DEF q
<1>. QED
  BY <1>1, <1>2, <1>3, ReleasedLocks, RunMoves DEF OutsideTests, SchemaInv, MigrationTypeOK, Table

LEMMA FailureSteps ==
  ASSUME SchemaInv, NEW m \in Migrator, BaseTableExists(m) \/ RunFails(m)
  PROVE  SchemaInv'
<1>. USE DEF In, At
<1>. DEFINE q == [NewRun EXCEPT !.stage = "failed", !.at = run[m].at]
<1>1. /\ run' = [run EXCEPT ![m] = q] /\ Released(m) /\ UNCHANGED <<worker, rows>>
  BY DEF BaseTableExists, RunFails, Failed, OutsideTests
<1>2. /\ faults' \in 0..MaxFaults /\ dynamoTables' \subseteq Table
  <2>1. CASE BaseTableExists(m)
    BY <2>1 DEF BaseTableExists, OutsideTests, SchemaInv, MigrationTypeOK, Table
  <2>2. CASE RunFails(m)
    <3>1. faults' \in 0..MaxFaults
      BY <2>2, BoundsAssumption DEF RunFails, SchemaInv, MigrationTypeOK
    <3>2. dynamoTables' \subseteq Table
      BY <2>2, RunFields DEF RunFails, SchemaInv, MigrationTypeOK, Table
    <3>. QED
      BY <3>1, <3>2
  <2>. QED
    BY <2>1, <2>2
<1>3. /\ recorded \subseteq recorded' /\ recorded' \subseteq sqlTables' /\ sqlTables' \subseteq Sql
  <2>1. CASE UNCHANGED <<sqlTables, recorded>>
    BY <2>1 DEF SchemaInv, MigrationTypeOK
  <2>2. CASE ~UNCHANGED <<sqlTables, recorded>>
    <3>1. StatementLost(m)
      BY <2>2 DEF BaseTableExists, RunFails
    <3>2. /\ run[m].at \in Sql /\ sqlTables' = sqlTables \cup {run[m].at}
          /\ recorded' = recorded \/ recorded' = recorded \cup {run[m].at}
      BY <2>2, <3>1, RunFields DEF StatementLost, RunIs
    <3>. QED
      BY <3>2 DEF SchemaInv, MigrationTypeOK
  <2>. QED
    BY <2>1, <2>2
<1>4. q \in Run /\ RunIs(m, q, lock', recorded')
  BY FailedRun
<1>. HIDE DEF q
<1>. QED
  BY <1>1, <1>2, <1>3, <1>4, ReleasedLocks, RunMoves

-----------------------------------------------------------------------------
(* emptyDatabases                                                           *)

LEMMA EmptiedWorker ==
  ASSUME SchemaInv, Emptied, worker.at \in Db
  PROVE  worker' \in Emptying /\ worker'.stage = "walking" /\ worker'.at = worker.at + 1
         /\ worker'.delete = {} /\ worker'.create = worker.create
<1>1. worker \in Emptying /\ worker.at + 1 \in 1..(N + 1)
  BY WorkerFields, Numbers
<1>. DEFINE next == worker.at + 1
            w == [worker EXCEPT !.stage = "walking", !.at = next, !.delete = {}]
<1>2. worker' = w
  BY DEF Emptied
<1>. HIDE DEF next
<1>3. /\ w.stage = "walking" /\ w.at = next /\ w.delete = {} /\ w.create = worker.create
  BY <1>1 DEF Emptying
<1>4. w \in Emptying
  BY <1>1 DEF Emptying, next
<1>. QED
  BY <1>2, <1>3, <1>4 DEF next

LEMMA FailedWorker ==
  ASSUME SchemaInv
  PROVE  /\ EmptyingFails \in Emptying /\ EmptyingFails.stage = "failed"
         /\ EmptyingFails.delete = worker.delete /\ EmptyingFails.create = worker.create
<1>1. worker \in Emptying
  BY WorkerFields
<1>. QED
  BY <1>1 DEF EmptyingFails, Emptying

\* The calls of the worker for its tables.
LEMMA WorkerCalls ==
  ASSUME NEW w \in Emptying, NEW delete \in SUBSET Table, NEW create \in SUBSET Known,
         NEW refused \in BOOLEAN
  PROVE  /\ [w EXCEPT !.delete = delete] \in Emptying
         /\ [w EXCEPT !.create = create] \in Emptying
         /\ [w EXCEPT !.delete = delete, !.create = create] \in Emptying
         /\ [w EXCEPT !.delete = delete, !.create = create, !.refused = refused] \in Emptying
BY DEF Emptying, Table

LEMMA WalkSteps ==
  ASSUME SchemaInv,
         \/ WriteRows \/ emptyDatabases \/ EmptySchemaless \/ ListSqlTables \/ DeleteRows
         \/ ListTables \/ TablesEmptied \/ emptyDatabasesReturns
  PROVE  SchemaInv'
<1>. USE DEF Walking
<1>0. /\ worker \in Emptying /\ worker.at \in 1..(N + 1) /\ WorkerIs(worker)
      /\ dynamoTables \subseteq Table /\ rows \subseteq Db \cup Table /\ faults \in 0..MaxFaults
  BY WorkerFields DEF SchemaInv, MigrationTypeOK, Table
<1>1. /\ UNCHANGED <<run, sqlTables, recorded, lock>> /\ faults' \in 0..MaxFaults
      /\ dynamoTables' = dynamoTables
  BY <1>0 DEF WriteRows, emptyDatabases, EmptySchemaless, ListSqlTables, DeleteRows, ListTables,
              TablesEmptied, emptyDatabasesReturns, schema
<1>2. rows' \subseteq Db \cup Table
  <2>1. CASE WriteRows
    BY <1>0, <2>1, Numbers DEF WriteRows, SchemaInv, MigrationTypeOK
  <2>2. CASE ~WriteRows
    BY <1>0, <2>2 DEF emptyDatabases, EmptySchemaless, ListSqlTables, DeleteRows, ListTables,
              TablesEmptied, emptyDatabasesReturns
  <2>. QED
    BY <2>1, <2>2
<1>3. worker' \in Emptying /\ WorkerIs(worker')
  <2>1. CASE WriteRows
    <3>1. worker' = [worker EXCEPT !.stage = "idle", !.at = 1]
      BY <2>1 DEF WriteRows
    <3>2. /\ [worker EXCEPT !.stage = "idle", !.at = 1] \in Emptying
          /\ [worker EXCEPT !.stage = "idle", !.at = 1].stage = "idle"
      BY <1>0, Numbers DEF Emptying
    <3>. QED
      BY <3>1, <3>2 DEF WorkerIs
  <2>2. CASE emptyDatabases
    <3>. DEFINE calls == worker.calls + 1
                w == [NoEmptying EXCEPT !.stage = "walking", !.calls = calls]
    <3>1. worker' = w
      BY <2>2 DEF emptyDatabases
    <3>2. calls \in 0..MaxEmptyings
      BY <2>2, WorkerFields, BoundsAssumption DEF emptyDatabases
    <3>. HIDE DEF calls
    <3>3. w \in Emptying /\ w.stage = "walking"
      BY <3>2, Numbers DEF Emptying, NoEmptying
    <3>. QED
      BY <3>1, <3>3 DEF WorkerIs
  <2>3. CASE Emptied /\ worker.at \in Db
    BY <2>3, EmptiedWorker DEF WorkerIs
  <2>4. CASE (EmptySchemaless \/ DeleteRows \/ (ListSqlTables \/ TablesEmptied)) /\ Emptied
    <3>1. worker.at \in Db
      BY <1>0, <2>4, Numbers DEF EmptySchemaless, DeleteRows, ListSqlTables, TablesEmptied, WorkerIs
    <3>. QED
      BY <2>3, <2>4, <3>1
  <2>5. CASE ListSqlTables /\ ~Emptied
    <3>1. worker' = [worker EXCEPT !.stage = "rows"] /\ worker.at \in Sql
      BY <2>5 DEF ListSqlTables
    <3>2. /\ [worker EXCEPT !.stage = "rows"] \in Emptying
          /\ [worker EXCEPT !.stage = "rows"].stage = "rows"
          /\ [worker EXCEPT !.stage = "rows"].at = worker.at
      BY <1>0 DEF Emptying
    <3>. QED
      BY <3>1, <3>2 DEF WorkerIs
  <2>6. CASE ListTables
    <3>. DEFINE w == [worker EXCEPT !.stage = "tables", !.delete = dynamoTables]
    <3>1. worker' = w /\ worker.at \in Describing
      BY <2>6 DEF ListTables
    <3>2. w \in Emptying /\ w.stage = "tables" /\ w.at = worker.at
      BY <1>0 DEF Emptying, Table
    <3>. QED
      BY <3>1, <3>2 DEF WorkerIs
  <2>7. CASE TablesEmptied /\ ~Emptied
    BY <2>7, FailedWorker DEF TablesEmptied, WorkerIs
  <2>8. CASE emptyDatabasesReturns
    <3>1. worker' = [worker EXCEPT !.stage = "done"]
      BY <2>8 DEF emptyDatabasesReturns
    <3>2. /\ [worker EXCEPT !.stage = "done"] \in Emptying
          /\ [worker EXCEPT !.stage = "done"].stage = "done"
      BY <1>0 DEF Emptying
    <3>. QED
      BY <3>1, <3>2 DEF WorkerIs
  <2>9. EmptySchemaless \/ DeleteRows => Emptied
    BY DEF EmptySchemaless, DeleteRows
  <2>. QED
    BY <2>1, <2>2, <2>4, <2>5, <2>6, <2>7, <2>8, <2>9
<1>. QED
  BY <1>0, <1>1, <1>2, <1>3, WorkerMoves

LEMMA TableCallSteps ==
  ASSUME SchemaInv, NEW t \in Table, TableDeleted(t) \/ TableGone(t) \/ TableRecreated(t)
  PROVE  SchemaInv'
<1>0. /\ worker \in Emptying /\ WorkerIs(worker) /\ worker.delete \subseteq Table
      /\ worker.create \subseteq Known /\ worker.refused \in BOOLEAN
      /\ dynamoTables \subseteq Table /\ rows \subseteq Db \cup Table /\ faults \in 0..MaxFaults
  BY WorkerFields DEF SchemaInv, MigrationTypeOK, Table
<1>1. /\ UNCHANGED <<run, sqlTables, recorded, lock, faults>>
      /\ dynamoTables' \subseteq Table /\ rows' \subseteq Db \cup Table
  BY <1>0 DEF TableDeleted, TableGone, TableRecreated, schema, Table
<1>2. CASE TableDeleted(t)
  <2>. DEFINE delete == worker.delete \ {t}
              create == worker.create \cup ({t} \cap Known)
              refused == worker.refused \/ t \in Stray
              w == [worker EXCEPT !.delete = delete, !.create = create, !.refused = refused]
  <2>1. worker' = w
    BY <1>2 DEF TableDeleted
  <2>2. delete \in SUBSET Table /\ create \in SUBSET Known /\ refused \in BOOLEAN
    BY <1>0
  <2>. HIDE DEF delete, create, refused
  <2>3. w.stage = worker.stage /\ w.at = worker.at
    BY <1>0 DEF Emptying
  <2>4. w \in Emptying
    BY <1>0, <2>2, WorkerCalls
  <2>. HIDE DEF w
  <2>5. WorkerIs(w)
    BY <1>0, <2>3 DEF WorkerIs
  <2>. QED
    BY <1>0, <1>1, <2>1, <2>4, <2>5, WorkerMoves
<1>3. CASE TableGone(t)
  <2>. DEFINE w == [EmptyingFails EXCEPT !.delete = worker.delete \ {t}]
  <2>1. worker' = w
    BY <1>3, FailedWorker DEF TableGone
  <2>2. w \in Emptying
    BY <1>0, FailedWorker, WorkerCalls
  <2>3. w.stage = "failed"
    BY FailedWorker DEF Emptying
  <2>. HIDE DEF w
  <2>. QED
    BY <1>0, <1>1, <2>1, <2>2, <2>3, WorkerMoves DEF WorkerIs
<1>4. CASE TableRecreated(t)
  <2>1. PICK v \in {EmptyingFails, worker} : worker' = [v EXCEPT !.create = v.create \ {t}]
    BY <1>4 DEF TableRecreated
  <2>2. v \in Emptying /\ WorkerIs(v) /\ v.create = worker.create
    BY <1>0, FailedWorker DEF WorkerIs
  <2>3. [v EXCEPT !.create = v.create \ {t}] \in Emptying
    BY <1>0, <2>2, WorkerCalls
  <2>4. /\ [v EXCEPT !.create = v.create \ {t}].stage = v.stage
        /\ [v EXCEPT !.create = v.create \ {t}].at = v.at
    BY <2>2 DEF Emptying
  <2>5. WorkerIs(worker')
    BY <2>1, <2>2, <2>4 DEF WorkerIs
  <2>. QED
    BY <1>0, <1>1, <2>1, <2>3, <2>5, WorkerMoves
<1>. QED
  BY <1>2, <1>3, <1>4

LEMMA FaultSteps ==
  ASSUME SchemaInv, EmptyingInterrupted \/ DynamoRestarts PROVE SchemaInv'
<1>0. /\ worker \in Emptying /\ WorkerIs(worker) /\ worker.delete \subseteq Table
      /\ worker.create \subseteq Known
      /\ dynamoTables \subseteq Table /\ rows \subseteq Db \cup Table
  BY WorkerFields DEF SchemaInv, MigrationTypeOK, Table
<1>1. UNCHANGED <<run, sqlTables, recorded, lock>>
  BY DEF EmptyingInterrupted, DynamoRestarts
<1>2. faults' \in 0..MaxFaults
  BY BoundsAssumption DEF EmptyingInterrupted, DynamoRestarts, SchemaInv, MigrationTypeOK
<1>3. dynamoTables' \subseteq Table /\ rows' \subseteq Db \cup Table
  BY <1>0 DEF EmptyingInterrupted, DynamoRestarts, Table
<1>4. worker' \in Emptying /\ WorkerIs(worker')
  <2>1. CASE DynamoRestarts
    BY <1>0, <2>1 DEF DynamoRestarts
  <2>2. CASE EmptyingInterrupted
    <3>1. worker' = [EmptyingFails EXCEPT !.delete = {}, !.create = {}]
      BY <2>2 DEF EmptyingInterrupted
    <3>2. [EmptyingFails EXCEPT !.delete = {}, !.create = {}] \in Emptying
      BY FailedWorker, WorkerCalls
    <3>3. [EmptyingFails EXCEPT !.delete = {}, !.create = {}].stage = "failed"
      BY FailedWorker DEF Emptying
    <3>. QED
      BY <3>1, <3>2, <3>3 DEF WorkerIs
  <2>. QED
    BY <2>1, <2>2
<1>. QED
  BY <1>1, <1>2, <1>3, <1>4, WorkerMoves

-----------------------------------------------------------------------------
(* The invariant                                                            *)

LEMMA MigratorStep ==
  ASSUME SchemaInv, NEW m \in Migrator,
         Start(m) \/ AcquireLock(m) \/ RunStep(m) \/ RunFails(m)
  PROVE  SchemaInv'
BY PlainSteps, DynamoSteps, LockSteps, UnlockSteps, FailureSteps DEF RunStep

LEMMA WorkerStep ==
  ASSUME SchemaInv,
         WriteRows \/ emptyDatabases \/ EmptyingStep \/ EmptyingInterrupted \/ DynamoRestarts
  PROVE  SchemaInv'
BY WalkSteps, TableCallSteps, FaultSteps DEF EmptyingStep, Table

LEMMA SchemaInvPreserved == SchemaInv /\ [Next]_vars => SchemaInv'
<1>. SUFFICES ASSUME SchemaInv, [Next]_vars PROVE SchemaInv'
  OBVIOUS
<1>1. CASE UNCHANGED vars
  BY <1>1 DEF vars, schema, SchemaInv, MigrationTypeOK
<1>. QED
  BY <1>1, MigratorStep, WorkerStep DEF Next

LEMMA SchemaInvInitially == Init => SchemaInv
<1>. SUFFICES ASSUME Init PROVE SchemaInv
  OBVIOUS
<1>1. NewRun \in Run /\ NewRun.stage = "idle"
  BY Numbers DEF NewRun, Run
<1>2. NoEmptying \in Emptying /\ NoEmptying.stage = "idle"
  BY Numbers, BoundsAssumption DEF NoEmptying, Emptying
<1>3. run \in [Migrator -> Run] /\ \A m \in Migrator : run[m].stage = "idle"
  BY <1>1 DEF Init
<1>4. lock \in [Sql -> Migrator \cup {Nobody}] /\ faults \in 0..MaxFaults
  BY BoundsAssumption DEF Init
<1>5. MigrationTypeOK /\ recorded \subseteq sqlTables
  BY <1>2, <1>3, <1>4 DEF Init, MigrationTypeOK
<1>. QED
  BY <1>2, <1>3, <1>5 DEF Init, SchemaInv, RunIs, WorkerIs, Underway

\* What the properties below rest on.
THEOREM SchemaInvHolds == Spec => []SchemaInv
BY SchemaInvInitially, SchemaInvPreserved, PTL DEF Spec

\* The migrators, the tests and the databases keep the types of their state.
THEOREM MigrationTypeCorrect == Spec => []MigrationTypeOK
<1>1. SchemaInv => MigrationTypeOK
  BY DEF SchemaInv
<1>. QED
  BY <1>1, SchemaInvHolds, PTL

\* Whatever fails and whoever else migrates, a migrate.ts that exits with 0
\* leaves every SQL database migrated, and nothing ever takes that back.
THEOREM SuccessIsComplete == Spec => []SuccessMeansMigrated
<1>1. ASSUME SchemaInv, Finished # {} PROVE sqlTables = Sql /\ recorded = Sql
  <2>1. PICK m \in Migrator : run[m].stage = "succeeded"
    BY <1>1 DEF Finished
  <2>2. \A i \in Sql : i \in recorded
    BY <1>1, <2>1, RunFields, Numbers DEF RunIs, Underway
  <2>. QED
    BY <1>1, <2>2 DEF SchemaInv, MigrationTypeOK
<1>2. SchemaInv => SuccessMeansMigrated
  BY <1>1 DEF SuccessMeansMigrated
<1>. QED
  BY <1>2, SchemaInvHolds, PTL

-----------------------------------------------------------------------------
(* Concurrent migrations                                                    *)

\* As long as nothing fails, a table without its record has a migrator at work.
RaceInv ==
  faults = 0 =>
    /\ \A i \in sqlTables \ recorded :
         \E m \in Migrator : run[m].stage = "created" /\ run[m].at = i
    /\ \A m \in Migrator : run[m].stage = "failed" => run[m].at \in Describing

LEMMA FaultsRemain == ASSUME SchemaInv, [Next]_vars, faults' = 0 PROVE faults' = faults
<1>1. faults \in Nat
  BY DEF SchemaInv, MigrationTypeOK
<1>2. CASE faults' = faults + 1
  BY <1>1, <1>2
<1>3. faults' = faults + 1 \/ faults' = faults
  BY DEF Next, RunStep, EmptyingStep, Start, AcquireLock, RunFails, WriteRows, emptyDatabases,
     EmptyingInterrupted, DynamoRestarts, Rerun, connectDatabases, SkipMigration,
     runMigrationsReturns, disconnectDatabases, DescribeTables, TableDescribed, TableCreated,
     TablesSettled, UpToDate, CreateBaseTable, BaseTableExists, RecordMigration,
     EmptySchemaless, ListSqlTables, DeleteRows, ListTables, TableDeleted, TableGone,
     TableRecreated, TablesEmptied, emptyDatabasesReturns, OutsideTests, vars
<1>. QED
  BY <1>2, <1>3

\* A step of a migrator without a table of its own, which does not fail it or
\* fails it in dynamo.
LEMMA RaceGoesOn ==
  ASSUME SchemaInv, RaceInv, NEW m \in Migrator, NEW q \in Run,
         run' = [run EXCEPT ![m] = q], UNCHANGED <<sqlTables, recorded, faults>>,
         run[m].stage # "created", q.stage = "failed" => q.at \in Describing
  PROVE  RaceInv'
<1>1. run'[m] = q /\ \A p \in Migrator : p # m => run'[p] = run[p]
  BY DEF SchemaInv, MigrationTypeOK
<1>. QED
  BY <1>1 DEF RaceInv

LEMMA RaceInMigrator ==
  ASSUME SchemaInv, RaceInv, faults = 0, faults' = 0, NEW m \in Migrator,
         Start(m) \/ AcquireLock(m) \/ RunStep(m) \/ RunFails(m)
  PROVE  RaceInv'
<1>. USE DEF In, At
<1>0. run[m] \in Run /\ run \in [Migrator -> Run]
  BY RunFields DEF SchemaInv, MigrationTypeOK
<1>1. CASE Start(m) \/ Rerun(m)
  <2>. DEFINE q == [NewRun EXCEPT !.stage = "connecting"]
  <2>1. q \in Run /\ q.stage = "connecting"
    BY Numbers DEF NewRun, Run
  <2>2. run' = [run EXCEPT ![m] = q] /\ UNCHANGED <<sqlTables, recorded, faults>>
    BY <1>1 DEF Start, Rerun, schema, OutsideTests
  <2>3. run[m].stage # "created"
    BY <1>1 DEF Start, Rerun
  <2>. HIDE DEF q
  <2>. QED
    BY <2>1, <2>2, <2>3, RaceGoesOn
<1>2. CASE \/ connectDatabases(m) \/ runMigrationsReturns(m) \/ disconnectDatabases(m)
           \/ AcquireLock(m)
  <2>1. PICK stage \in {"walking", "disconnecting", "succeeded", "locked"} : Moved(m, stage)
    BY <1>2 DEF connectDatabases, runMigrationsReturns, disconnectDatabases, AcquireLock
  <2>2. /\ UNCHANGED <<sqlTables, recorded, faults>> /\ run[m].stage # "created"
    BY <1>2 DEF connectDatabases, runMigrationsReturns, disconnectDatabases, AcquireLock,
                schema, OutsideTests
  <2>. DEFINE q == [run[m] EXCEPT !.stage = stage]
  <2>3. q \in Run /\ q.stage = stage
    BY StagedRun
  <2>4. run' = [run EXCEPT ![m] = q]
    BY <1>0, <2>1 DEF Moved
  <2>. HIDE DEF q
  <2>. QED
    BY <2>2, <2>3, <2>4, RaceGoesOn
<1>3. CASE SkipMigration(m) \/ UpToDate(m) \/ (TablesSettled(m) /\ Advanced(m))
  <2>1. /\ Advanced(m) /\ UNCHANGED <<sqlTables, recorded, faults>>
        /\ run[m].stage # "created" /\ run[m].at \in Db
    BY <1>3, RunFields, Numbers DEF SkipMigration, UpToDate, TablesSettled, schema, OutsideTests, RunIs
  <2>. DEFINE q == [NewRun EXCEPT !.stage = "walking", !.at = run[m].at + 1]
  <2>2. q \in Run /\ q.stage = "walking"
    BY <2>1, Numbers, NewRunIs
  <2>3. run' = [run EXCEPT ![m] = q]
    BY <2>1 DEF Advanced
  <2>. HIDE DEF q
  <2>. QED
    BY <2>1, <2>2, <2>3, RaceGoesOn
<1>4. CASE TablesSettled(m) /\ ~Advanced(m)
  <2>. DEFINE q == [NewRun EXCEPT !.stage = "failed", !.at = run[m].at]
  <2>1. /\ run' = [run EXCEPT ![m] = q] /\ UNCHANGED <<sqlTables, recorded, faults>>
        /\ run[m].stage # "created" /\ run[m].at \in Describing
    BY <1>4, RunFields DEF TablesSettled, Failed, schema, OutsideTests, RunIs
  <2>2. q \in Run /\ q.at = run[m].at
    BY RunFields, NewRunIs
  <2>. HIDE DEF q
  <2>. QED
    BY <2>1, <2>2, RaceGoesOn
<1>5. CASE DescribeTables(m) \/ \E t \in Known : TableDescribed(m, t) \/ TableCreated(m, t)
  <2>1. /\ UNCHANGED <<sqlTables, recorded, faults>>
        /\ \A p \in Migrator : p # m => run'[p] = run[p]
        /\ run[m].stage # "created"
    BY <1>0, <1>5 DEF DescribeTables, TableDescribed, TableCreated, schema, OutsideTests
  <2>2. run'[m].stage = "tables"
    <3>1. CASE DescribeTables(m)
      BY <1>0, <3>1 DEF DescribeTables, Run
    <3>2. ASSUME NEW t \in Known, TableDescribed(m, t) PROVE run'[m].stage = "tables"
      BY <1>0, <3>2 DEF TableDescribed, Run
    <3>3. ASSUME NEW t \in Known, TableCreated(m, t) PROVE run'[m].stage = "tables"
      BY <1>0, <3>3 DEF TableCreated, Run
    <3>. QED
      BY <1>5, <3>1, <3>2, <3>3
  <2>. QED
    BY <2>1, <2>2 DEF RaceInv
<1>6. CASE CreateBaseTable(m)
  <2>1. /\ sqlTables' \subseteq sqlTables \cup {run[m].at} /\ recorded' = recorded
        /\ run[m].stage # "created"
        /\ Moved(m, "created")
    BY <1>6 DEF CreateBaseTable
  <2>2. /\ run'[m].stage = "created" /\ run'[m].at = run[m].at
        /\ \A p \in Migrator : p # m => run'[p] = run[p]
    BY <1>0, <2>1 DEF Moved, Run
  <2>3. \A i \in sqlTables' \ recorded' :
          \E p \in Migrator : run'[p].stage = "created" /\ run'[p].at = i
    BY <2>1, <2>2 DEF RaceInv
  <2>. QED
    BY <2>2, <2>3 DEF RaceInv
<1>7. CASE RecordMigration(m)
  <2>. DEFINE q == [NewRun EXCEPT !.stage = "walking", !.at = run[m].at + 1]
  <2>1. /\ sqlTables' = sqlTables \cup {run[m].at} /\ recorded' = recorded \cup {run[m].at}
        /\ run' = [run EXCEPT ![m] = q] /\ run[m].at \in Db
    BY <1>7, RunFields, Numbers DEF RecordMigration, Advanced, RunIs
  <2>2. run'[m].stage = "walking" /\ \A p \in Migrator : p # m => run'[p] = run[p]
    <3>1. q.stage = "walking"
      BY <2>1, NewRunIs, Numbers
    <3>. HIDE DEF q
    <3>. QED
      BY <1>0, <2>1, <3>1
  <2>3. \A i \in sqlTables' \ recorded' :
          \E p \in Migrator : run'[p].stage = "created" /\ run'[p].at = i
    BY <2>1, <2>2 DEF RaceInv
  <2>. QED
    BY <2>2, <2>3 DEF RaceInv
<1>8. ~BaseTableExists(m)
  <2>. SUFFICES ASSUME BaseTableExists(m) PROVE FALSE
    OBVIOUS
  <2>1. /\ run[m].stage = "locked" /\ run[m].at \in sqlTables \ recorded
        /\ lock[run[m].at] = m
    BY RunFields DEF BaseTableExists, RunIs
  <2>2. PICK p \in Migrator : run[p].stage = "created" /\ run[p].at = run[m].at
    BY <2>1 DEF RaceInv
  <2>3. lock[run[p].at] = p
    BY <2>2, RunFields DEF RunIs
  <2>. QED
    BY <2>1, <2>2, <2>3
<1>9. ~RunFails(m)
  BY DEF RunFails
<1>. QED
  BY <1>1, <1>2, <1>3, <1>4, <1>5, <1>6, <1>7, <1>8, <1>9 DEF RunStep

LEMMA WorkerLeavesRuns ==
  ASSUME WriteRows \/ emptyDatabases \/ EmptyingStep \/ EmptyingInterrupted \/ DynamoRestarts
  PROVE  UNCHANGED <<run, sqlTables, recorded>>
BY DEF EmptyingStep, WriteRows, emptyDatabases, EmptyingInterrupted, DynamoRestarts,
   EmptySchemaless, ListSqlTables, DeleteRows, ListTables, TableDeleted, TableGone,
   TableRecreated, TablesEmptied, emptyDatabasesReturns, schema

LEMMA RaceInvPreserved == SchemaInv /\ RaceInv /\ [Next]_vars => RaceInv'
<1>. SUFFICES ASSUME SchemaInv, RaceInv, [Next]_vars PROVE RaceInv'
  OBVIOUS
<1>1. CASE faults' # 0
  BY <1>1 DEF RaceInv
<1>2. CASE faults' = 0
  <2>1. faults = 0
    BY <1>2, FaultsRemain
  <2>2. CASE UNCHANGED <<run, sqlTables, recorded>>
    BY <2>1, <2>2 DEF RaceInv
  <2>. QED
    BY <1>2, <2>1, <2>2, RaceInMigrator, WorkerLeavesRuns DEF Next, vars, schema
<1>. QED
  BY <1>1, <1>2

\* The lock of kysely keeps concurrent migrations from failing each other in the
\* SQL databases; where there is no lock they may.
THEOREM OnlyDynamoRaces == Spec => []OnlyDynamoLosesRaces
<1>1. Init => RaceInv
  <2>1. ASSUME Init, NEW m \in Migrator PROVE run[m].stage # "failed"
    BY <2>1 DEF Init, NewRun
  <2>. QED
    BY <2>1 DEF Init, RaceInv
<1>2. RaceInv => OnlyDynamoLosesRaces
  BY DEF RaceInv, OnlyDynamoLosesRaces, In
<1>. QED
  BY <1>1, <1>2, RaceInvPreserved, SchemaInvHolds, PTL DEF Spec

-----------------------------------------------------------------------------
(* What emptying leaves behind                                              *)

\* The rows that an emptying in progress still has before it, and where rows
\* can be at all.
RowsInv ==
  /\ rows \cap Table \subseteq dynamoTables
  /\ rows \cap Sql \subseteq sqlTables /\ rows \cap Describing = {}
  /\ worker.stage \in {"walking", "rows", "tables", "done"} =>
       /\ \A i \in rows \cap Db : i >= worker.at
       /\ (\E i \in Describing : i < worker.at) => rows \cap Table = {}
  /\ worker.stage = "tables" => rows \cap Table \subseteq worker.delete
  /\ worker.stage = "done" => worker.at = N + 1

LEMMA Separate == Db \cap Table = {} /\ Sql \cap Table = {} /\ Describing \cap Table = {}
<1>1. Db \cap Table = {}
  BY TablesAssumption, Numbers DEF Table
<1>. QED
  BY <1>1, Numbers

\* The next database: what the worker leaves behind holds no rows any more.
LEMMA RowsBehind ==
  ASSUME SchemaInv, RowsInv, Emptied, worker.stage \in {"walking", "rows", "tables"},
         worker.at \in Db, rows' \subseteq rows, worker.at \notin rows',
         UNCHANGED <<dynamoTables, sqlTables>>,
         worker.at \in Describing => rows' \cap Table = {}
  PROVE  RowsInv'
<1>1. /\ worker'.stage = "walking" /\ worker'.at = worker.at + 1
  BY EmptiedWorker
<1>2. \A i \in rows' \cap Db : i >= worker'.at
  <2>1. \A i \in rows' \cap Db : i >= worker.at /\ i # worker.at
    BY DEF RowsInv
  <2>. QED
    BY <1>1, <2>1, Numbers
<1>3. (\E i \in Describing : i < worker'.at) => rows' \cap Table = {}
  <2>1. \A i \in Describing : i < worker'.at => i < worker.at \/ i = worker.at
    BY <1>1, Numbers
  <2>. QED
    BY <2>1 DEF RowsInv
<1>. QED
  BY <1>1, <1>2, <1>3 DEF RowsInv

\* The other steps take no row from elsewhere and leave the worker where it is.
LEMMA RowsStay ==
  ASSUME SchemaInv, RowsInv, rows' \subseteq rows, rows' \cap Table \subseteq dynamoTables',
         sqlTables \subseteq sqlTables',
         \/ worker'.stage = worker.stage /\ worker'.at = worker.at
         \/ worker'.stage \in {"idle", "failed"},
         worker'.stage = "tables" => rows' \cap Table \subseteq worker'.delete
  PROVE  RowsInv'
BY DEF RowsInv

LEMMA RowsInWorker ==
  ASSUME SchemaInv, RowsInv,
         \/ WriteRows \/ emptyDatabases \/ EmptySchemaless \/ ListSqlTables \/ DeleteRows
         \/ ListTables \/ TablesEmptied \/ emptyDatabasesReturns
  PROVE  RowsInv'
<1>. USE DEF Walking
<1>0. worker \in Emptying /\ WorkerIs(worker) /\ dynamoTables \subseteq Table
  BY WorkerFields DEF SchemaInv, MigrationTypeOK, Table
<1>1. CASE WriteRows
  <2>1. /\ rows' = Schemaless \cup sqlTables \cup dynamoTables
        /\ UNCHANGED <<dynamoTables, sqlTables>> /\ sqlTables \subseteq Sql
    BY <1>1 DEF WriteRows, schema, SchemaInv, MigrationTypeOK
  <2>2. worker'.stage = "idle"
    BY <1>0, <1>1 DEF WriteRows, Emptying
  <2>. QED
    BY <1>0, <2>1, <2>2, Separate, Numbers DEF RowsInv
<1>2. CASE emptyDatabases
  <2>1. worker'.stage = "walking" /\ worker'.at = 1 /\ UNCHANGED <<rows, dynamoTables, sqlTables>>
    BY <1>2 DEF emptyDatabases, NoEmptying, schema
  <2>2. \A i \in Db : i >= worker'.at /\ ~(i < worker'.at)
    BY <2>1, Numbers
  <2>. QED
    BY <2>1, <2>2, Numbers DEF RowsInv
<1>3. CASE EmptySchemaless \/ DeleteRows
  <2>1. /\ Emptied /\ rows' = rows \ {worker.at} /\ UNCHANGED <<dynamoTables, sqlTables>>
        /\ worker.stage \in {"walking", "rows"} /\ worker.at \in Schemaless \cup Sql
    BY <1>0, <1>3 DEF EmptySchemaless, DeleteRows, schema, WorkerIs
  <2>. QED
    BY <2>1, Numbers, RowsBehind
<1>4. CASE ListSqlTables
  <2>1. /\ worker.stage = "walking" /\ worker.at \in Sql
        /\ UNCHANGED <<rows, dynamoTables, sqlTables>>
    BY <1>4 DEF ListSqlTables, schema
  <2>2. CASE worker.at \in sqlTables
    <3>1. worker' = [worker EXCEPT !.stage = "rows"]
      BY <1>4, <2>2 DEF ListSqlTables
    <3>2. worker'.stage = "rows" /\ worker'.at = worker.at
      BY <1>0, <3>1 DEF Emptying
    <3>. QED
      BY <2>1, <3>2 DEF RowsInv
  <2>3. CASE worker.at \notin sqlTables
    <3>1. Emptied /\ worker.at \notin rows
      BY <1>4, <2>1, <2>3 DEF ListSqlTables, RowsInv
    <3>. QED
      BY <2>1, <3>1, Numbers, RowsBehind
  <2>. QED
    BY <2>2, <2>3
<1>5. CASE ListTables
  <2>1. /\ worker.stage = "walking" /\ UNCHANGED <<rows, dynamoTables, sqlTables>>
        /\ worker' = [worker EXCEPT !.stage = "tables", !.delete = dynamoTables]
    BY <1>5 DEF ListTables, schema
  <2>2. worker'.stage = "tables" /\ worker'.at = worker.at /\ worker'.delete = dynamoTables
    BY <1>0, <2>1 DEF Emptying
  <2>. QED
    BY <2>1, <2>2 DEF RowsInv
<1>6. CASE TablesEmptied
  <2>1. /\ worker.stage = "tables" /\ worker.at \in Describing /\ worker.delete = {}
        /\ UNCHANGED <<rows, dynamoTables, sqlTables>>
    BY <1>0, <1>6 DEF TablesEmptied, CallsInFlight, schema, WorkerIs
  <2>2. rows \cap Table = {} /\ worker.at \notin rows
    BY <2>1 DEF RowsInv
  <2>3. CASE Emptied
    BY <2>1, <2>2, <2>3, Numbers, RowsBehind
  <2>4. CASE ~Emptied
    <3>1. worker'.stage = "failed"
      BY <1>6, <2>4, FailedWorker DEF TablesEmptied
    <3>. QED
      BY <2>1, <3>1, RowsStay DEF RowsInv
  <2>. QED
    BY <2>3, <2>4
<1>7. CASE emptyDatabasesReturns
  <2>1. /\ worker.stage = "walking" /\ worker.at = N + 1
        /\ UNCHANGED <<rows, dynamoTables, sqlTables>>
        /\ worker' = [worker EXCEPT !.stage = "done"]
    BY <1>7 DEF emptyDatabasesReturns, schema
  <2>2. worker'.stage = "done" /\ worker'.at = worker.at
    BY <1>0, <2>1 DEF Emptying
  <2>. QED
    BY <2>1, <2>2 DEF RowsInv
<1>. QED
  BY <1>1, <1>2, <1>3, <1>4, <1>5, <1>6, <1>7

LEMMA RowsInTables ==
  ASSUME SchemaInv, RowsInv, NEW t \in Table,
         TableDeleted(t) \/ TableGone(t) \/ TableRecreated(t)
  PROVE  RowsInv'
<1>0. worker \in Emptying /\ sqlTables' = sqlTables
  BY WorkerFields DEF TableDeleted, TableGone, TableRecreated, schema
<1>1. CASE TableDeleted(t)
  <2>1. rows' = rows \ {t} /\ dynamoTables' = dynamoTables \ {t}
    BY <1>1 DEF TableDeleted
  <2>2. /\ worker'.stage = worker.stage /\ worker'.at = worker.at
        /\ worker'.delete = worker.delete \ {t}
    BY <1>0, <1>1 DEF TableDeleted, Emptying
  <2>. QED
    BY <1>0, <2>1, <2>2, RowsStay DEF RowsInv
<1>2. CASE TableGone(t)
  <2>1. UNCHANGED <<rows, dynamoTables>>
    BY <1>2 DEF TableGone, schema
  <2>2. worker'.stage = "failed"
    BY <1>2, FailedWorker DEF TableGone, Emptying
  <2>. QED
    BY <1>0, <2>1, <2>2, RowsStay DEF RowsInv
<1>3. CASE TableRecreated(t)
  <2>1. rows' = rows /\ dynamoTables' = dynamoTables \cup {t}
    BY <1>3 DEF TableRecreated
  <2>2. PICK v \in {EmptyingFails, worker} : worker' = [v EXCEPT !.create = v.create \ {t}]
    BY <1>3 DEF TableRecreated
  <2>3. /\ worker'.stage = v.stage /\ worker'.at = v.at /\ worker'.delete = v.delete
    BY <1>0, <2>2, FailedWorker DEF Emptying
  <2>4. CASE v = worker
    BY <1>0, <2>1, <2>3, <2>4, RowsStay DEF RowsInv
  <2>5. CASE v = EmptyingFails
    BY <1>0, <2>1, <2>3, <2>5, FailedWorker, RowsStay DEF RowsInv
  <2>. QED
    BY <2>4, <2>5
<1>. QED
  BY <1>1, <1>2, <1>3

LEMMA RowsInFaults ==
  ASSUME SchemaInv, RowsInv, EmptyingInterrupted \/ DynamoRestarts PROVE RowsInv'
<1>1. CASE DynamoRestarts
  BY <1>1, RowsStay DEF DynamoRestarts, RowsInv, Table
<1>2. CASE EmptyingInterrupted
  <2>1. /\ rows' \subseteq rows /\ rows' \cap Table \subseteq dynamoTables'
        /\ sqlTables' = sqlTables
    BY <1>2 DEF EmptyingInterrupted, RowsInv
  <2>2. worker'.stage = "failed"
    BY <1>2, FailedWorker DEF EmptyingInterrupted, Emptying
  <2>. QED
    BY <2>1, <2>2, RowsStay
<1>. QED
  BY <1>1, <1>2

\* The migrators only add tables.
LEMMA MigratorsAdd ==
  ASSUME SchemaInv, NEW m \in Migrator,
         Start(m) \/ AcquireLock(m) \/ RunStep(m) \/ RunFails(m)
  PROVE  /\ UNCHANGED <<worker, rows>>
         /\ dynamoTables \subseteq dynamoTables' /\ sqlTables \subseteq sqlTables'
<1>. USE DEF OutsideTests, schema
<1>1. CASE \/ Start(m) \/ Rerun(m) \/ connectDatabases(m) \/ SkipMigration(m)
           \/ runMigrationsReturns(m) \/ disconnectDatabases(m) \/ DescribeTables(m)
           \/ TablesSettled(m)
  BY <1>1 DEF Start, Rerun, connectDatabases, SkipMigration, runMigrationsReturns,
              disconnectDatabases, DescribeTables, TablesSettled
<1>2. CASE AcquireLock(m) \/ UpToDate(m) \/ BaseTableExists(m) \/ RecordMigration(m)
  BY <1>2 DEF AcquireLock, UpToDate, BaseTableExists, RecordMigration
<1>3. CASE CreateBaseTable(m)
  BY <1>3 DEF CreateBaseTable
<1>4. CASE \E t \in Known : TableDescribed(m, t) \/ TableCreated(m, t)
  BY <1>4 DEF TableDescribed, TableCreated
<1>5. CASE RunFails(m)
  BY <1>5 DEF RunFails, StatementLost
<1>. QED
  BY <1>1, <1>2, <1>3, <1>4, <1>5 DEF RunStep

LEMMA RowsInvPreserved == SchemaInv /\ RowsInv /\ [Next]_vars => RowsInv'
<1>. SUFFICES ASSUME SchemaInv, RowsInv, [Next]_vars PROVE RowsInv'
  OBVIOUS
<1>1. CASE UNCHANGED vars
  BY <1>1 DEF vars, schema, RowsInv
<1>2. ASSUME NEW m \in Migrator, Start(m) \/ AcquireLock(m) \/ RunStep(m) \/ RunFails(m)
      PROVE  RowsInv'
  BY <1>2, MigratorsAdd DEF RowsInv
<1>3. CASE WriteRows \/ emptyDatabases \/ EmptyingStep
  BY <1>3, RowsInWorker, RowsInTables DEF EmptyingStep, Table
<1>. QED
  BY <1>1, <1>2, <1>3, RowsInFaults DEF Next

\* Where one of the databases is dynamo, an emptying that
\* reports success has left no row of before it, whatever the migrators do.
THEOREM EmptiedIsEmpty ==
  ASSUME Describing # {}
  PROVE  Spec => []EmptiedMeansEmpty
<1>1. Init => RowsInv
  <2>1. ASSUME Init PROVE RowsInv
    <3>1. rows = dynamoTables /\ rows \subseteq Table /\ worker.stage = "idle"
      BY <2>1 DEF Init, NoEmptying, Table
    <3>. QED
      BY <3>1, Separate DEF RowsInv
  <2>. QED
    BY <2>1
<1>2. SchemaInv /\ RowsInv => EmptiedMeansEmpty
  <2>1. ASSUME SchemaInv, RowsInv, worker.stage = "done" PROVE rows = {}
    <3>1. worker.at = N + 1 /\ rows \subseteq Db \cup Table
      BY <2>1 DEF RowsInv, SchemaInv, MigrationTypeOK, Table
    <3>2. \A i \in Db : ~(i >= worker.at) /\ i < worker.at
      BY <3>1, Numbers
    <3>3. rows \cap Db = {}
      BY <2>1, <3>2 DEF RowsInv
    <3>4. rows \cap Table = {}
      BY <2>1, <3>2, Numbers DEF RowsInv
    <3>. QED
      BY <3>1, <3>3, <3>4
  <2>. QED
    BY <2>1 DEF EmptiedMeansEmpty
<1>. QED
  BY <1>1, <1>2, RowsInvPreserved, SchemaInvHolds, PTL DEF Spec

-----------------------------------------------------------------------------
(* The tables of dynamo after a migration                                   *)

Kept == dynamoTables \cup worker.create

\* As long as nothing fails, a migrator that is past dynamo has seen to it that
\* every table is there, or is about to be created again; one that is among the
\* tables has only those left that it will still describe or create.
TablesOf(q, kept) ==
  /\ q.stage = "tables" => Known \subseteq kept \cup q.describe \cup q.create
  /\ q.stage \in Underway /\ (\E i \in Describing : i < q.at) => Known \subseteq kept

TablesInv == faults = 0 => \A m \in Migrator : TablesOf(run[m], Kept)

LEMMA MigratorMoves ==
  ASSUME SchemaInv, TablesInv, faults = 0, NEW m \in Migrator,
         Start(m) \/ AcquireLock(m) \/ RunStep(m) \/ RunFails(m),
         NEW q, run' = [run EXCEPT ![m] = q], TablesOf(q, Kept')
  PROVE  TablesInv'
<1>1. run'[m] = q /\ \A p \in Migrator : p # m => run'[p] = run[p]
  BY DEF SchemaInv, MigrationTypeOK
<1>2. Kept \subseteq Kept'
  BY MigratorsAdd DEF Kept
<1>. QED
  BY <1>1, <1>2 DEF TablesInv, TablesOf

\* A migrator goes on to the next database.
LEMMA NextTables ==
  ASSUME SchemaInv, TablesInv, faults = 0, NEW m \in Migrator,
         Start(m) \/ AcquireLock(m) \/ RunStep(m) \/ RunFails(m), Advanced(m),
         run[m].stage \in Underway, run[m].at \in Db,
         run[m].at \in Describing => Known \subseteq Kept'
  PROVE  TablesInv'
<1>. DEFINE q == [NewRun EXCEPT !.stage = "walking", !.at = run[m].at + 1]
<1>1. q.stage = "walking" /\ q.at = run[m].at + 1
  BY Numbers, NewRunIs
<1>2. run' = [run EXCEPT ![m] = q]
  BY DEF Advanced
<1>3. Kept \subseteq Kept' /\ TablesOf(run[m], Kept)
  BY MigratorsAdd DEF Kept, TablesInv
<1>4. \A i \in Describing : i < run[m].at + 1 => i < run[m].at \/ i = run[m].at
  BY Numbers
<1>. HIDE DEF q
<1>5. TablesOf(q, Kept')
  BY <1>1, <1>3, <1>4 DEF TablesOf
<1>. QED
  BY <1>2, <1>5, MigratorMoves

LEMMA TablesInMigrator ==
  ASSUME SchemaInv, TablesInv, faults = 0, faults' = 0, NEW m \in Migrator,
         Start(m) \/ AcquireLock(m) \/ RunStep(m) \/ RunFails(m)
  PROVE  TablesInv'
<1>. USE DEF In, At
<1>0. /\ run[m] \in Run /\ run \in [Migrator -> Run] /\ Kept \subseteq Kept'
      /\ TablesOf(run[m], Kept) /\ RunIs(m, run[m], lock, recorded)
  BY RunFields, MigratorsAdd DEF SchemaInv, MigrationTypeOK, Kept, TablesInv
<1>1. CASE Start(m) \/ Rerun(m)
  <2>. DEFINE q == [NewRun EXCEPT !.stage = "connecting"]
  <2>1. q.stage = "connecting"
    BY DEF NewRun
  <2>2. run' = [run EXCEPT ![m] = q]
    BY <1>1 DEF Start, Rerun
  <2>. HIDE DEF q
  <2>3. TablesOf(q, Kept')
    BY <2>1 DEF TablesOf, Underway
  <2>. QED
    BY <2>2, <2>3, MigratorMoves
<1>2. CASE connectDatabases(m)
  <2>. DEFINE q == [run[m] EXCEPT !.stage = "walking"]
  <2>1. q.stage = "walking" /\ q.at = 1
    BY <1>0, <1>2, StagedRun DEF connectDatabases, RunIs
  <2>2. run' = [run EXCEPT ![m] = q]
    BY <1>0, <1>2 DEF connectDatabases, Moved
  <2>. HIDE DEF q
  <2>3. TablesOf(q, Kept')
    BY <2>1, Numbers DEF TablesOf
  <2>. QED
    BY <2>2, <2>3, MigratorMoves
<1>3. CASE \/ runMigrationsReturns(m) \/ disconnectDatabases(m)
           \/ AcquireLock(m) \/ CreateBaseTable(m)
  <2>1. PICK stage \in {"disconnecting", "succeeded", "locked", "created"} : Moved(m, stage)
    BY <1>3 DEF runMigrationsReturns, disconnectDatabases, AcquireLock, CreateBaseTable
  <2>2. run[m].stage \in Underway
    BY <1>3 DEF runMigrationsReturns, disconnectDatabases, AcquireLock, CreateBaseTable, Underway
  <2>. DEFINE q == [run[m] EXCEPT !.stage = stage]
  <2>3. q.stage = stage /\ q.at = run[m].at
    BY StagedRun
  <2>4. run' = [run EXCEPT ![m] = q]
    BY <1>0, <2>1 DEF Moved
  <2>. HIDE DEF q
  <2>5. TablesOf(q, Kept')
    BY <1>0, <2>2, <2>3 DEF TablesOf
  <2>. QED
    BY <2>4, <2>5, MigratorMoves
<1>4. CASE SkipMigration(m) \/ UpToDate(m) \/ RecordMigration(m)
  <2>1. /\ Advanced(m) /\ run[m].stage \in Underway /\ run[m].at \in Db
        /\ run[m].at \notin Describing
    BY <1>0, <1>4, Numbers DEF SkipMigration, UpToDate, RecordMigration, Underway, RunIs
  <2>. QED
    BY <2>1, NextTables
<1>5. CASE TablesSettled(m) \/ BaseTableExists(m)
  <2>1. CASE Failed(m)
    <3>. DEFINE q == [NewRun EXCEPT !.stage = "failed", !.at = run[m].at]
    <3>1. q.stage = "failed"
      BY RunFields, NewRunIs
    <3>2. run' = [run EXCEPT ![m] = q]
      BY <2>1 DEF Failed
    <3>. HIDE DEF q
    <3>3. TablesOf(q, Kept')
      BY <3>1 DEF TablesOf, Underway
    <3>. QED
      BY <3>2, <3>3, MigratorMoves
  <2>2. CASE ~Failed(m)
    <3>1. /\ Advanced(m) /\ run[m].stage = "tables"
          /\ run[m].describe = {} /\ run[m].create = {}
      BY <1>5, <2>2 DEF TablesSettled, BaseTableExists
    <3>2. Known \subseteq Kept' /\ run[m].at \in Db /\ run[m].stage \in Underway
      BY <1>0, <3>1, Numbers DEF TablesOf, RunIs, Underway
    <3>. QED
      BY <3>1, <3>2, NextTables
  <2>. QED
    BY <2>1, <2>2
<1>6. CASE DescribeTables(m)
  <2>. DEFINE q == [run[m] EXCEPT !.stage = "tables", !.describe = Known]
  <2>1. run' = [run EXCEPT ![m] = q] /\ run[m].stage \in Underway
    BY <1>6 DEF DescribeTables, Underway
  <2>2. q.stage = "tables" /\ q.at = run[m].at /\ q.describe = Known
    BY <1>0 DEF Run
  <2>. HIDE DEF q
  <2>3. TablesOf(q, Kept')
    BY <1>0, <2>1, <2>2 DEF TablesOf
  <2>. QED
    BY <2>1, <2>3, MigratorMoves
<1>7. ASSUME NEW t \in Known, TableDescribed(m, t) PROVE TablesInv'
  <2>. DEFINE q == [run[m] EXCEPT !.describe = run[m].describe \ {t},
                                  !.create = run[m].create \cup ({t} \ dynamoTables)]
  <2>1. run' = [run EXCEPT ![m] = q] /\ run[m].stage = "tables" /\ dynamoTables \subseteq Kept
    BY <1>7 DEF TableDescribed, Kept
  <2>2. /\ q.stage = "tables" /\ q.at = run[m].at
        /\ q.describe = run[m].describe \ {t}
        /\ q.create = run[m].create \cup ({t} \ dynamoTables)
    BY <1>0, <2>1 DEF Run
  <2>. HIDE DEF q
  <2>3. TablesOf(q, Kept')
    BY <1>0, <2>1, <2>2 DEF TablesOf
  <2>. QED
    BY <1>7, <2>1, <2>3, MigratorMoves DEF RunStep
<1>8. ASSUME NEW t \in Known, TableCreated(m, t) PROVE TablesInv'
  <2>. DEFINE refused == run[m].refused \/ t \in dynamoTables
              q == [run[m] EXCEPT !.create = run[m].create \ {t}, !.refused = refused]
  <2>1. /\ run' = [run EXCEPT ![m] = q] /\ run[m].stage = "tables" /\ t \in Kept'
    BY <1>8 DEF TableCreated, Kept
  <2>. HIDE DEF refused
  <2>2. /\ q.stage = "tables" /\ q.at = run[m].at /\ q.describe = run[m].describe
        /\ q.create = run[m].create \ {t}
    BY <1>0, <2>1 DEF Run
  <2>. HIDE DEF q
  <2>3. TablesOf(q, Kept')
    BY <1>0, <2>1, <2>2 DEF TablesOf
  <2>. QED
    BY <1>8, <2>1, <2>3, MigratorMoves DEF RunStep
<1>9. ~RunFails(m)
  BY DEF RunFails
<1>. QED
  BY <1>1, <1>2, <1>3, <1>4, <1>5, <1>6, <1>7, <1>8, <1>9 DEF RunStep

\* What the worker deletes it creates again.
LEMMA WorkerKeepsTables ==
  ASSUME SchemaInv, faults = 0, faults' = 0,
         WriteRows \/ emptyDatabases \/ EmptyingStep \/ EmptyingInterrupted \/ DynamoRestarts
  PROVE  Known \cap Kept \subseteq Kept'
<1>. USE DEF Kept
<1>0. worker \in Emptying /\ worker.create \subseteq Known
  BY WorkerFields
<1>1. CASE WriteRows
  <2>1. worker'.create = worker.create
    BY <1>0, <1>1 DEF WriteRows, Emptying
  <2>. QED
    BY <1>1, <2>1 DEF WriteRows, schema
<1>2. CASE emptyDatabases
  BY <1>2 DEF emptyDatabases, BetweenCalls, CallsInFlight, schema
<1>3. CASE EmptySchemaless \/ ListSqlTables \/ DeleteRows
  <2>1. dynamoTables' = dynamoTables
    BY <1>3 DEF EmptySchemaless, ListSqlTables, DeleteRows, schema
  <2>2. worker'.create = worker.create
    BY <1>0, <1>3 DEF EmptySchemaless, ListSqlTables, DeleteRows, Emptied, Emptying
  <2>. QED
    BY <2>1, <2>2
<1>4. CASE ListTables \/ TablesEmptied \/ emptyDatabasesReturns
  <2>1. dynamoTables' = dynamoTables
    BY <1>4 DEF ListTables, TablesEmptied, emptyDatabasesReturns, schema
  <2>2. worker'.create = worker.create
    <3>1. CASE ListTables \/ emptyDatabasesReturns
      BY <1>0, <3>1 DEF ListTables, emptyDatabasesReturns, Emptying
    <3>2. CASE Emptied
      BY <1>0, <3>2 DEF Emptied, Emptying
    <3>3. CASE TablesEmptied /\ ~Emptied
      BY <3>3, FailedWorker DEF TablesEmptied
    <3>. QED
      BY <1>4, <3>1, <3>2, <3>3
  <2>. QED
    BY <2>1, <2>2
<1>5. ASSUME NEW t \in Table, TableDeleted(t) PROVE Known \cap Kept \subseteq Kept'
  <2>1. dynamoTables' = dynamoTables \ {t}
    BY <1>5 DEF TableDeleted
  <2>2. worker'.create = worker.create \cup ({t} \cap Known)
    BY <1>0, <1>5 DEF TableDeleted, Emptying
  <2>. QED
    BY <2>1, <2>2
<1>6. ASSUME NEW t \in Table, TableGone(t) PROVE Known \cap Kept \subseteq Kept'
  <2>1. dynamoTables' = dynamoTables
    BY <1>6 DEF TableGone, schema
  <2>2. worker'.create = worker.create
    BY <1>6, FailedWorker DEF TableGone, Emptying
  <2>. QED
    BY <2>1, <2>2
<1>7. ASSUME NEW t \in Table, TableRecreated(t) PROVE Known \cap Kept \subseteq Kept'
  <2>1. dynamoTables' = dynamoTables \cup {t}
    BY <1>7 DEF TableRecreated
  <2>2. PICK v \in {EmptyingFails, worker} : worker' = [v EXCEPT !.create = v.create \ {t}]
    BY <1>7 DEF TableRecreated
  <2>3. worker'.create = worker.create \ {t}
    BY <1>0, <2>2, FailedWorker DEF Emptying
  <2>. QED
    BY <2>1, <2>3
<1>8. ~EmptyingInterrupted /\ ~DynamoRestarts
  BY DEF EmptyingInterrupted, DynamoRestarts
<1>. QED
  BY <1>1, <1>2, <1>3, <1>4, <1>5, <1>6, <1>7, <1>8 DEF EmptyingStep, Table

LEMMA TablesInvPreserved == SchemaInv /\ TablesInv /\ [Next]_vars => TablesInv'
<1>. SUFFICES ASSUME SchemaInv, TablesInv, [Next]_vars, faults' = 0 PROVE TablesInv'
  BY DEF TablesInv
<1>1. faults = 0
  BY FaultsRemain
<1>2. CASE UNCHANGED vars
  BY <1>2 DEF vars, schema, TablesInv, Kept
<1>3. CASE WriteRows \/ emptyDatabases \/ EmptyingStep \/ EmptyingInterrupted \/ DynamoRestarts
  <2>1. Known \cap Kept \subseteq Kept' /\ run' = run
    BY <1>1, <1>3, WorkerKeepsTables, WorkerLeavesRuns
  <2>. QED
    BY <1>1, <2>1 DEF TablesInv, TablesOf
<1>. QED
  BY <1>1, <1>2, <1>3, TablesInMigrator DEF Next

\* Emptying deletes the tables that the migrations own, and without a fault it
\* gives back every one of them, also while migrations run.
THEOREM EmptyingKeepsTables == Spec => []TablesSurviveEmptying
<1>1. Init => TablesInv
  <2>1. ASSUME Init, NEW m \in Migrator PROVE run[m].stage = "idle"
    BY <2>1 DEF Init, NewRun
  <2>. QED
    BY <2>1 DEF TablesInv, TablesOf, Underway
<1>2. SchemaInv /\ TablesInv => TablesSurviveEmptying
  <2>1. ASSUME SchemaInv, TablesInv, faults = 0, Describing # {}, Finished # {}, ~CallsInFlight
        PROVE  Known \subseteq dynamoTables
    <3>1. PICK m \in Migrator : run[m].stage = "succeeded"
      BY <2>1 DEF Finished
    <3>2. run[m].at = N + 1 /\ \A i \in Describing : i < run[m].at
      BY <2>1, <3>1, RunFields, Numbers DEF RunIs
    <3>3. Known \subseteq Kept
      BY <2>1, <3>1, <3>2 DEF TablesInv, TablesOf, Underway
    <3>. QED
      BY <2>1, <3>3 DEF Kept, CallsInFlight
  <2>. QED
    BY <2>1 DEF TablesSurviveEmptying
<1>. QED
  BY <1>1, <1>2, TablesInvPreserved, SchemaInvHolds, PTL DEF Spec

-----------------------------------------------------------------------------
(* Half a migration                                                         *)

HalvesStay == \A i \in Sql : HalfMigrated(i) => HalfMigrated(i)'

\* A step of one migrator that does not enter the migration of a half migrated
\* database.
LEMMA HalvesPassedBy ==
  ASSUME NEW m \in Migrator, \A p \in Migrator \ {m} : run'[p] = run[p],
         sqlTables \subseteq sqlTables',
         recorded' = recorded \/ (In(m, "created") /\ recorded' = recorded \cup {run[m].at}),
         run'[m].stage = "created" => run'[m].at \notin sqlTables
  PROVE  HalvesStay
BY DEF HalvesStay, HalfMigrated, In

LEMMA HalvesInMigrator ==
  ASSUME SchemaInv, NEW m \in Migrator, Start(m) \/ AcquireLock(m) \/ RunStep(m) \/ RunFails(m)
  PROVE  HalvesStay
<1>1. run[m] \in Run /\ run \in [Migrator -> Run]
  BY RunFields DEF SchemaInv, MigrationTypeOK
<1>2. \A p \in Migrator \ {m} : run'[p] = run[p]
  <2>1. CASE \/ Start(m) \/ Rerun(m) \/ connectDatabases(m) \/ runMigrationsReturns(m)
             \/ disconnectDatabases(m) \/ AcquireLock(m) \/ CreateBaseTable(m)
    BY <1>1, <2>1 DEF Start, Rerun, connectDatabases, runMigrationsReturns,
                      disconnectDatabases, AcquireLock, CreateBaseTable, Moved
  <2>2. CASE Advanced(m) \/ Failed(m)
    BY <1>1, <2>2 DEF Advanced, Failed
  <2>3. CASE DescribeTables(m) \/ \E t \in Known : TableDescribed(m, t) \/ TableCreated(m, t)
    BY <1>1, <2>3 DEF DescribeTables, TableDescribed, TableCreated
  <2>. QED
    BY <2>1, <2>2, <2>3 DEF RunStep, SkipMigration, UpToDate, TablesSettled,
                            BaseTableExists, RecordMigration, RunFails
<1>3. CASE \/ Start(m) \/ Rerun(m) \/ connectDatabases(m) \/ runMigrationsReturns(m)
           \/ disconnectDatabases(m) \/ AcquireLock(m)
  <2>1. run'[m].stage # "created"
    BY <1>1, <1>3 DEF Start, Rerun, connectDatabases, runMigrationsReturns,
                      disconnectDatabases, AcquireLock, Moved, NewRun, Run
  <2>2. UNCHANGED <<sqlTables, recorded>>
    BY <1>3 DEF Start, Rerun, connectDatabases, runMigrationsReturns, disconnectDatabases,
                AcquireLock, schema
  <2>. QED
    BY <1>2, <2>1, <2>2, HalvesPassedBy
<1>4. CASE \/ SkipMigration(m) \/ UpToDate(m) \/ TablesSettled(m) \/ BaseTableExists(m)
           \/ RecordMigration(m) \/ RunFails(m)
  <2>1. Advanced(m) \/ Failed(m)
    BY <1>4 DEF SkipMigration, UpToDate, TablesSettled, BaseTableExists, RecordMigration, RunFails
  <2>2. run'[m].stage # "created"
    BY <1>1, <2>1 DEF Advanced, Failed, NewRun
  <2>3. /\ sqlTables \subseteq sqlTables'
        /\ recorded' = recorded \/ (In(m, "created") /\ recorded' = recorded \cup {run[m].at})
    BY <1>4 DEF SkipMigration, UpToDate, TablesSettled, BaseTableExists, RecordMigration,
                RunFails, StatementLost, schema
  <2>. QED
    BY <1>2, <2>2, <2>3, HalvesPassedBy
<1>5. CASE DescribeTables(m) \/ \E t \in Known : TableDescribed(m, t) \/ TableCreated(m, t)
  <2>1. run'[m].stage = "tables"
    <3>1. CASE DescribeTables(m)
      BY <1>1, <3>1 DEF DescribeTables, Run
    <3>2. ASSUME NEW t \in Known, TableDescribed(m, t) PROVE run'[m].stage = "tables"
      BY <1>1, <3>2 DEF TableDescribed, In, Run
    <3>3. ASSUME NEW t \in Known, TableCreated(m, t) PROVE run'[m].stage = "tables"
      BY <1>1, <3>3 DEF TableCreated, In, Run
    <3>. QED
      BY <1>5, <3>1, <3>2, <3>3
  <2>2. UNCHANGED <<sqlTables, recorded>>
    BY <1>5 DEF DescribeTables, TableDescribed, TableCreated, schema
  <2>. QED
    BY <1>2, <2>1, <2>2, HalvesPassedBy
<1>6. CASE CreateBaseTable(m)
  <2>1. run'[m].at = run[m].at /\ run[m].at \notin sqlTables
    BY <1>1, <1>6 DEF CreateBaseTable, Moved, Run
  <2>2. sqlTables \subseteq sqlTables' /\ recorded' = recorded
    BY <1>6 DEF CreateBaseTable
  <2>. QED
    BY <1>2, <2>1, <2>2, HalvesPassedBy
<1>. QED
  BY <1>3, <1>4, <1>5, <1>6 DEF RunStep

\* A mysql whose migration died between its two statements stays half migrated,
\* whatever is run again, fails, or empties the databases meanwhile.
THEOREM HalvesAreForGood == Spec => HalfMigratedForGood
<1>1. SchemaInv /\ [Next]_vars => [HalvesStay]_vars
  <2>. SUFFICES ASSUME SchemaInv, Next PROVE HalvesStay
    OBVIOUS
  <2>1. CASE UNCHANGED <<run, sqlTables, recorded>>
    BY <2>1 DEF HalvesStay, HalfMigrated, In
  <2>. QED
    BY <2>1, HalvesInMigrator, WorkerLeavesRuns DEF Next
<1>. QED
  BY <1>1, SchemaInvHolds, PTL DEF Spec, HalfMigratedForGood, HalvesStay
=============================================================================
