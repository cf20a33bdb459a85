--------------------------- MODULE SchemaMigration ---------------------------
(***************************************************************************)
(* What migrations and emptying do to the schema: migrate.ts, run by       *)
(* several processes at once and run again after a failure, over the       *)
(* migrateToLatest of each driver and the migrations of kysely, and the    *)
(* emptyDatabases of the tests, whose DynamoDB part deletes and creates    *)
(* the tables that the migrations own.                                     *)
(*                                                                         *)
(* An engine is what the application needs to know of a database:          *)
(*   "schemaless"   redis and mongo: no migrateToLatest, rows only;        *)
(*   "describing"   dynamo: describes each table and creates missing ones; *)
(*   "statements"   mysql: a kysely migration, each statement permanent;   *)
(*   "transaction"  postgres: a kysely migration, permanent at its commit. *)
(***************************************************************************)
EXTENDS Naturals, Sequences

CONSTANTS
  Engines,      \* the engines of databaseSet in key order
  Migrator,     \* processes that run migrate.ts
  Known,        \* allDynamoTables
  Stray,        \* other tables that the DynamoDB server may hold
  Nobody,       \* a migration lock that is free
  MaxFaults,    \* bound: calls that fail, processes that are killed
  MaxEmptyings  \* bound: calls of emptyDatabases

Engine == {"schemaless", "describing", "statements", "transaction"}

ASSUME EnginesAssumption == Engines \in Seq(Engine)
ASSUME TablesAssumption ==
  Known \cap Stray = {} /\ (Known \cup Stray) \cap Nat = {}
ASSUME NobodyAssumption == Nobody \notin Migrator
ASSUME BoundsAssumption == MaxFaults \in Nat /\ MaxEmptyings \in Nat

N == Len(Engines)
Db == 1..N
Schemaless == {i \in Db : Engines[i] = "schemaless"}
Describing == {i \in Db : Engines[i] = "describing"}
Sql == {i \in Db : Engines[i] \in {"statements", "transaction"}}

VARIABLES
  run,          \* run[m]: the migrate.ts of process m
  worker,       \* the emptyDatabases of the tests
  dynamoTables, \* tables of the DynamoDB server
  sqlTables,    \* SQL databases that hold baseTable
  recorded,     \* SQL databases whose kysely_migration names the migration
  lock,         \* lock[i]: holder of kysely's migration lock of database i
  rows,         \* databases and DynamoDB tables that hold rows
  faults        \* calls that failed and processes killed so far

schema == <<dynamoTables, sqlTables, recorded, lock>>
vars == <<run, worker, schema, rows, faults>>

(***************************************************************************)
(* A run connects, walks the databases with runMigrations, disconnects and *)
(* exits.  "tables": Promise.all over allDynamoTables, describe the tables *)
(* of its DescribeTable calls in flight, create those of its CreateTable   *)
(* calls; "locked", "created": inside kysely's migrator, before and after  *)
(* createTable('baseTable').                                               *)
(***************************************************************************)
Run == [stage : {"idle", "connecting", "walking", "tables", "locked", "created",
                 "disconnecting", "succeeded", "failed"},
        at : 1..(N + 1), describe : SUBSET Known, create : SUBSET Known,
        refused : BOOLEAN]

NewRun == [stage |-> "idle", at |-> 1, describe |-> {}, create |-> {},
           refused |-> FALSE]

\* "rows": awaits the deletes of an SQL database; "tables": Promise.all over the
\* listed DynamoDB tables, delete and create those of its calls in flight.
Emptying == [stage : {"idle", "walking", "rows", "tables", "done", "failed"},
             at : 1..(N + 1), delete : SUBSET (Known \cup Stray),
             create : SUBSET Known, refused : BOOLEAN, calls : 0..MaxEmptyings]

NoEmptying == [stage |-> "idle", at |-> 1, delete |-> {}, create |-> {},
               refused |-> FALSE, calls |-> 0]

MigrationTypeOK ==
  /\ run \in [Migrator -> Run]
  /\ worker \in Emptying
  /\ dynamoTables \subseteq Known \cup Stray
  /\ sqlTables \subseteq Sql /\ recorded \subseteq Sql
  /\ lock \in [Sql -> Migrator \cup {Nobody}]
  /\ rows \subseteq Db \cup Known \cup Stray
  /\ faults \in 0..MaxFaults

\* A server that has never been migrated, or holds tables of another program.
Init ==
  /\ run = [m \in Migrator |-> NewRun]
  /\ worker = NoEmptying
  /\ dynamoTables \in {{}, Stray}
  /\ sqlTables = {} /\ recorded = {}
  /\ lock = [i \in Sql |-> Nobody]
  /\ rows = dynamoTables
  /\ faults = 0

-----------------------------------------------------------------------------
(* How a step leaves a run, and the locks                                   *)

In(m, stage) == run[m].stage = stage
At(m, kind) == In(m, "walking") /\ run[m].at \in kind

Moved(m, stage) == run' = [run EXCEPT ![m].stage = stage]
Advanced(m) ==
  run' = [run EXCEPT ![m] = [NewRun EXCEPT !.stage = "walking", !.at = run[m].at + 1]]
Failed(m) == run' = [run EXCEPT ![m] = [NewRun EXCEPT !.stage = "failed", !.at = run[m].at]]

\* Every lock of m is given back: by the migrator, or with m's connection.
Released(m) == lock' = [i \in Sql |-> IF lock[i] = m THEN Nobody ELSE lock[i]]

OutsideTests == UNCHANGED <<worker, rows, faults>>

-----------------------------------------------------------------------------
(* migrate.ts and runMigrations                                             *)

Start(m) ==
  /\ In(m, "idle") \/ In(m, "succeeded")
  /\ run' = [run EXCEPT ![m] = [NewRun EXCEPT !.stage = "connecting"]]
  /\ UNCHANGED schema /\ OutsideTests

\* A failed run ends the process; somebody starts it again.
Rerun(m) ==
  /\ In(m, "failed")
  /\ run' = [run EXCEPT ![m] = [NewRun EXCEPT !.stage = "connecting"]]
  /\ UNCHANGED schema /\ OutsideTests

connectDatabases(m) ==
  In(m, "connecting") /\ Moved(m, "walking") /\ UNCHANGED schema /\ OutsideTests

\* No migrateToLatest: runMigrations goes on with the next database.
SkipMigration(m) ==
  At(m, Schemaless) /\ Advanced(m) /\ UNCHANGED schema /\ OutsideTests

runMigrationsReturns(m) ==
  /\ In(m, "walking") /\ run[m].at = N + 1
  /\ Moved(m, "disconnecting")
  /\ UNCHANGED schema /\ OutsideTests

\* disconnectDatabases succeeded: process.exit(0).
disconnectDatabases(m) ==
  In(m, "disconnecting") /\ Moved(m, "succeeded") /\ UNCHANGED schema /\ OutsideTests

-----------------------------------------------------------------------------
(* migrateToLatest of dynamo                                                *)

DescribeTables(m) ==
  /\ At(m, Describing)
  /\ run' = [run EXCEPT ![m] = [@ EXCEPT !.stage = "tables", !.describe = Known]]
  /\ UNCHANGED schema /\ OutsideTests

\* Mutant: a table that answers is created as well.
TableDescribedMissing(m, t) ==
  /\ In(m, "tables") /\ t \in run[m].describe
  /\ run' = [run EXCEPT ![m] =
       [@ EXCEPT !.describe = run[m].describe \ {t}, !.create = run[m].create \cup {t}]]
  /\ UNCHANGED schema /\ OutsideTests

\* ResourceNotFoundException: the table is missing now, and will be created.
TableDescribed(m, t) ==
  /\ In(m, "tables") /\ t \in run[m].describe
  /\ run' = [run EXCEPT ![m] =
       [@ EXCEPT !.describe = run[m].describe \ {t},
                 !.create = run[m].create \cup ({t} \ dynamoTables)]]
  /\ UNCHANGED schema /\ OutsideTests

\* CreateTable is refused when somebody has created the table meanwhile.
TableCreated(m, t) ==
  /\ In(m, "tables") /\ t \in run[m].create
  /\ run' = [run EXCEPT ![m] =
       [@ EXCEPT !.create = run[m].create \ {t},
                 !.refused = run[m].refused \/ t \in dynamoTables]]
  /\ dynamoTables' = dynamoTables \cup {t}
  /\ UNCHANGED <<sqlTables, recorded, lock>> /\ OutsideTests

\* One refused table fails the migration, after the others have settled.
TablesSettled(m) ==
  /\ In(m, "tables") /\ run[m].describe = {} /\ run[m].create = {}
  /\ IF run[m].refused THEN Failed(m) ELSE Advanced(m)
  /\ UNCHANGED schema /\ OutsideTests

-----------------------------------------------------------------------------
(* migrateToLatest of mysql and postgres: kysely's migrator                 *)

\* Mutant: the migrator does not wait for the lock of another one.
MigrateUnlocked(m) ==
  /\ At(m, Sql)
  /\ lock' = [lock EXCEPT ![run[m].at] = m]
  /\ Moved(m, "locked")
  /\ UNCHANGED <<dynamoTables, sqlTables, recorded>> /\ OutsideTests

AcquireLock(m) ==
  /\ At(m, Sql) /\ lock[run[m].at] = Nobody
  /\ lock' = [lock EXCEPT ![run[m].at] = m]
  /\ Moved(m, "locked")
  /\ UNCHANGED <<dynamoTables, sqlTables, recorded>> /\ OutsideTests

UpToDate(m) ==
  /\ In(m, "locked") /\ run[m].at \in recorded
  /\ Released(m) /\ Advanced(m)
  /\ UNCHANGED <<dynamoTables, sqlTables, recorded>> /\ OutsideTests

\* createTable('baseTable') of 0-initial.ts, seen by others at once in mysql
\* and only after the commit in postgres.
CreateBaseTable(m) ==
  /\ In(m, "locked") /\ run[m].at \notin recorded \cup sqlTables
  /\ sqlTables' = IF Engines[run[m].at] = "statements"
                    THEN sqlTables \cup {run[m].at} ELSE sqlTables
  /\ Moved(m, "created")
  /\ UNCHANGED <<dynamoTables, recorded, lock>> /\ OutsideTests

\* Mutant: migrateToLatest does not look at the error of the migrator.
BaseTableExistsUnnoticed(m) ==
  /\ In(m, "locked") /\ run[m].at \in sqlTables \ recorded
  /\ Released(m) /\ Advanced(m)
  /\ UNCHANGED <<dynamoTables, sqlTables, recorded>> /\ OutsideTests

\* Mutant: a table that exists is taken for a migration that is done.
BaseTableExistsRecorded(m) ==
  /\ In(m, "locked") /\ run[m].at \in sqlTables \ recorded
  /\ recorded' = recorded \cup {run[m].at}
  /\ Released(m) /\ Advanced(m)
  /\ UNCHANGED <<dynamoTables, sqlTables>> /\ OutsideTests

\* The table is there and the migration is not recorded: without ifNotExists
\* the statement is refused, now and on every later run.
BaseTableExists(m) ==
  /\ In(m, "locked") /\ run[m].at \in sqlTables \ recorded
  /\ Released(m) /\ Failed(m)
  /\ UNCHANGED <<dynamoTables, sqlTables, recorded>> /\ OutsideTests

\* The migration is entered in kysely_migration; postgres commits both.
RecordMigration(m) ==
  /\ In(m, "created")
  /\ sqlTables' = sqlTables \cup {run[m].at}
  /\ recorded' = recorded \cup {run[m].at}
  /\ Released(m) /\ Advanced(m)
  /\ UNCHANGED dynamoTables /\ OutsideTests

-----------------------------------------------------------------------------
(* Faults of a run.  runMigration returns before disconnectDatabases, and   *)
(* the exception it is turned into ends the process: its connections close  *)
(* and give back what they hold, as when the process is killed.             *)

\* What the statement in flight may have done although nobody saw its answer.
StatementLost(m) ==
  \/ UNCHANGED <<sqlTables, recorded>>
  \/ /\ In(m, "locked") /\ run[m].at \notin recorded
     /\ Engines[run[m].at] = "statements"
     /\ sqlTables' = sqlTables \cup {run[m].at} /\ UNCHANGED recorded
  \/ /\ In(m, "created")
     /\ sqlTables' = sqlTables \cup {run[m].at}
     /\ recorded' = recorded \cup {run[m].at}

\* A call fails or the process is killed, wherever the run is.
RunFails(m) ==
  /\ faults < MaxFaults /\ ~In(m, "idle") /\ ~In(m, "succeeded") /\ ~In(m, "failed")
  /\ faults' = faults + 1
  /\ StatementLost(m)
  /\ \E created \in SUBSET run[m].create : dynamoTables' = dynamoTables \cup created
  /\ Released(m) /\ Failed(m)
  /\ UNCHANGED <<worker, rows>>

\* The DynamoDB server is restarted; it runs with -inMemory.
DynamoRestarts ==
  /\ faults < MaxFaults /\ Describing # {}
  /\ faults' = faults + 1
  /\ dynamoTables' = {} /\ rows' = rows \ (Known \cup Stray)
  /\ UNCHANGED <<run, worker, sqlTables, recorded, lock>>

-----------------------------------------------------------------------------
(* emptyDatabases of a test, which has EMPTYING_DATABASE_ALLOWED and is     *)
(* connected (what it does otherwise is in module DbManager)                *)

Emptied == worker' = [worker EXCEPT !.stage = "walking", !.at = @ + 1, !.delete = {}]
EmptyingFails == [worker EXCEPT !.stage = "failed"]
Walking(kind) == worker.stage = "walking" /\ worker.at \in kind

\* Calls that a rejected Promise.all left in flight.
CallsInFlight == worker.delete \cup worker.create # {}

BetweenCalls == worker.stage \in {"idle", "done", "failed"} /\ ~CallsInFlight

\* A test fills whatever there is to fill.
WriteRows ==
  /\ BetweenCalls
  /\ rows' = Schemaless \cup sqlTables \cup dynamoTables
  /\ worker' = [worker EXCEPT !.stage = "idle", !.at = 1]
  /\ UNCHANGED <<run, schema, faults>>

emptyDatabases ==
  /\ BetweenCalls /\ worker.calls < MaxEmptyings
  /\ worker' = [NoEmptying EXCEPT !.stage = "walking", !.calls = worker.calls + 1]
  /\ UNCHANGED <<run, schema, rows, faults>>

\* flushdb, or deleteMany of the one collection.
EmptySchemaless ==
  /\ Walking(Schemaless)
  /\ rows' = rows \ {worker.at}
  /\ Emptied
  /\ UNCHANGED <<run, schema, faults>>

\* The table names are read first, what they name is emptied after an await.
ListSqlTables ==
  /\ Walking(Sql)
  /\ IF worker.at \in sqlTables THEN worker' = [worker EXCEPT !.stage = "rows"] ELSE Emptied
  /\ UNCHANGED <<run, schema, rows, faults>>

DeleteRows ==
  /\ worker.stage = "rows"
  /\ rows' = rows \ {worker.at}
  /\ Emptied
  /\ UNCHANGED <<run, schema, faults>>

ListTables ==
  /\ Walking(Describing)
  /\ worker' = [worker EXCEPT !.stage = "tables", !.delete = dynamoTables]
  /\ UNCHANGED <<run, schema, rows, faults>>

\* A table of the list is deleted; one that is not of allDynamoTables stays
\* deleted and fails the call in the end.
TableDeleted(t) ==
  /\ t \in worker.delete \cap dynamoTables
  /\ dynamoTables' = dynamoTables \ {t} /\ rows' = rows \ {t}
  /\ worker' = [worker EXCEPT !.delete = @ \ {t},
                              !.create = @ \cup ({t} \cap Known),
                              !.refused = @ \/ t \in Stray]
  /\ UNCHANGED <<run, sqlTables, recorded, lock, faults>>

\* Somebody else deleted it: the rejection ends emptyDatabases at once.
TableGone(t) ==
  /\ t \in worker.delete \ dynamoTables
  /\ worker' = [EmptyingFails EXCEPT !.delete = @ \ {t}]
  /\ UNCHANGED <<run, schema, rows, faults>>

\* Mutant: the table is deleted and never created again.
TableStaysDeleted(t) ==
  /\ t \in worker.create
  /\ worker' = [worker EXCEPT !.create = @ \ {t}]
  /\ UNCHANGED <<run, schema, rows, faults>>

\* The table is created again; a migrator may have come first.
TableRecreated(t) ==
  /\ t \in worker.create
  /\ dynamoTables' = dynamoTables \cup {t}
  /\ worker' = [(IF t \in dynamoTables THEN EmptyingFails ELSE worker)
                  EXCEPT !.create = @ \ {t}]
  /\ UNCHANGED <<run, sqlTables, recorded, lock, rows, faults>>

\* Mutant: nobody awaits the calls for the tables.
TablesNotAwaited ==
  /\ worker.stage = "tables" /\ Emptied
  /\ UNCHANGED <<run, schema, rows, faults>>

TablesEmptied ==
  /\ worker.stage = "tables" /\ ~CallsInFlight
  /\ IF worker.refused THEN worker' = EmptyingFails ELSE Emptied
  /\ UNCHANGED <<run, schema, rows, faults>>

emptyDatabasesReturns ==
  /\ worker.stage = "walking" /\ worker.at = N + 1
  /\ worker' = [worker EXCEPT !.stage = "done"]
  /\ UNCHANGED <<run, schema, rows, faults>>

\* A call of the worker fails, or the tests are killed.
EmptyingInterrupted ==
  /\ faults < MaxFaults /\ worker.stage \in {"walking", "rows", "tables"}
  /\ faults' = faults + 1
  /\ \E deleted \in SUBSET worker.delete, created \in SUBSET worker.create :
       /\ dynamoTables' = (dynamoTables \ deleted) \cup created
       /\ rows' = rows \ deleted
  /\ worker' = [EmptyingFails EXCEPT !.delete = {}, !.create = {}]
  /\ UNCHANGED <<run, sqlTables, recorded, lock>>

-----------------------------------------------------------------------------

RunStep(m) ==
  \/ Rerun(m) \/ connectDatabases(m) \/ SkipMigration(m) \/ runMigrationsReturns(m)
  \/ disconnectDatabases(m) \/ DescribeTables(m)
  \/ \E t \in Known : TableDescribed(m, t) \/ TableCreated(m, t)
  \/ TablesSettled(m)
  \/ UpToDate(m) \/ CreateBaseTable(m) \/ BaseTableExists(m) \/ RecordMigration(m)

EmptyingStep ==
  \/ EmptySchemaless \/ ListSqlTables \/ DeleteRows \/ ListTables
  \/ \E t \in Known \cup Stray : TableDeleted(t) \/ TableGone(t) \/ TableRecreated(t)
  \/ TablesEmptied \/ emptyDatabasesReturns

Next ==
  \/ \E m \in Migrator : Start(m) \/ AcquireLock(m) \/ RunStep(m) \/ RunFails(m)
  \/ WriteRows \/ emptyDatabases \/ EmptyingStep \/ EmptyingInterrupted
  \/ DynamoRestarts

\* Every call settles, a failed migration is run again, and a database grants
\* its lock to whoever has been waiting for it.
Fairness ==
  /\ WF_vars(EmptyingStep)
  /\ \A m \in Migrator : WF_vars(RunStep(m)) /\ SF_vars(AcquireLock(m))

Spec == Init /\ [][Next]_vars /\ Fairness

-----------------------------------------------------------------------------
(* Properties                                                               *)

Finished == {m \in Migrator : run[m].stage = "succeeded"}

\* A mysql whose migration died between its two statements.
Wedged ==
  \E i \in Sql : /\ Engines[i] = "statements" /\ i \in sqlTables \ recorded
                 /\ lock[i] = Nobody

\* A migrate.ts that exits with 0 has migrated every SQL database, whatever
\* failed before and whoever migrated at the same time.
SuccessMeansMigrated ==
  Finished # {} => sqlTables = Sql /\ recorded = Sql

\* Unless something failed or died, the tables of dynamo are there after a
\* successful migration, except while emptyDatabases is busy recreating them.
TablesSurviveEmptying ==
  faults = 0 /\ Describing # {} /\ Finished # {} /\ ~CallsInFlight
    => Known \subseteq dynamoTables

\* Concurrent migrations only ever fail each other in dynamo, where no lock
\* stands between describing and creating a table.
OnlyDynamoLosesRaces ==
  \A m \in Migrator : faults = 0 /\ In(m, "failed") => run[m].at \in Describing

\* emptyDatabases that reports success left no row of before its call.
EmptiedMeansEmpty == worker.stage = "done" => rows = {}

\* A failed migration succeeds when it is run again, unless it died between
\* the two statements of mysql: then it never will.
RerunConverges ==
  \A m \in Migrator : In(m, "failed") ~> (In(m, "succeeded") \/ Wedged)

\* The table of a migrator that died there, and nobody about to record it.
HalfMigrated(i) ==
  /\ i \in sqlTables \ recorded
  /\ \A m \in Migrator : ~(In(m, "created") /\ run[m].at = i)

\* That it never will: however often and by however many processes it is run, a
\* migration that died between the statement and its record is never recorded,
\* so that no migrate.ts ends well again (SuccessMeansMigrated).
HalfMigratedForGood ==
  [][\A i \in Sql : HalfMigrated(i) => HalfMigrated(i)']_vars
=============================================================================
