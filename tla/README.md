# A verification of the application skeleton

The repository is a TypeScript HTTP service: an express application over five
databases, put together by an awilix container, that can be started, closed and
reloaded with another environment while the process lives.  This directory holds
TLA+ models of its core, the TLC runs that check them, and proofs that TLAPS
checks.  Paths below are relative to the repository (`src/app.ts` and so on).

## The system

| Component | State | Operations | Talks to |
|---|---|---|---|
| Database manager, `shared/db/db.manager.ts` | its own `connected` flag; per database `state.connected`, `state.data` | `connectDatabases`, `disconnectDatabases`, `emptyDatabases`, `runMigrations`, `getInstance`, `getConnectionStatus` | awaits each driver in turn |
| Five drivers, `shared/db/*/*.db.ts` | the open client | `connect`, `disconnect`, `emptyDb`, `migrateToLatest` | the databases |
| Application manager, `app.manager.ts` | none of its own | `startApp`, `closeApp`, `reloadApp` | database manager, express, HTTP server, container |
| HTTP server, `shared/lib/server.lib.ts` | `listening`, the bound handle, `connectionsAmount` | `listen`, `close`, `awaitUncompletedRequests` | timer, express |
| Container and config, `app.ts`, `app.config.ts`, `dotenv.lib.ts` | registrations, singletons, environment | `loadAppContainer`, `setEnvVariables` | everything |
| Counter requests, `handler/internal`, `repository` | one counter per database | `POST /base`, `GET /internal/test_2/:counterId` | database manager, integrations |
| Market data, `handler/market-data`, `integration/binance*` | none | `POST /calculate` | Binance |
| Integrations, `integration`, `endpoint.structure.ts`, `axios.lib.ts` | none | `request` | remote services |
| Timer, `shared/lib/timer.lib.ts` | attempts | `cockatielTimer` | cockatiel |
| Express, routes, middlewares, `express.lib.ts`, `shared/structure`, `shared/middleware` | the router's layers, the async local store of a request | `initializeRoutes`, validation, `execute`, `sendResponse`, error handler | handlers |
| Health check | none | `GET` health | connection status |
| Startup and migration scripts, `startup.ts`, `migrate.ts` | tables and kysely's records, in the databases | `startApp`; connect, migrate, disconnect | managers |
| Result, `result.lib.ts` | list of causes | constructor | every layer |
| Test harness, `test/setup.ts` | environment, files | hooks, `assureConfig` | application manager |
| OpenAPI generator, `open-api-docs-generator.lib.ts` | `state.counter`, files | recording, generating | tests |
| Logger, proxies | none | output | everything |

Everything runs on one event loop.  A step of a model is therefore what the code
does between two awaits, and whatever else is ready may run in between; the hard
behaviours are all of this kind.

* A pass over the databases stops at the first failure and undoes nothing, so
  partial connects and partial disconnects are ordinary states from which the next
  call starts.
* State is tested before an await and changed after it (`connect`, `disconnect`).
* The manager's flag, the databases' flags, `state.listening` and the bound port
  are four records of one fact, written at different moments.
* `closeApp` disconnects before it stops the server, so requests run over
  databases that disappear under them.
* Five inserts without a transaction, answers that may be lost, results of
  `Promise.all` in any order.
* `migrate.ts` may run twice at once, fail anywhere and be run again, while
  tests delete and create the tables it owns.
* Every start attaches the routes again, and a reload changes `APP_STAGE` under a
  request.
* Tests share the process environment, and recordings of requests nobody awaits.
* In-place sorting, positional columns, sums of doubles and a rounded quotient in the
  pure parts.

What makes each component correct: a pass owns the front part of the databases it
went through; no open client is replaced, or lost otherwise than by its own driver;
server and last database are up and down together between operations; a reported
success is true; the application can always be brought back; the stored copies of a
counter are a front part of the write order, and a counter the client was told of is
everywhere; a response of `/calculate` is a summary of what Binance answered, by the
columns it names; the timer neither gives up early nor waits in vain; a migration
that exits with 0 has migrated everything, and running a failed one again helps; a
request is answered once, by its own route, with the story of what went wrong; a
test runs with the overrides it asked for, and every recording that was written is
in the document.

## Modules

| Module | Models | State and its code |
|---|---|---|
| `DbManager` | `db.manager.ts` over arbitrary drivers | `client[i]` is `state.connected`/`state.data`, `connected` the manager's flag, `pass[c]` the `forEach` caller `c` is running |
| `AppDatabases` | the five drivers as traits, and `databaseSet` | constants |
| `AppManager` | `app.manager.ts` and `server.lib.ts` over `DbManager` (EXTENDS) | `job[c]` what an operation awaits, `listening`, `bound`, `routesReady`, `config`, `env`, `inflight`, `report`, `alive` |
| `AppLifecycle` | what `startApp`/`closeApp` promise to a caller: atomic operations | abstract |
| `AppRecovery` | `AppManager` with an operator who restarts it | `stable` |
| `RequestPipeline` | router, middlewares, `createRoute`, `createHandler`, `sendResponse`, `Result`, over `AppLifecycle` (INSTANCE) | `stack` the router's layers, `stage` is `APP_STAGE`, `request[r]`, `failures[r]` |
| `CounterRequests` | both counter requests and the five repositories over `DbManager` (EXTENDS) | `request[r]` the handler's progress, `sent[i]`, `stored[i]` the inserts of database `i` |
| `SchemaMigration` | `migrate.ts`, `migrateToLatest`, `emptyDb`, kysely's migrator | `run[m]` a process, `worker` the tests, `dynamoTables`, `sqlTables`, `recorded`, `lock`, `rows` the servers |
| `TestHarness` | `test/setup.ts`, `setEnvVariables`, `loadConfig`, the recording half of the OpenAPI generator, over `AppLifecycle` (INSTANCE) | `env`, `config`, `phase`, `test`, `pending`, `files`, `counter` |
| `MarketData` | `POST /calculate` | `body`, `data`, `status` |
| `Timer` | `cockatielTimer` | `retries`, `elapsed`, `last`, `result` |
| `*Proofs` | theorems about the module of that name | |
| `MC*` | values of the constants for TLC | |

Operators named like a function of the code stand for it (`startApp`, `closeApp`,
`initializeRoutes`, `assureConfig`, `calculate`, `maxAttempts`).  Operators whose
comment begins with "Mutant" are not part of any specification: each is a wrong
version of the definition below it, and `PROJECT.json` says which property finds
it out.

### DbManager

A driver is five traits: has it a migration, does its `disconnect` await, does a
rejected `connect` leave a client running, does a second close reject, and when does
its `disconnect` close the client (`closes`): always (redis, mongo), once it was
queried (mysql, where kysely's `destroy()` ends the pool only if a query has
initialised its driver), when it is idle (postgres, which hands the connection back
to a pool that closes it) or never (dynamo, whose `destroy()` is that of the document
client, which does nothing).  What kysely, the AWS client, pg and ioredis do is not in
the repository and is part of the traits.  A pass is
"call" (about to call the next driver), "await" (suspended in it, with the client
it captured) or "done".  The guards at the head of each driver function are
`RefuseCall`; `OpenClient`/`ConnectSucceeds`/`ConnectFails` are the two halves of
`connect` around its await, `IssueClose`/`CloseSucceeds`/`CloseFails` and, for the
two synchronous drivers, `CloseNow`/`CloseNowFails` those of `disconnect`.  A
rejected close may or may not have killed the client (`CloseFails`).  A successful
one has closed what `MayClose` allows.  A client identity nobody refers to is reused.
`orphaned` has the databases whose open client lost its last reference in the driver
call settled last, and how: "replaced" by another, "refused" by a failed connect,
"disconnected", or "released" by a query that was the last to hold it.
`NoOrphanedClient` says that each comes from its own driver: nothing is ever
"replaced", only a driver that leaks loses a refused one, and only one that does not
always close loses a disconnected one.  For dynamo `state.data` keeps the disconnected
client until the next connect overwrites it; as nothing can reach it there while
`state.connected` is false, it counts as lost from the disconnect on.  `CHOOSE` picks
the identity of a new client: all unreferenced ones behave alike.

`Overlap` says whether connect and disconnect passes of different callers may be in
progress together.  The code has no lock; the callers in the repository
(`startup.ts`, the hooks of `test/setup.ts`) make one call after the other.  What
needs this discipline is stated under `~Overlap`, what does not is checked, and
where possible proved, for both.  `ConnectNeverReplaces` does need it: of two
overlapping connect passes both get past the "already connected" test before either
calls `state.connect`, and TLC finds the replaced client as soon as `Overlap` is
TRUE.

### AppManager

`startApp`, `closeApp` and `reloadApp` begin a pass; the steps after it are one
action for each return of the code: `DatabasesFailed`, `Listen`, `ListenRefused`
(a second `listen()` on a bound server throws and `startApp` ignores the Result),
`ListenCallback`, `ListenError` (the port is taken, nobody handles the event, the
process dies), `CloseServer`, `CloseFoundNoServer`, `Closed`, `LoadAndStart`,
`LoadFails`.  The HTTP server's handle (`bound`) and `state.listening` are two
variables because `listen()` binds now and its callback runs later.

`AppLifecycle` is the promise to a caller who waits for each operation: a start or
a close is atomic, takes effect on a front part of the databases and moves the
server only when it got through all of them.  The mapping hides what a pass in
progress has done so far (`Undone`, `NotYetClosed`).  `RequestPipeline` and
`TestHarness` are written over this specification: for what they say of requests
and tests it is all they need to know of the application manager.

### RequestPipeline

`stack` grows by the routes and the `notFoundMiddleware` with every start
(`express.lib.ts:69`); `Dispatched` asks the layers from the first on.  A request is
"accepted" in the middlewares of its route, "handling" while the handler runs, then
"dependencyFailed" or "handlerFailed", and "answered".  A `Result` is its
`causeList`, put together by `NewResult` in each layer; `Thrown` lists what gets to
a handler's catch, and in which form, and `Causes` what an integration or a
repository gives as the cause of its own failure: nothing, the library's exception,
or, in `base.postgres.repository.ts:44-51` and `68-75`, the Result it got its
instance by, which is a success and puts `Succeed` into the list.  `failures[r]` is
a history variable: what really went wrong, against which `AnswersTellTheStory`
holds the answer.  Its name is sent in every stage and is that of the failure met
last (`LastMet`); its list is empty in production and one of `Stories` elsewhere,
with or without that `Succeed`.  `APP_STAGE` is read when the answer is sent, and a
reload may have changed it since the request arrived.

### CounterRequests

A counter's id is a fresh uuid, so the creating request stands for it.  An insert
is sent, executed and acknowledged in separate steps, and may be executed after it
was reported as failed.

### SchemaMigration

Engines are told apart by how they migrate: "schemaless" (redis, mongo),
"describing" (dynamo: describe every table, create the missing ones),
"statements" (mysql: `createTable` is permanent at once and the migration is
recorded by the next statement) and "transaction" (postgres: both at the commit).
kysely's lock is `lock[i]`; a process that ends gives its locks back with its
connections.  A fault (`RunFails`, `EmptyingInterrupted`) strikes anywhere, and
what was in flight may or may not have happened (`StatementLost`).
`DynamoRestarts` is there because the docker compose file runs DynamoDB in memory.
`emptyDatabases` of the tests deletes and creates DynamoDB tables in two calls for
each; a rejection ends it while the calls of the other tables are in flight.

### TestHarness

A worker runs `beforeAll`, then for each test `beforeEach`, `assureConfig` (a
reload in three steps: close, load, start), requests and an end, then `afterAll`.
The environment is made of strings: an override `FALSE` is stored as `"false"`,
which `loadConfig` coerces to `TRUE` for every later load.  `openApiGeneratorStoreData`
awaits an import before it looks up the current test and writes; its calls are
`pending` until then and resume in any order.  A body is the set of its key paths,
and `NestedKeys` what the generator compares of it.

### MarketData, Timer

A kline is a record with the columns the endpoint declares.  Binance sends prices and
volumes as decimals in strings; they are whole numbers of a unit small enough for
every decimal and every double to be a multiple of it.  `Round` is what `Number()` and
each addition make of such a number: the nearest of the set `Double`, the even one of
two.  `Double` is a constant of which the module assumes that its members are near
each other (`PrecisionAssumption`), so the theorems hold for the doubles of IEEE 754
and for those of four bits of the run.  A sum beyond the greatest double is that one
here, where JavaScript has `Infinity`; strings that are no numbers (`NaN`) and
negative ones are left out.  `Sum` adds in the order of the list, as `reduce` does,
and rounds each partial sum: in the run the order does make a difference, which is why
`ExtremesAndSums` compares a sum with the exact one of the decimals up to an error of
two roundings a kline, and not with the sum in another order.

The timer counts the time of its delays and of the checks.

## Runs

| Run | Question | Bounds |
|---|---|---|
| `DbManager_sequential` | do passes keep their promises when only empty and migrate passes overlap them? | 5 databases, 2 callers, 3 clients |
| `AppManager_sequential` | do server and databases move together; do the operations implement `AppLifecycle`; can the application be brought back from every mixture of failures, and is the one exception for good? | `AppRecovery`, 5 databases, 1 caller, 3 configs (one rejected), 1 request |
| `AppManager_overlap` | what survives when operations overlap? | 2 databases, 2 callers, 2 configs (one rejected), 1 request |
| `AppManager_drain` (violation) | does `closeApp` wait for requests? | as sequential |
| `RequestPipeline` | is every request answered once, by its route, with the name and the causes of what went wrong? | 2 requests, 2 stages, 2 starts |
| `CounterRequests` | what is stored and answered, and is every request answered? | 3 databases, 2 requests, counters -1, 0, 2 |
| `SchemaMigration` | what does success of migrations and emptyings mean; does running again help? | 4 engines, 2 migrators, 1 known and 1 stray table, 1 fault, 1 emptying |
| `TestHarness` | which config does a test run with; what is documented? | 2 tests, 2 requests of 4 shapes, 3 values of an enumeration (one invalid) |
| `MarketData` | is the response a summary of the answer, by the columns the code reads? | 5 klines, lists of up to 4, doubles of 4 bits |
| `MarketData_open` (violation) | is `lowestOpenPrice` the lowest open price? | lists of up to 2 |
| `MarketData_columns` (violation) | are `closePrice` and `numberOfTrades` of the columns named so? | lists of up to 2 |
| `Timer` | when does the timer give up, and with what? | maxDuration 7, delay 3 |

Why the bounds are enough.  The five databases are the real ones.  A database is
referred to by `state.data` and by the passes suspended in it, so with two callers
three clients always leave a fresh one, and more callers add no new kind of overlap;
with one caller two clients do.  Three databases in the counter requests keep a
first, a middle and a last one, in an order other than that of the manager, with and
without weak reads.  Two requests let one read what the other created. Counter 2 is
the least that makes `Promise.all` wait for more than one call.  A second start
already attaches routes behind a `notFoundMiddleware`; requests of the pipeline
share nothing but router and stage, and two show that.  The four engines are the
four ways to migrate, mongo being to `SchemaMigration` what redis is; two migrators
race, one table is refused or not, one stray table is deleted and not created again,
and a fault is one, since the properties about faults are about what a single one
leaves behind.  A test inherits from the one before it, so two tests suffice; the
four requests differ in status, content type, keys or nesting alone.  Lists of four
klines hold ties in either sorted field on both ends, high prices that differ and
have one double, and sums that depend on the order and overflow.  Delay 3 does not
divide 7. The theorems below hold without any of these bounds.

Deadlock is checked everywhere except in `Timer`, which ends when it has returned,
`TestHarness`, which ends when the worker has exited, and `RequestPipeline`, which
ends when every request is answered and the bound on starts is reached or the
process has died.  In `AppManager` a process that died (`Crashed`) stutters on
purpose.

### Fairness

The event loop runs every ready continuation, and every driver call, remote call
and `listen()` settles one way or the other: weak fairness of the steps of each
pass, operation, request, migration and emptying in progress.  Nobody has to call
anything, no request has to arrive, and no insert has to be executed.  That a
driver call settles is an assumption on the drivers; axios has no timeout here, so
the same goes for remote calls.

`AppRecovery` adds an operator who acts once nothing fails any more; no code of the
repository does this, which is the point: the run shows that a restart from outside
suffices.  Until then its steps are all those of `AppManager`, so that the safety
properties and the refinement are checked in the same run.  Its one exception is a
redis client that died inside its own `quit()`, after which `disconnect()` can only
reject and `connect()` finds the database connected; `WedgedForGood` says that no
sequence of calls helps then, and nothing but a new process does.

In `SchemaMigration` a failed migration is started again (`Rerun`, part of the weakly
fair `RunStep`): whoever deploys does that, no code does.  `AcquireLock` is strongly
fair because two migrators take one lock in turns, so it is not continuously free
for either; the databases grant it to whoever waits longest.  `RerunConverges` has one
exception, `Wedged`, see below.

### Findings

1. `DrainedWhenFinished`: `connectionsAmount` is never updated, so closing never
   waits, while its Result says that waiting has finished.
2. `LowestOpenPriceIsLowest`: the second in-place sort undoes the first;
   `OpenPriceOfCloseExtremes` says what the fields hold instead.
3. `NamedColumnsAreReported`: `binance.integration.ts:63` reads `closePrice` from column
   2 and line 67 `numberOfTrades` from column 9.  The endpoint's comments have the high
   price and the taker buy base asset volume there, and the close price and the number
   of trades in columns 4 and 8 (`binance.integration.endpoint.ts:45,47,51,52`).

### What the models show besides

Behaviour that no line of the repository contradicts, and that its readers should
know of.  The properties are stated so that they hold with it.

* A disconnect may leave its client open.  dynamo's destroys the document client, which
  does nothing, so the client of the connection keeps its sockets and the next connect
  overwrites the last reference to it (`dynamo.db.ts:101`).  mysql's ends no pool when
  no query came since the connect, and the connection that connect took stays open
  (`mysql.db.ts:73,105`).  Each reload may cost one of each (`NoOrphanedClient`).
* Databases keep the config they were built with: they are singletons, and a reload
  with other hosts reconnects them to the old ones (`app.ts:155`).
* A mysql whose migration died between `createTable` and its record can never be
  migrated again: `0-initial.ts` creates the table without `ifNotExists`
  (`Wedged`, `HalfMigratedForGood`).
* Two migrations at once fail each other only in dynamo, where nothing stands
  between describing a table and creating it (`OnlyDynamoLosesRaces`).
* A DynamoDB table that is not of `allDynamoTables` makes the first
  `emptyDatabases` fail; it is deleted all the same, so the next one succeeds.
* `EMPTYING_DATABASE_ALLOWED="false"` in the environment allows it: every
  non-empty string is coerced to true (`app.config.ts:10`).
* `assureConfig` compares two fresh arrays, so it reloads every time; its overrides
  stay for the tests after it; an override that is rejected closes the application
  for the rest of the file (`OneTestSpoilsTheRest`).
* Two bodies with the same key names in another nesting count as one shape; the
  document has the one that comes first.  A recording may be filed under a later
  test than its own, and those still pending when the worker exits are lost.
* A failing `internalTest2Handler` hands on no cause, and a repository without an
  instance shows `DB_NOT_CONNECTED` to nobody, since `destroyToThrow` makes a plain
  Error of it (`Story`).
* A failed health check is answered with status 503 and the body of a success.
* An answer to a counter that postgres did not insert lists `Succeed` among the causes
  of its failure (`base.postgres.repository.ts:68-75`).

## Proofs

All proofs hold for every value of the constants that satisfies the named
assumptions of the modules: any number of databases, callers, requests, migrators,
tests.  No theorem depends on fairness.

* `DbManagerProofs`.  `DbTypeCorrect`: types, from `DbTypeInv`, which adds that a
  suspended pass is suspended in a database (not past the last one).
  `PrefixIsOwned`, `NeverReplaced` and `NoClientIsLost` assume `~Overlap`.
  `PassOwnsItsPrefix` is not inductive: another pass could undo the prefix, and a
  suspended one acts on what it found before its await.  `SerialInv` adds that at
  most one connect or disconnect pass is in progress, and that a suspended pass
  still finds what it tested: a connecting one its database disconnected, a
  disconnecting one its client in place.  `OrphanInv` adds `HoldsCurrent`: the
  client a pass has captured is the one of the database, so when a close takes the
  database's reference nobody else holds another client of it.  `NoClientIsLost`
  does not say that none is: it blames each loss on a trait of the driver, and
  dynamo and mysql do lose clients.  `FlagFollows` needs no assumption: `FlagInv`
  says that a connected last database means the flag is set, or somebody's connect
  pass has just gone past the last database and will set it, or another pass may
  still change it.
* `AppManagerProofs`.  `AppTypeCorrect`, for any overlap.  With `~Overlap`, one
  invariant, `SerialAppInv`, yields `ServerFollowsLastDb`,
  `ServerFoundWhereExpected`, `ReportsAreTruthful` and `CurrentConfigIsServed`.  It
  says where the server is at each stage of the one operation in progress
  (`StageOf`: the last database answers for it, except between the end of a pass
  and the call on the server that follows) and that the handle has the current
  port exactly while the server listens or is about to (`HandleHeld`).
  `FlagIsTruthful` holds for any overlap, by `HandleOutlivesBinding`: only the
  caller that bound the port waits for the callback, and nobody takes the port away
  from it, because `close()` finds no listening server.

  `LifecycleIsRefined` (with `~Overlap`): every step of `AppManager` is a step of
  `AppLifecycle` or leaves its variables alone under the refinement mapping;
  `SerialAppInv` says that when a pass is over the abstract guards hold.
  Downwards, `ManagerIsUsedAsSpecified` (any overlap): every step of `AppManager` is
  a step of `DbManager`'s `DbNext` or leaves its variables alone.  The obligation is
  `BeginPass`'s guard, which `AppManager` does not repeat: `ManagedInv` says that an
  operation has a pass only while it awaits the databases.  What is proved of
  `DbManager` therefore holds in the application (`ClientsAreKept` with `~Overlap`:
  clients are lost by their drivers alone; `FlagFollowsInApp` for any overlap).

  `WedgedIsForGood` (with `~Overlap`): `DeadInv`, an invariant of the database
  manager, says that no connect pass has come past a dead client and that only
  drivers that await their close have one; with `BoundIsAlive` the server is bound
  only over databases that are all alive.  `RecoveryIsOrdinary` maps `AppRecovery`
  onto `AppManager`, so `RepairIsInVain` follows.
* `RequestPipelineProofs`.  `PipelineInv` adds to the types that the layers of the
  first start stay in front (`FirstLayers`), so the first match never changes, and
  that a request has an answer exactly when it is answered, of a status that fits
  whether its handler ran (`Consistent`).  `StoriesAreTold`: `StoryInv` relates the
  list of causes a request carries to its history at each phase (`Recorded`), by
  lemmas on the handful of sequences that `Latest`, `Story` and `Stories` can meet.
  It is an action property because the stage is read in the step that sends the
  answer.
* `CounterRequestsProofs`.  `CounterInv` adds to the types how far each kind of
  request can have come (`Shape`), where its inserts are (`Written`: acknowledged
  before the database it is at, not sent after it) and what a read has found so far
  (`ReadSoFar`: calls made and calls left add up to the counter).  None of the four
  properties needs anything of the database manager, whose passes may overlap.
* `SchemaMigrationProofs`.  `SchemaInv` says what a migrator has behind it at each
  stage, and that who is inside kysely's migrator holds the lock; three more
  properties need an invariant more each: `RaceInv` (without faults, a table without
  its record has a migrator at work), `RowsInv` (which rows an emptying in progress
  has still before it) and `TablesInv` (a migrated table exists, is being recreated,
  or a migrator is about to create it).  `EmptiedIsEmpty` assumes `Describing # {}`:
  the rows of DynamoDB's tables are emptied by the driver that has them.
  `HalvesAreForGood` needs `SchemaInv` only: no step of a migrator records a database
  it has not created the table of (`HalvesPassedBy`), and no step creates a table
  that is there.
* `TestHarnessProofs`.  `HarnessInv`: the environment has the text of the last test
  that gave one (`EnvFollows`), the config what the current test asked for
  (`ConfigFollows`), and once a test has spoiled the rest no phase behind the hook
  is reached (`SpoiledIsOver`).  `RecordsAreDocumented` rests on `RecordInv` (a name
  is never used twice, so nothing is overwritten) and on `StoredIsDocumented`
  (grouping by url, method, content type and status loses no record).
  `HarnessKeepsToLifecycle`: the hooks take only steps of `AppLifecycle`, whose
  `Next` has a guard (no step after a crash) that they do not repeat.
* `MarketDataProofs`.  `EveryChangeReported`, `ExtremesAndSumsRight` and
  `OpenPricesAreOfCloseExtremes`, for answers of any length.  The sums are folds over
  sets and the order of a sort is a rank, so these need induction over data.  The
  library's induction theorems cannot be instantiated; `SubsetInduction` gets by
  without: the sets that lack a property are a set themselves, and a least of them
  under strict inclusion, which exists by `FS_StrictSubsetOrderingWellFounded` and
  `WFMin`, contradicts the induction step.  `SumsAgree` and `SumsExist` are proved
  with it over relations (`IsSum`) that the fold satisfies; `RanksAscend` and
  `SortedByReorders` say that a sort is a permutation in the order asked for, and
  `ReorderedTwice` what the second in-place sort makes of the first.  That rounding is
  monotone (`RoundIsMonotone`) makes the extremes of the doubles the doubles of the
  extremes.  `SumOfDoublesIsNear` bounds the error of a sum in the order it is added
  in: each step adds at most one rounding of its decimal and one of its addition, each
  at most a `Precision`th of the sum so far (`OneMoreAddition`).  Only the exact sum is
  the same in every order (`ExactSumOfReordered`).
* `TimerProofs`.  With `m = ceil(maxDuration / delay)`, `m * delay >= maxDuration`
  and `(m - 1) * delay < maxDuration` are proved as lemmas on natural division, and
  the three properties follow from `retries * delay <= elapsed`.

The types of `RequestPipeline`, `CounterRequests` and `SchemaMigration` are proved
(`PipelineTypeCorrect`, `RequestsTypeCorrect`, `MigrationTypeCorrect`) and so are not
listed as invariants of a run.

Only model-checked: liveness (fairness and ENABLED are out of the prover's reach),
that is `EveryOperationReturns`, both `EveryRequestIsAnswered`, `Recovers`,
`RerunConverges` and `TimerReturns`.  Every invariant and every action property of
the passing runs is stated by a theorem.

## Not modelled

* Logging, the dependency proxies and awilix: output and wiring; no decision of the
  program depends on them.
* The zod schemas field by field: a config or a body is accepted or not, and of the
  config only the kinds of field that behave differently are told apart.
* In the OpenAPI generator everything behind the choice of bodies: parameter
  replacement, headers, examples and the inference of a schema are formatting.
* Redaction, stack traces and circular references of a Result: formatting.
* Endpoint mocks and nock's list of allowed hosts: test tooling that replaces the
  remote services, which the models leave free to answer anything.
* How many connections mysql's pool has left.  `mysql.db.ts:73` takes one to test the
  pool and never releases it; the pool is made anew with every connect, so one of its
  ten connections is idle for good and no wait of this code depends on it.  That it
  stays open when nobody ends the pool is modelled.
* `NaN` of a string that is no number, negative numbers, and `Infinity` as a value
  of its own.
