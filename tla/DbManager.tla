------------------------------ MODULE DbManager ------------------------------
(***************************************************************************)
(* The database manager: shared/db/db.manager.ts over the five drivers of   *)
(* shared/db/<name>/<name>.db.ts.                                           *)
(*                                                                         *)
(* The manager walks its databases in the order of databaseSet and stops   *)
(* at the first call that fails or throws.  A walk (a "pass") is an async  *)
(* function: it runs up to an await, and whatever else the event loop      *)
(* holds may run before it continues, so every await is a step boundary.   *)
(*                                                                         *)
(* Callers are the async functions that have a pass in progress.  The      *)
(* abstraction of a driver is the client object it opens: which client     *)
(* state.data refers to, and whether somebody may still close it.          *)
(***************************************************************************)
EXTENDS Naturals, Sequences

CONSTANTS
  Databases,       \* databaseSet in key order: a sequence of driver traits
  Caller,          \* the async functions that call the manager
  Client,          \* identities of driver clients, reused once unreferenced
  NoClient,        \* state.connected is false
  ClosedClient,    \* a reference to a client that somebody has closed
  EmptyingAllowed, \* config.EMPTYING_DATABASE_ALLOWED
  Overlap          \* may two connect/disconnect passes be in progress?

(***************************************************************************)
(* What the manager can observe of a driver:                               *)
(*   migrates             it has a migrateToLatest function;               *)
(*   awaitsClose          its disconnect awaits the driver;                *)
(*   leaksOnFailedConnect a rejected connect may leave the client open;    *)
(*   rejectsSecondClose   closing an already closed client rejects;        *)
(*   closes               whether a disconnect that reports success has    *)
(*     closed the client: "always", "never", "onceQueried" (if any query   *)
(*     was made through it) or "whenIdle" (the connections of a pool, each *)
(*     of them some time after its last query).                            *)
(***************************************************************************)
Trait == [migrates : BOOLEAN, awaitsClose : BOOLEAN,
          leaksOnFailedConnect : BOOLEAN, rejectsSecondClose : BOOLEAN,
          closes : {"always", "onceQueried", "whenIdle", "never"}]

ASSUME DatabasesAssumption == Databases \in Seq(Trait) /\ Databases # << >>
ASSUME ClientAssumption == NoClient \notin Client /\ ClosedClient \notin Client
ASSUME ReferenceAssumption == NoClient # ClosedClient
ASSUME FlagAssumption == EmptyingAllowed \in BOOLEAN /\ Overlap \in BOOLEAN

N == Len(Databases)
Db == 1..N

Operation == {"connect", "disconnect", "empty", "migrate"}
LifecycleOperation == {"connect", "disconnect"}

VARIABLES
  client,    \* client[i]: the client in state.data while state.connected
  connected, \* the manager's own flag, state.connected of createDbManager
  pass,      \* pass[c]: the forEach loop caller c is running
  orphaned   \* history: the open clients that the driver call settled last has lost

dbVars == <<client, connected, pass, orphaned>>

Reference == Client \cup {NoClient, ClosedClient}

(***************************************************************************)
(* phase "call": about to call the driver of database at (or to return,    *)
(* once at is past the last one); "await": suspended in the driver with    *)
(* the client it captured; "done": returned, ok says whether it succeeded. *)
(***************************************************************************)
Pass == [op : Operation \cup {"none"}, at : 1..(N + 1),
         phase : {"idle", "call", "await", "done"},
         client : Reference, ok : BOOLEAN]

\* How an open client may lose its last reference: a connect overwrites it, a
\* rejected connect leaves it open, a disconnect forgets it without closing it,
\* or the last pass that used a client so forgotten comes to its end.
Loss == {"replaced", "refused", "disconnected", "released"}

NoPass == [op |-> "none", at |-> 1, phase |-> "idle",
           client |-> NoClient, ok |-> FALSE]

DbTypeOK ==
  /\ client \in [Db -> Reference]
  /\ connected \in BOOLEAN
  /\ pass \in [Caller -> Pass]
  /\ orphaned \in SUBSET (Db \X Loss)

DbInit ==
  /\ client = [i \in Db |-> NoClient]
  /\ connected = FALSE
  /\ pass = [c \in Caller |-> NoPass]
  /\ orphaned = {}

-----------------------------------------------------------------------------
(* Reading the state                                                        *)

\* state.connected of one database.
Connected(i) == client[i] # NoClient

\* dbManager.getInstance(i) returns the instance and not DB_NOT_CONNECTED_ERROR.
HasInstance(i) == connected /\ Connected(i)

Calling(c, op) ==
  pass[c].op = op /\ pass[c].phase = "call" /\ pass[c].at \in Db

Awaiting(c, op) == pass[c].op = op /\ pass[c].phase = "await"

Suspended(d, i) == pass[d].phase = "await" /\ pass[d].at = i

\* Clients of database i that some variable of the program still refers to.
Referenced(i) ==
  ({client[i]} \cup {pass[d].client : d \in {e \in Caller : Suspended(e, i)}})
    \cap Client

LifecycleIdle == \A d \in Caller : pass[d].op \notin LifecycleOperation

-----------------------------------------------------------------------------
(* How a step of a pass leaves the state                                    *)

Advanced(p) == [p EXCEPT !.phase = "call", !.at = @ + 1, !.client = NoClient]
Failed(p) == [p EXCEPT !.phase = "done", !.ok = FALSE, !.client = NoClient]
Suspend(p, k) == [p EXCEPT !.phase = "await", !.client = k]

\* Caller c's pass becomes p; whoever is suspended in database i with a client
\* of `gone` now holds a closed one.
SetPass(c, p, i, gone) ==
  pass' = [d \in Caller |->
             IF d = c THEN p
             ELSE IF Suspended(d, i) /\ pass[d].client \in gone
                    THEN [pass[d] EXCEPT !.client = ClosedClient]
                    ELSE pass[d]]

\* A pool that was handed its connections back closes them by itself.
Drains(i, how) ==
  Databases[i].closes = "whenIdle" /\ how \in {"disconnected", "released"}

\* An open client that lost its last reference is orphaned: nothing can close
\* it any more.  Only the step's own database drops references.
TrackOrphans(how, gone) ==
  orphaned' = {<<i, how>> : i \in {j \in Db :
                 Referenced(j) \ (gone \cup Referenced(j)') # {} /\ ~Drains(j, how)}}

-----------------------------------------------------------------------------
(* forEach                                                                  *)

\* Mutant: the loop starts one index too low.
StartPassAtZero(c, op) ==
  /\ pass' = [pass EXCEPT ![c] = [NoPass EXCEPT !.op = op, !.phase = "call", !.at = 0]]
  /\ UNCHANGED <<client, connected, orphaned>>

\* Caller c enters connectDatabases, disconnectDatabases, emptyDatabases or
\* runMigrations.  The first callback runs in the same turn of the event loop;
\* it is a step of its own here because nothing else reads pass[c].
StartPass(c, op) ==
  /\ pass' = [pass EXCEPT ![c] = [NoPass EXCEPT !.op = op, !.phase = "call"]]
  /\ UNCHANGED <<client, connected, orphaned>>

BeginPass(c, op) ==
  /\ pass[c].phase = "idle"
  /\ op \in LifecycleOperation /\ ~Overlap => LifecycleIdle
  /\ StartPass(c, op)

\* The guard at the head of each driver function returns a failed Result.
RefuseCall(c) ==
  /\ pass[c].phase = "call" /\ pass[c].at \in Db
  /\ LET i == pass[c].at IN
       \/ pass[c].op = "connect" /\ Connected(i)
       \/ pass[c].op = "disconnect" /\ ~Connected(i)
       \/ pass[c].op = "empty" /\ (~EmptyingAllowed \/ ~Connected(i))
       \/ pass[c].op = "migrate" /\ Databases[i].migrates /\ ~Connected(i)
  /\ pass' = [pass EXCEPT ![c] = Failed(@)]
  /\ UNCHANGED <<client, connected, orphaned>>

\* runMigrations skips a database without migrateToLatest.
SkipMigration(c) ==
  /\ Calling(c, "migrate")
  /\ ~Databases[pass[c].at].migrates
  /\ pass' = [pass EXCEPT ![c] = Advanced(@)]
  /\ UNCHANGED <<client, connected, orphaned>>

\* Mutant: every walk that is not a connect resets the manager's flag.
EndPassResettingFlag(c) ==
  /\ pass[c].phase = "call" /\ pass[c].at = N + 1
  /\ pass' = [pass EXCEPT ![c].phase = "done", ![c].ok = TRUE]
  /\ connected' = (pass[c].op = "connect")
  /\ UNCHANGED <<client, orphaned>>

\* The loop ran to its end; only connectDatabases sets the manager's flag, and
\* nothing ever resets it.
EndPass(c) ==
  /\ pass[c].phase = "call" /\ pass[c].at = N + 1
  /\ pass' = [pass EXCEPT ![c].phase = "done", ![c].ok = TRUE]
  /\ connected' = (connected \/ pass[c].op = "connect")
  /\ UNCHANGED <<client, orphaned>>

\* The caller's await of the manager function returns.
Collect(c) ==
  /\ pass[c].phase = "done"
  /\ pass' = [pass EXCEPT ![c] = NoPass]
  /\ UNCHANGED <<client, connected, orphaned>>

-----------------------------------------------------------------------------
(* connect                                                                  *)

\* Mutant: no look at state.connected before the client is opened.
OpenClientUnchecked(c) ==
  /\ Calling(c, "connect")
  /\ \E k \in Client \ Referenced(pass[c].at) : pass' = [pass EXCEPT ![c] = Suspend(@, k)]
  /\ UNCHANGED <<client, connected, orphaned>>

\* state.connected is false: open a client and await the driver's first answer.
\* Which unreferenced identity stands for the new client does not matter.
OpenClient(c) ==
  /\ Calling(c, "connect")
  /\ ~Connected(pass[c].at)
  /\ LET fresh == Client \ Referenced(pass[c].at) IN
       /\ fresh # {}
       /\ pass' = [pass EXCEPT ![c] = Suspend(@, CHOOSE k \in fresh : TRUE)]
  /\ UNCHANGED <<client, connected, orphaned>>

\* The driver answered: state.connect overwrites whatever state.data held.
ConnectSucceeds(c) ==
  LET i == pass[c].at IN
  /\ Awaiting(c, "connect")
  /\ client' = [client EXCEPT ![i] = pass[c].client]
  /\ SetPass(c, Advanced(pass[c]), i, {})
  /\ UNCHANGED connected
  /\ TrackOrphans("replaced", {})

\* Mutant: no driver tears its client down when connecting fails.
ConnectFailsLeaking(c) ==
  /\ Awaiting(c, "connect")
  /\ SetPass(c, Failed(pass[c]), pass[c].at, {})
  /\ UNCHANGED <<client, connected>>
  /\ TrackOrphans("refused", {})

\* The driver rejected; most drivers tear their client down themselves.
ConnectFails(c) ==
  LET i == pass[c].at
      gone == IF Databases[i].leaksOnFailedConnect THEN {} ELSE {pass[c].client}
  IN
  /\ Awaiting(c, "connect")
  /\ SetPass(c, Failed(pass[c]), i, gone)
  /\ UNCHANGED <<client, connected>>
  /\ TrackOrphans("refused", gone)

-----------------------------------------------------------------------------
(* disconnect                                                               *)

\* What a successful disconnect of database i may have closed of its client k.
\* Whether a query ever went through a client is known to the driver alone.
MayClose(i, k) ==
  CASE Databases[i].closes = "always" -> {{k}}
    [] Databases[i].closes = "onceQueried" -> {{}, {k}}
    [] OTHER -> {{}}

\* Drivers whose disconnect does not await: forgotten in the same step.
CloseNow(c) ==
  LET i == pass[c].at IN
  /\ Calling(c, "disconnect")
  /\ Connected(i) /\ ~Databases[i].awaitsClose
  /\ client' = [client EXCEPT ![i] = NoClient]
  /\ \E gone \in MayClose(i, client[i]) :
       /\ SetPass(c, Advanced(pass[c]), i, gone)
       /\ TrackOrphans("disconnected", gone)
  /\ UNCHANGED connected

\* The same call throwing before state.disconnect is reached.
CloseNowFails(c) ==
  /\ Calling(c, "disconnect")
  /\ Connected(pass[c].at) /\ ~Databases[pass[c].at].awaitsClose
  /\ pass' = [pass EXCEPT ![c] = Failed(@)]
  /\ UNCHANGED <<client, connected, orphaned>>

\* The other drivers: capture state.data's client and await its close.
IssueClose(c) ==
  /\ Calling(c, "disconnect")
  /\ Connected(pass[c].at) /\ Databases[pass[c].at].awaitsClose
  /\ pass' = [pass EXCEPT ![c] = Suspend(@, client[pass[c].at])]
  /\ UNCHANGED <<client, connected, orphaned>>

\* Mutant: the client is closed and state.disconnect is not called.
CloseSucceedsKeepingFlag(c) ==
  /\ Awaiting(c, "disconnect")
  /\ SetPass(c, Advanced(pass[c]), pass[c].at, {pass[c].client})
  /\ UNCHANGED <<client, connected>>
  /\ TrackOrphans("disconnected", {pass[c].client})

\* The driver closed of the captured client what it closes; state.disconnect
\* clears the flag of whatever client state.data holds by now.
CloseSucceeds(c) ==
  LET i == pass[c].at IN
  /\ Awaiting(c, "disconnect")
  /\ ~(pass[c].client = ClosedClient /\ Databases[i].rejectsSecondClose)
  /\ client' = [client EXCEPT ![i] = NoClient]
  /\ \E gone \in MayClose(i, pass[c].client) :
       /\ SetPass(c, Advanced(pass[c]), i, gone)
       /\ TrackOrphans("disconnected", gone)
  /\ UNCHANGED connected

\* The close rejected: state.connected stays true, whether the driver's client
\* survived (gone = {}) or not.
CloseFails(c) ==
  LET i == pass[c].at IN
  /\ Awaiting(c, "disconnect")
  /\ \E gone \in {{}, {pass[c].client}} :
       /\ client' = [client EXCEPT ![i] = IF @ \in gone THEN ClosedClient ELSE @]
       /\ SetPass(c, Failed(pass[c]), i, gone)
       /\ TrackOrphans("disconnected", gone)
  /\ UNCHANGED connected

-----------------------------------------------------------------------------
(* emptyDb and migrateToLatest: here only that they hold a client while     *)
(* they run; what they do to the database is in module SchemaMigration.     *)

IssueQuery(c) ==
  LET i == pass[c].at IN
  /\ \/ Calling(c, "empty") /\ EmptyingAllowed
     \/ Calling(c, "migrate") /\ Databases[i].migrates
  /\ Connected(i)
  /\ pass' = [pass EXCEPT ![c] = Suspend(@, client[i])]
  /\ UNCHANGED <<client, connected, orphaned>>

QuerySucceeds(c) ==
  /\ Awaiting(c, "empty") \/ Awaiting(c, "migrate")
  /\ pass[c].client # ClosedClient
  /\ SetPass(c, Advanced(pass[c]), pass[c].at, {})
  /\ UNCHANGED <<client, connected>>
  /\ TrackOrphans("released", {})

QueryFails(c) ==
  /\ Awaiting(c, "empty") \/ Awaiting(c, "migrate")
  /\ SetPass(c, Failed(pass[c]), pass[c].at, {})
  /\ UNCHANGED <<client, connected>>
  /\ TrackOrphans("released", {})

-----------------------------------------------------------------------------
(* What a caller's pass does by itself, and what a driver may do wrong.     *)

PassProceeds(c) ==
  \/ RefuseCall(c) \/ SkipMigration(c) \/ EndPass(c)
  \/ OpenClient(c) \/ ConnectSucceeds(c)
  \/ CloseNow(c) \/ IssueClose(c) \/ CloseSucceeds(c)
  \/ IssueQuery(c) \/ QuerySucceeds(c)

DriverFails(c) ==
  ConnectFails(c) \/ CloseNowFails(c) \/ CloseFails(c) \/ QueryFails(c)

PassStep(c) == PassProceeds(c) \/ DriverFails(c)

DbNext ==
  \E c \in Caller :
    \/ \E op \in Operation : BeginPass(c, op)
    \/ PassStep(c)
    \/ Collect(c)

\* The event loop runs every ready continuation and every driver call settles
\* one way or the other; nobody is obliged to call the manager.
DbFairness == \A c \in Caller : WF_dbVars(PassStep(c)) /\ WF_dbVars(Collect(c))

DbSpec == DbInit /\ [][DbNext]_dbVars /\ DbFairness

-----------------------------------------------------------------------------
(* Properties                                                               *)

\* forEach as seen by its caller: a connect pass that got as far as database
\* `at` has every earlier one connected, a disconnect pass has every earlier
\* one disconnected, so a successful one left no exception behind; nothing a
\* concurrent emptyDatabases or runMigrations does can change that.
PassOwnsItsPrefix ==
  \A c \in Caller : \A i \in Db :
    i < pass[c].at =>
      /\ pass[c].op = "connect" => Connected(i)
      /\ pass[c].op = "disconnect" => ~Connected(i)

\* No connect replaces a client that is still open, and a connect that is rejected
\* loses one only where the driver leaves it open (redis.db.ts:57-59).  Any other
\* open client is lost by a disconnect that does not close it (dynamo.db.ts:101,
\* mysql.db.ts:105), there or when the last pass still using it ends.
NoOrphanedClient ==
  \A i \in Db :
    /\ <<i, "replaced">> \notin orphaned
    /\ <<i, "refused">> \in orphaned => Databases[i].leaksOnFailedConnect
    /\ <<i, "disconnected">> \in orphaned \/ <<i, "released">> \in orphaned =>
         Databases[i].closes \in {"onceQueried", "never"}

\* Whenever the last database is connected and no pass is busy connecting it,
\* the manager's flag lets getInstance through: a connected set of databases is
\* never hidden behind the flag that connectDatabases sets last.
FlagFollowsLastDb ==
  LifecycleIdle /\ Connected(N) => connected

\* The "already connected" guard protects what it guards: no connect replaces
\* a client that is still in use.
KeepsClients ==
  \A i \in Db : client[i] \in Client /\ client'[i] \in Client => client'[i] = client[i]

\* So in every step of the manager.
ConnectNeverReplaces == [][KeepsClients]_dbVars
=============================================================================
