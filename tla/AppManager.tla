------------------------------ MODULE AppManager ------------------------------
(***************************************************************************)
(* The application manager, app.manager.ts, over the database manager and  *)
(* the HTTP server of shared/lib/server.lib.ts: startApp, closeApp and     *)
(* reloadApp, called any number of times.                                  *)
(***************************************************************************)
EXTENDS DbManager

CONSTANTS
  Config,        \* environments a reload may be given
  ValidConfig,   \* those that loadConfig accepts
  InitialConfig, \* the one the container was first loaded with
  NoConfig,      \* no reload in progress
  MaxRequests    \* bound: HTTP requests in flight

ASSUME ConfigAssumption ==
  /\ ValidConfig \subseteq Config /\ InitialConfig \in ValidConfig
  /\ NoConfig \notin Config
ASSUME RequestsAssumption == MaxRequests \in Nat

VARIABLES
  job,         \* job[c]: what caller c's startApp, closeApp or reloadApp awaits
  listening,   \* state.listening of the HTTP server
  bound,       \* config whose port the server's handle holds, or NoConfig
  routesReady, \* initializeRoutes has run: later runs append behind it
  config,      \* the config registered in the container
  env,         \* the process environment
  inflight,    \* HTTP requests accepted and not yet answered
  report,      \* history: outcome of the last startApp or closeApp
  alive        \* the process has not died of an uncaught event

appVars == <<job, listening, bound, routesReady, config, env, inflight, report, alive>>
vars == <<dbVars, appVars>>

\* wait: "connecting" and "disconnecting" await the database manager, "binding"
\* the listen callback, "draining" awaitUncompletedRequests; next: the config a
\* reload is on its way to; closed: result of httpServer.close().
Job == [wait : {"idle", "connecting", "binding", "disconnecting", "draining"},
        next : Config \cup {NoConfig}, closed : BOOLEAN]

NoJob == [wait |-> "idle", next |-> NoConfig, closed |-> FALSE]

Report == {"none", "startOk", "startFailed", "closeOk", "closeFailed"}

AppTypeOK ==
  /\ DbTypeOK
  /\ job \in [Caller -> Job]
  /\ listening \in BOOLEAN /\ routesReady \in BOOLEAN /\ alive \in BOOLEAN
  /\ bound \in Config \cup {NoConfig}
  /\ config \in ValidConfig /\ env \in Config
  /\ inflight \in 0..MaxRequests
  /\ report \in Report

AppInit ==
  /\ DbInit
  /\ job = [c \in Caller |-> NoJob]
  /\ listening = FALSE /\ bound = NoConfig /\ routesReady = FALSE
  /\ config = InitialConfig /\ env = InitialConfig
  /\ inflight = 0 /\ report = "none" /\ alive = TRUE

-----------------------------------------------------------------------------
(* Reading the state                                                        *)

\* connectionsAmount of server.lib.ts: initialised and never assigned again.
connectionsAmount == 0

NobodyBusy == \A c \in Caller : job[c].wait = "idle"

MayBegin(c) == alive /\ job[c].wait = "idle" /\ (Overlap \/ NobodyBusy)

HasReturned(c, wait) == alive /\ job[c].wait = wait /\ pass[c].phase = "done"

-----------------------------------------------------------------------------
(* What a step leaves alone                                                 *)

DbIdle == UNCHANGED dbVars

ServerSame == UNCHANGED <<listening, bound, routesReady>>

-----------------------------------------------------------------------------
(* startApp, closeApp, reloadApp                                            *)

startApp(c) ==
  /\ MayBegin(c)
  /\ StartPass(c, "connect")
  /\ job' = [job EXCEPT ![c].wait = "connecting"]
  /\ ServerSame
  /\ UNCHANGED <<config, env, inflight, report, alive>>

closeApp(c) ==
  /\ MayBegin(c)
  /\ StartPass(c, "disconnect")
  /\ job' = [job EXCEPT ![c].wait = "disconnecting"]
  /\ ServerSame
  /\ UNCHANGED <<config, env, inflight, report, alive>>

\* The environment changes before the application is closed, and stays changed
\* whatever becomes of the reload.
reloadApp(c, new) ==
  /\ MayBegin(c)
  /\ StartPass(c, "disconnect")
  /\ job' = [job EXCEPT ![c] = [NoJob EXCEPT !.wait = "disconnecting", !.next = new]]
  /\ env' = new
  /\ ServerSame
  /\ UNCHANGED <<config, inflight, report, alive>>

\* Mutant: a failed walk takes the server down as well.
DatabasesFailedStoppingServer(c) ==
  /\ HasReturned(c, "connecting") \/ HasReturned(c, "disconnecting")
  /\ ~pass[c].ok
  /\ Collect(c)
  /\ job' = [job EXCEPT ![c] = NoJob]
  /\ report' = IF job[c].wait = "connecting" THEN "startFailed" ELSE "closeFailed"
  /\ listening' = FALSE /\ bound' = NoConfig
  /\ UNCHANGED <<routesReady, config, env, inflight, alive>>

\* A failed connect or disconnect pass ends startApp, closeApp and the reload
\* around them; the server is not touched.
DatabasesFailed(c) ==
  /\ HasReturned(c, "connecting") \/ HasReturned(c, "disconnecting")
  /\ ~pass[c].ok
  /\ Collect(c)
  /\ job' = [job EXCEPT ![c] = NoJob]
  /\ report' = IF job[c].wait = "connecting" THEN "startFailed" ELSE "closeFailed"
  /\ ServerSame
  /\ UNCHANGED <<config, env, inflight, alive>>

-----------------------------------------------------------------------------
(* startApp after connectDatabases                                          *)

\* Attaches every route and then notFoundMiddleware to the one express app.
initializeRoutes == routesReady' = TRUE

\* Mutant: startApp does not look at the result of connectDatabases.
ListenAnyway(c) ==
  /\ HasReturned(c, "connecting") /\ bound = NoConfig
  /\ Collect(c)
  /\ routesReady' = TRUE /\ bound' = config
  /\ job' = [job EXCEPT ![c].wait = "binding"]
  /\ UNCHANGED <<listening, config, env, inflight, report, alive>>

\* Mutant: the port is that of the config the server was built with.
ListenOnInitialPort(c) ==
  /\ HasReturned(c, "connecting") /\ pass[c].ok /\ bound = NoConfig
  /\ Collect(c)
  /\ routesReady' = TRUE /\ bound' = InitialConfig
  /\ job' = [job EXCEPT ![c].wait = "binding"]
  /\ UNCHANGED <<listening, config, env, inflight, report, alive>>

\* httpServer.listen() binds the port and returns; its callback comes later.
Listen(c) ==
  /\ HasReturned(c, "connecting") /\ pass[c].ok
  /\ bound = NoConfig
  /\ Collect(c)
  /\ initializeRoutes
  /\ bound' = config
  /\ job' = [job EXCEPT ![c].wait = "binding"]
  /\ UNCHANGED <<listening, config, env, inflight, report, alive>>

\* A second listen() on a bound server throws; listen() turns that into a
\* failed Result, which startApp does not look at.
ListenRefused(c) ==
  /\ HasReturned(c, "connecting") /\ pass[c].ok
  /\ bound # NoConfig
  /\ Collect(c)
  /\ initializeRoutes
  /\ job' = [job EXCEPT ![c] = NoJob]
  /\ report' = "startOk"
  /\ UNCHANGED <<listening, bound, config, env, inflight, alive>>

\* Mutant: the callback resolves and leaves state.listening alone.
ListenCallbackUnnoticed(c) ==
  /\ alive /\ job[c].wait = "binding"
  /\ job' = [job EXCEPT ![c] = NoJob]
  /\ report' = "startOk"
  /\ DbIdle /\ ServerSame
  /\ UNCHANGED <<config, env, inflight, alive>>

ListenCallback(c) ==
  /\ alive /\ job[c].wait = "binding"
  /\ listening' = TRUE
  /\ job' = [job EXCEPT ![c] = NoJob]
  /\ report' = "startOk"
  /\ DbIdle
  /\ UNCHANGED <<bound, routesReady, config, env, inflight, alive>>

\* The port is taken: 'error' is emitted and nobody listens for it.
ListenError(c) ==
  /\ alive /\ job[c].wait = "binding"
  /\ alive' = FALSE
  /\ DbIdle
  /\ UNCHANGED <<job, listening, bound, routesReady, config, env, inflight, report>>

-----------------------------------------------------------------------------
(* closeApp after disconnectDatabases                                       *)

\* Mutant: the server is closed even after a failed disconnectDatabases.
CloseServerAnyway(c) ==
  /\ HasReturned(c, "disconnecting")
  /\ Collect(c)
  /\ job' = [job EXCEPT ![c].wait = "draining", ![c].closed = listening]
  /\ listening' = FALSE
  /\ bound' = IF listening THEN NoConfig ELSE bound
  /\ UNCHANGED <<routesReady, config, env, inflight, report, alive>>

\* Mutant: state.listening is reset, the handle is not closed.
CloseServerKeepingHandle(c) ==
  /\ HasReturned(c, "disconnecting") /\ pass[c].ok
  /\ Collect(c)
  /\ job' = [job EXCEPT ![c].wait = "draining", ![c].closed = listening]
  /\ listening' = FALSE
  /\ UNCHANGED <<bound, routesReady, config, env, inflight, report, alive>>

\* Mutant: the handle is closed, state.listening is not reset.
CloseServerKeepingFlag(c) ==
  /\ HasReturned(c, "disconnecting") /\ pass[c].ok
  /\ Collect(c)
  /\ job' = [job EXCEPT ![c].wait = "draining", ![c].closed = listening]
  /\ bound' = NoConfig
  /\ UNCHANGED <<listening, routesReady, config, env, inflight, report, alive>>

\* httpServer.close(): its result is kept until the drain is over.
CloseServer(c) ==
  /\ HasReturned(c, "disconnecting") /\ pass[c].ok
  /\ Collect(c)
  /\ job' = [job EXCEPT ![c].wait = "draining", ![c].closed = listening]
  /\ listening' = FALSE
  /\ bound' = IF listening THEN NoConfig ELSE bound
  /\ UNCHANGED <<routesReady, config, env, inflight, report, alive>>

Draining(c) ==
  alive /\ job[c].wait = "draining" /\ connectionsAmount = 0

\* awaitUncompletedRequests returned and the server had not been listening.
CloseFoundNoServer(c) ==
  /\ Draining(c) /\ ~job[c].closed
  /\ job' = [job EXCEPT ![c] = NoJob]
  /\ report' = "closeFailed"
  /\ DbIdle /\ ServerSame
  /\ UNCHANGED <<config, env, inflight, alive>>

Closed(c) ==
  /\ Draining(c) /\ job[c].closed /\ job[c].next = NoConfig
  /\ job' = [job EXCEPT ![c] = NoJob]
  /\ report' = "closeOk"
  /\ DbIdle /\ ServerSame
  /\ UNCHANGED <<config, env, inflight, alive>>

\* Mutant: reloadApp goes on with a config that loadConfig rejected.
LoadAndStartAnyway(c) ==
  /\ Draining(c) /\ job[c].closed /\ job[c].next \in Config
  /\ config' = job[c].next
  /\ StartPass(c, "connect")
  /\ job' = [job EXCEPT ![c] = [NoJob EXCEPT !.wait = "connecting"]]
  /\ report' = "closeOk"
  /\ ServerSame
  /\ UNCHANGED <<env, inflight, alive>>

\* reloadApp goes on: loadAppContainer accepts the config, then startApp.
LoadAndStart(c) ==
  /\ Draining(c) /\ job[c].closed /\ job[c].next \in ValidConfig
  /\ config' = job[c].next
  /\ StartPass(c, "connect")
  /\ job' = [job EXCEPT ![c] = [NoJob EXCEPT !.wait = "connecting"]]
  /\ report' = "closeOk"
  /\ ServerSame
  /\ UNCHANGED <<env, inflight, alive>>

\* Mutant: a rejected config is loaded again and again.
LoadFailsForever(c) ==
  /\ Draining(c) /\ job[c].closed /\ job[c].next \in Config \ ValidConfig
  /\ UNCHANGED vars

\* reloadApp ends here when loadConfig rejects: the application stays closed.
LoadFails(c) ==
  /\ Draining(c) /\ job[c].closed /\ job[c].next \in Config \ ValidConfig
  /\ job' = [job EXCEPT ![c] = NoJob]
  /\ report' = "closeOk"
  /\ DbIdle /\ ServerSame
  /\ UNCHANGED <<config, env, inflight, alive>>

-----------------------------------------------------------------------------
(* The database pass of a caller, and HTTP requests                         *)

PassMoves(c) ==
  /\ alive /\ PassProceeds(c)
  /\ UNCHANGED appVars

PassFails(c) ==
  /\ alive /\ DriverFails(c)
  /\ UNCHANGED appVars

RequestArrives ==
  /\ alive /\ listening /\ inflight < MaxRequests
  /\ inflight' = inflight + 1
  /\ DbIdle
  /\ UNCHANGED <<job, listening, bound, routesReady, config, env, report, alive>>

RequestAnswered ==
  /\ alive /\ inflight > 0
  /\ inflight' = inflight - 1
  /\ DbIdle
  /\ UNCHANGED <<job, listening, bound, routesReady, config, env, report, alive>>

Crashed == ~alive /\ UNCHANGED vars

-----------------------------------------------------------------------------

Begin(c) ==
  startApp(c) \/ closeApp(c) \/ \E new \in Config : reloadApp(c, new)

Continue(c) ==
  \/ DatabasesFailed(c) \/ Listen(c) \/ ListenRefused(c) \/ ListenCallback(c)
  \/ CloseServer(c) \/ CloseFoundNoServer(c) \/ Closed(c)
  \/ LoadAndStart(c) \/ LoadFails(c) \/ PassMoves(c)

Misfortune(c) == PassFails(c) \/ ListenError(c)

AppNext ==
  \/ \E c \in Caller : Begin(c) \/ Continue(c) \/ Misfortune(c)
  \/ RequestArrives \/ RequestAnswered
  \/ Crashed

\* Every await of an operation in progress settles, for better or worse.
AppFairness == \A c \in Caller : WF_vars(Continue(c) \/ Misfortune(c))

AppSpec == AppInit /\ [][AppNext]_vars /\ AppFairness

-----------------------------------------------------------------------------
(* Properties                                                               *)

\* Between operations the server listens exactly when the last database is
\* connected, whatever mixture of failures led here: the reason why the calls
\* below find the server in the state they expect.
ServerTracksLastDb ==
  NobodyBusy => (listening <=> Connected(N))

\* The databases decide whether the server is up, so neither call on the server
\* can fail: startApp ignores the result of httpServer.listen() and may, for when
\* it gets there the server never holds a port already; and closeApp never
\* reports SERVER_NOT_LISTENING_ERROR, for once every database is disconnected
\* there is a listening server to close.
ServerIsWhereExpected ==
  \A c \in Caller :
    /\ HasReturned(c, "connecting") /\ pass[c].ok => bound = NoConfig
    /\ HasReturned(c, "disconnecting") /\ pass[c].ok => listening

\* A startApp (alone or inside reloadApp) that reported success left every
\* database connected, the manager's flag set and the server listening; a
\* closeApp that reported success left no database and no server.
ReportIsTruthful ==
  NobodyBusy /\ alive =>
    /\ report = "startOk" => listening /\ \A i \in Db : HasInstance(i)
    /\ report = "closeOk" => ~listening /\ \A i \in Db : ~Connected(i)

\* A server that accepts requests has its routes, and listens on the port of
\* the config in the container, through any number of reloads.
ServesCurrentConfig ==
  listening => routesReady /\ bound = config

\* Even when operations overlap, state.listening is never true of a server that
\* holds no port or has no routes.
ListeningFlagIsTruthful ==
  listening => bound # NoConfig /\ routesReady

\* Every startApp, closeApp and reloadApp returns, unless the process dies.
EveryOperationReturns ==
  \A c \in Caller : job[c].wait # "idle" ~> (job[c].wait = "idle" \/ ~alive)

\* Seen by a caller, startApp and closeApp are the atomic operations of
\* AppLifecycle: a pass in progress has not happened yet.
Undone(i) == \E c \in Caller :
  \/ job[c].wait = "binding"
  \/ job[c].wait = "connecting" /\ i < pass[c].at

NotYetClosed(i) == \E c \in Caller :
  \/ job[c].wait = "draining"
  \/ job[c].wait = "disconnecting" /\ i < pass[c].at

Lifecycle == INSTANCE AppLifecycle WITH
  up <- {i \in Db : (Connected(i) /\ ~Undone(i)) \/ NotYetClosed(i)},
  serving <- listening \/ \E c \in Caller : job[c].wait = "draining",
  report <- IF alive THEN report ELSE "crashed"

RefinesLifecycle == Lifecycle!Spec

\* awaitUncompletedRequests reports 'server awaiting uncompleted requests
\* finished' (server.lib.ts:52) when no request is left uncompleted.
DrainedWhenFinished ==
  [][\A c \in Caller : job[c].wait = "draining" /\ job'[c].wait # "draining"
                         => inflight = 0]_vars
=============================================================================
