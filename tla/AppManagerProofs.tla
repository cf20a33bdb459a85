-------------------------- MODULE AppManagerProofs --------------------------
(***************************************************************************)
(* AppManager proved for every sequence of databases and every set of       *)
(* configurations and callers.                                              *)
(***************************************************************************)
EXTENDS AppRecovery, DbManagerProofs

AppTypeInv == AppTypeOK /\ DbTypeInv

\* Everything of AppTypeOK that is not about the databases.
AppOwnTypeOK ==
  /\ job \in [Caller -> Job]
  /\ listening \in BOOLEAN /\ routesReady \in BOOLEAN /\ alive \in BOOLEAN
  /\ bound \in Config \cup {NoConfig}
  /\ config \in ValidConfig /\ env \in Config
  /\ inflight \in 0..MaxRequests
  /\ report \in Report

LEMMA AppTypeSplit ==
  /\ AppTypeInv <=> DbTypeInv /\ AppOwnTypeOK
  /\ AppTypeInv' <=> DbTypeInv' /\ AppOwnTypeOK'
BY DEF AppTypeInv, AppTypeOK, AppOwnTypeOK, DbTypeInv

\* The values the actions give to a job.
LEMMA JobValues ==
  /\ NoJob \in Job
  /\ \A j \in Job : /\ [j EXCEPT !.wait = "connecting"] \in Job
                    /\ [j EXCEPT !.wait = "disconnecting"] \in Job
                    /\ [j EXCEPT !.wait = "binding"] \in Job
                    /\ \A b \in BOOLEAN :
                         [j EXCEPT !.wait = "draining", !.closed = b] \in Job
  /\ \A new \in Config : [NoJob EXCEPT !.wait = "disconnecting", !.next = new] \in Job
BY DEF Job, NoJob

\* What a step does to the databases, whichever operation makes it.
DbStep(c) ==
  \/ \E op \in LifecycleOperation : StartPass(c, op)
  \/ PassStep(c) \/ Collect(c) \/ UNCHANGED dbVars

LEMMA DbStepKeepsType ==
  ASSUME DbTypeInv, NEW c \in Caller, DbStep(c) PROVE DbTypeInv'
<1>1. CASE \E op \in LifecycleOperation : StartPass(c, op)
  BY <1>1, TypeBegin DEF LifecycleOperation, Operation
<1>2. CASE UNCHANGED dbVars
  BY <1>2, DbTypeInvPreserved
<1>. QED
  BY <1>1, <1>2, TypePassStep DEF DbStep

LEMMA BeginType ==
  ASSUME AppTypeInv, NEW c \in Caller, Begin(c) PROVE DbStep(c) /\ AppOwnTypeOK'
<1>. USE AppTypeSplit, JobValues DEF AppOwnTypeOK
<1>1. CASE startApp(c)
  BY <1>1 DEF startApp, ServerSame, DbStep, LifecycleOperation
<1>2. CASE closeApp(c)
  BY <1>2 DEF closeApp, ServerSame, DbStep, LifecycleOperation
<1>3. ASSUME NEW new \in Config, reloadApp(c, new) PROVE DbStep(c) /\ AppOwnTypeOK'
  <2>1. [NoJob EXCEPT !.wait = "disconnecting", !.next = new] \in Job
    BY JobValues
  <2>2. job' \in [Caller -> Job] /\ env' \in Config
    BY <1>3, <2>1 DEF reloadApp
  <2>3. UNCHANGED <<listening, bound, routesReady, config, inflight, report, alive>>
    BY <1>3 DEF reloadApp, ServerSame
  <2>4. DbStep(c)
    BY <1>3 DEF reloadApp, DbStep, LifecycleOperation
  <2>. QED
    BY <2>2, <2>3, <2>4
<1>. QED
  BY <1>1, <1>2, <1>3 DEF Begin

LEMMA ContinueType ==
  ASSUME AppTypeInv, NEW c \in Caller, Continue(c) PROVE DbStep(c) /\ AppOwnTypeOK'
<1>. USE AppTypeSplit, JobValues DEF AppOwnTypeOK
<1>1. CASE DatabasesFailed(c)
  BY <1>1 DEF DatabasesFailed, ServerSame, DbStep, Report
<1>2. CASE Listen(c)
  BY <1>2, ConfigAssumption DEF Listen, initializeRoutes, DbStep
<1>3. CASE ListenRefused(c)
  BY <1>3 DEF ListenRefused, initializeRoutes, DbStep, Report
<1>4. CASE ListenCallback(c)
  BY <1>4 DEF ListenCallback, DbIdle, DbStep, Report
<1>5. CASE CloseServer(c)
  BY <1>5 DEF CloseServer, DbStep
<1>6. CASE CloseFoundNoServer(c) \/ Closed(c) \/ LoadFails(c)
  BY <1>6 DEF CloseFoundNoServer, Closed, LoadFails, DbIdle, ServerSame, DbStep, Report
<1>7. CASE LoadAndStart(c)
  BY <1>7 DEF LoadAndStart, ServerSame, DbStep, LifecycleOperation, Report
<1>8. CASE PassMoves(c)
  BY <1>8 DEF PassMoves, appVars, DbStep, PassStep
<1>. QED
  BY <1>1, <1>2, <1>3, <1>4, <1>5, <1>6, <1>7, <1>8 DEF Continue

LEMMA MisfortuneType ==
  ASSUME AppTypeInv, NEW c \in Caller, Misfortune(c) PROVE DbStep(c) /\ AppOwnTypeOK'
<1>. USE AppTypeSplit DEF AppOwnTypeOK
<1>1. CASE PassFails(c)
  BY <1>1 DEF PassFails, appVars, DbStep, PassStep
<1>2. CASE ListenError(c)
  BY <1>2 DEF ListenError, DbIdle, DbStep
<1>. QED
  BY <1>1, <1>2 DEF Misfortune

\* Steps that are nobody's: HTTP requests, and the process after its death.
LEMMA RequestsType ==
  ASSUME AppTypeInv, RequestArrives \/ RequestAnswered \/ Crashed \/ UNCHANGED vars
  PROVE  UNCHANGED dbVars /\ AppOwnTypeOK'
<1>. USE AppTypeSplit, RequestsAssumption DEF AppOwnTypeOK
<1>1. CASE RequestArrives
  BY <1>1 DEF RequestArrives, DbIdle
<1>2. CASE RequestAnswered
  BY <1>2 DEF RequestAnswered, DbIdle
<1>3. CASE Crashed \/ UNCHANGED vars
  BY <1>3 DEF Crashed, vars, appVars
<1>. QED
  BY <1>1, <1>2, <1>3

LEMMA AppTypeInvPreserved == AppTypeInv /\ [AppNext]_vars => AppTypeInv'
<1>. SUFFICES ASSUME AppTypeInv, [AppNext]_vars PROVE AppTypeInv'
  OBVIOUS
<1>1. ASSUME NEW c \in Caller, Begin(c) \/ Continue(c) \/ Misfortune(c) PROVE AppTypeInv'
  BY <1>1, BeginType, ContinueType, MisfortuneType, DbStepKeepsType, AppTypeSplit
<1>2. CASE RequestArrives \/ RequestAnswered \/ Crashed \/ UNCHANGED vars
  BY <1>2, RequestsType, DbTypeInvPreserved, AppTypeSplit
<1>. QED
  BY <1>1, <1>2 DEF AppNext

LEMMA AppTypeInvInitially == AppInit => AppTypeInv
<1>. SUFFICES ASSUME AppInit PROVE AppTypeInv
  OBVIOUS
<1>1. AppOwnTypeOK
  <2>1. job \in [Caller -> Job]
    BY JobValues DEF AppInit
  <2>2. InitialConfig \in ValidConfig /\ InitialConfig \in Config /\ 0 \in 0..MaxRequests
    BY ConfigAssumption, RequestsAssumption
  <2>. QED
    BY <2>1, <2>2 DEF AppInit, AppOwnTypeOK, Report
<1>2. DbTypeInv
  BY DbTypeInvInitially DEF AppInit
<1>. QED
  BY <1>1, <1>2, AppTypeSplit

\* The application manager keeps the types of its state, with or without
\* overlapping operations.
THEOREM AppTypeCorrect == AppSpec => []AppTypeOK
<1>1. AppTypeInv => AppTypeOK
  BY DEF AppTypeInv
<1>. QED
  BY <1>1, AppTypeInvInitially, AppTypeInvPreserved, PTL DEF AppSpec

-----------------------------------------------------------------------------
(* One operation at a time: where the server is at each of its stages       *)

Resting(c) == pass[c].op = "none" /\ pass[c].phase = "idle"

OneJob ==
  \A c, d \in Caller : job[c].wait # "idle" /\ job[d].wait # "idle" => c = d

\* The last database answers for the server, but for the moment between the end
\* of a pass and the call on the server that follows it.
StageOf(c) ==
  /\ job[c].wait \in {"idle", "binding", "draining"} => Resting(c)
  /\ job[c].wait = "connecting" =>
       pass[c].op = "connect" /\ (listening <=> Connected(N) /\ pass[c].at \in Db)
  /\ job[c].wait = "disconnecting" =>
       pass[c].op = "disconnect" /\ (listening <=> Connected(N) \/ pass[c].at \notin Db)
  /\ job[c].wait = "binding" => ~listening /\ \A i \in Db : HasInstance(i)
  /\ job[c].wait = "draining" =>
       ~listening /\ job[c].closed /\ \A i \in Db : ~Connected(i)

\* The handle has the port of the current config, or none.
HandleHeld ==
  IF listening \/ \E c \in Caller : job[c].wait = "binding"
    THEN bound = config /\ routesReady
    ELSE bound = NoConfig

SerialAppInv ==
  /\ AppTypeInv /\ SerialInv /\ OneJob /\ HandleHeld
  /\ \A c \in Caller : StageOf(c) /\ Outcome(pass[c], connected)
  /\ ServerTracksLastDb /\ ReportIsTruthful

\* With one operation at a time its caller is the only one to look at.
Alone(c) == \A d \in Caller \ {c} : job[d].wait = "idle"

LEMMA BusyIsAlone ==
  ASSUME SerialAppInv, NEW c \in Caller, job[c].wait # "idle" \/ NobodyBusy PROVE Alone(c)
BY DEF SerialAppInv, OneJob, NobodyBusy, Alone

LEMMA SoleMover ==
  ASSUME SerialAppInv, AppTypeInv', SerialInv', NEW c \in Caller, Alone(c),
         \A d \in Caller \ {c} : job'[d] = job[d] /\ SamePlace(d),
         Outcome(pass'[c], connected'), StageOf(c)',
         IF listening' \/ job'[c].wait = "binding"
           THEN bound' = config' /\ routesReady' ELSE bound' = NoConfig,
         job'[c].wait = "idle" =>
           /\ listening' <=> Connected(N)'
           /\ alive' => /\ report' = "startOk" => listening' /\ \A i \in Db : HasInstance(i)'
                        /\ report' = "closeOk" => ~listening' /\ \A i \in Db : ~Connected(i)'
  PROVE  SerialAppInv'
<1>1. \A d \in Caller \ {c} : job'[d].wait = "idle"
  BY DEF Alone
<1>2. OneJob' /\ HandleHeld'
  BY <1>1 DEF OneJob, HandleHeld
<1>3. \A d \in Caller \ {c} : StageOf(d)' /\ Outcome(pass'[d], connected')
  BY <1>1 DEF StageOf, Outcome, SamePlace, SerialAppInv, Alone, Resting
<1>4. NobodyBusy' <=> job'[c].wait = "idle"
  BY <1>1 DEF NobodyBusy
<1>5. ServerTracksLastDb' /\ ReportIsTruthful'
  BY <1>4 DEF ServerTracksLastDb, ReportIsTruthful
<1>. QED
  BY <1>2, <1>3, <1>5 DEF SerialAppInv

\* A caller whose database pass starts, is taken up or stays as it is.
LEMMA PassOfOne ==
  ASSUME SerialAppInv, NEW c \in Caller, Alone(c),
         \/ \E op \in LifecycleOperation :
              StartPass(c, op) /\ job[c].wait \notin {"connecting", "disconnecting"}
         \/ Collect(c) \/ UNCHANGED dbVars
  PROVE  /\ SerialInv' /\ UNCHANGED <<client, connected>>
         /\ Outcome(pass'[c], connected')
         /\ \A d \in Caller \ {c} : SamePlace(d)
<1>1. SerialInv /\ pass \in [Caller -> Pass]
  BY DEF SerialAppInv, SerialInv, DbTypeInv, DbTypeOK
<1>2. CASE \E op \in LifecycleOperation :
             StartPass(c, op) /\ job[c].wait \notin {"connecting", "disconnecting"}
  <2>1. PICK op \in LifecycleOperation : StartPass(c, op)
    BY <1>2
  <2>2. LifecycleIdle
    <3>1. job[c] \in Job
      BY DEF SerialAppInv, AppTypeInv, AppTypeOK
    <3>2. \A d \in Caller : job[d].wait \in {"idle", "binding", "draining"}
      BY <1>2, <3>1 DEF Alone, Job
    <3>. QED
      BY <3>2 DEF SerialAppInv, StageOf, Resting, LifecycleIdle, LifecycleOperation
  <2>3. SerialInv'
    BY <1>1, <2>1, <2>2, SerialBegin DEF LifecycleOperation, Operation
  <2>4. pass'[c].phase = "call"
    BY <1>1, <2>1 DEF StartPass, NoPass
  <2>. QED
    BY <1>1, <2>1, <2>3, <2>4 DEF StartPass, Outcome, SamePlace
<1>3. CASE Collect(c)
  <2>1. SerialInv'
    BY <1>1, <1>3, SerialPassStep
  <2>. QED
    BY <1>1, <1>3, <2>1 DEF Collect, Outcome, SamePlace, NoPass
<1>4. CASE UNCHANGED dbVars
  <2>1. SerialInv'
    BY <1>1, <1>4 DEF dbVars, SerialInv, DbTypeInv, DbTypeOK, AwaitsDriver, AtMostOne,
                      FindingsHold, PassOwnsItsPrefix, Awaiting, Connected
  <2>. QED
    BY <1>4, <2>1 DEF dbVars, SamePlace, SerialAppInv
<1>. QED
  BY <1>2, <1>3, <1>4

\* The passes a start of one leaves behind.
LEMMA StartedPass ==
  ASSUME SerialAppInv, NEW c \in Caller, NEW op, StartPass(c, op)
  PROVE  pass'[c].op = op /\ pass'[c].at = 1 /\ 1 \in Db
BY NIsPositive DEF StartPass, NoPass, SerialAppInv, SerialInv, DbTypeInv, DbTypeOK, Db

LEMMA CollectedPass ==
  ASSUME SerialAppInv, NEW c \in Caller, Collect(c)
  PROVE  pass'[c].op = "none" /\ pass'[c].phase = "idle"
BY DEF Collect, NoPass, SerialAppInv, SerialInv, DbTypeInv, DbTypeOK

LEMMA SerialAppBegin ==
  ASSUME ~Overlap, SerialAppInv, AppTypeInv', NEW c \in Caller, Begin(c)
  PROVE  SerialAppInv'
<1>1. NobodyBusy /\ Alone(c) /\ job \in [Caller -> Job]
  BY BusyIsAlone DEF Begin, startApp, closeApp, reloadApp, MayBegin, SerialAppInv,
                     AppTypeInv, AppTypeOK
<1>2. /\ UNCHANGED <<listening, bound, routesReady, config>>
      /\ \A d \in Caller \ {c} : job'[d] = job[d]
      /\ \/ StartPass(c, "connect") /\ job'[c].wait = "connecting"
         \/ StartPass(c, "disconnect") /\ job'[c].wait = "disconnecting"
  <2>1. CASE startApp(c) \/ closeApp(c)
    BY <1>1, <2>1 DEF startApp, closeApp, ServerSame, Job
  <2>2. ASSUME NEW new \in Config, reloadApp(c, new)
        PROVE  /\ UNCHANGED <<listening, bound, routesReady, config>>
               /\ \A d \in Caller \ {c} : job'[d] = job[d]
               /\ StartPass(c, "disconnect") /\ job'[c].wait = "disconnecting"
    <3>1. job' = [job EXCEPT ![c] = [NoJob EXCEPT !.wait = "disconnecting", !.next = new]]
      BY <2>2 DEF reloadApp
    <3>2. [NoJob EXCEPT !.wait = "disconnecting", !.next = new].wait = "disconnecting"
      BY DEF NoJob
    <3>. QED
      BY <1>1, <2>2, <3>1, <3>2 DEF reloadApp, ServerSame
  <2>. QED
    BY <2>1, <2>2 DEF Begin
<1>3. /\ SerialInv' /\ UNCHANGED <<client, connected>>
      /\ Outcome(pass'[c], connected') /\ \A d \in Caller \ {c} : SamePlace(d)
  BY <1>1, <1>2, PassOfOne DEF NobodyBusy, LifecycleOperation
<1>4. StageOf(c)'
  <2>1. listening <=> Connected(N)
    BY <1>1 DEF SerialAppInv, ServerTracksLastDb
  <2>. QED
    BY <1>2, <1>3, <2>1, StartedPass DEF StageOf, Connected
<1>5. IF listening' \/ job'[c].wait = "binding"
        THEN bound' = config' /\ routesReady' ELSE bound' = NoConfig
  BY <1>1, <1>2 DEF SerialAppInv, HandleHeld, NobodyBusy
<1>. QED
  BY <1>1, <1>2, <1>3, <1>4, <1>5, SoleMover

LEMMA SerialAppPass ==
  ASSUME SerialAppInv, AppTypeInv', NEW c \in Caller, PassStep(c), UNCHANGED appVars
  PROVE  SerialAppInv'
<1>1. pass[c].phase \in {"call", "await"} /\ job \in [Caller -> Job]
  BY DEF PassStep, PassProceeds, DriverFails, RefuseCall, SkipMigration, EndPass, OpenClient,
         ConnectSucceeds, CloseNow, IssueClose, CloseSucceeds, IssueQuery, QuerySucceeds,
         ConnectFails, CloseNowFails, CloseFails, QueryFails, Calling, Awaiting,
         SerialAppInv, AppTypeInv, AppTypeOK
<1>2. /\ job[c].wait \in {"connecting", "disconnecting"}
      /\ job[c].wait = "connecting" => pass[c].op = "connect"
      /\ job[c].wait = "disconnecting" => pass[c].op = "disconnect"
  BY <1>1 DEF SerialAppInv, StageOf, Resting, Job
<1>3. /\ Step(c) /\ Outcome(pass'[c], connected') /\ pass'[c].op = pass[c].op
      /\ \A d \in Caller \ {c} : SamePlace(d)
  BY <1>2, LifecycleStep DEF SerialAppInv, LifecycleOperation
<1>4. SerialInv'
  BY SerialPassStep DEF SerialAppInv
<1>5. N \in Db /\ N + 1 \notin Db /\ \A i \in Db : i # N => i + 1 \in Db
  BY NIsPositive DEF Db
<1>6. \/ /\ (pass'[c].at \in Db <=> pass[c].at \in Db)
         /\ (Connected(N)' <=> Connected(N))
      \/ /\ pass[c].at = N /\ pass'[c].at = N + 1
         /\ Connected(N) <=> pass[c].op = "disconnect"
         /\ Connected(N)' <=> pass[c].op = "connect"
  BY <1>3, <1>5 DEF Step, Connected
<1>7. StageOf(c)'
  BY <1>2, <1>3, <1>5, <1>6 DEF appVars, SerialAppInv, StageOf
<1>8. Alone(c)
  BY <1>2, BusyIsAlone
<1>9. IF listening' \/ job'[c].wait = "binding"
        THEN bound' = config' /\ routesReady' ELSE bound' = NoConfig
  BY <1>2, <1>8 DEF appVars, SerialAppInv, HandleHeld, Alone
<1>. QED
  BY <1>2, <1>3, <1>4, <1>7, <1>8, <1>9, SoleMover DEF appVars

\* What the caller finds when its pass is over.
LEMMA PassOver ==
  ASSUME SerialAppInv, NEW c \in Caller
  PROVE  /\ HasReturned(c, "connecting") /\ pass[c].ok =>
              ~listening /\ bound = NoConfig /\ \A i \in Db : HasInstance(i)
         /\ HasReturned(c, "disconnecting") /\ pass[c].ok =>
              listening /\ \A i \in Db : ~Connected(i)
         /\ (HasReturned(c, "connecting") \/ HasReturned(c, "disconnecting")) /\ ~pass[c].ok =>
              (listening <=> Connected(N))
<1>1. N + 1 \notin Db /\ \A i \in Db : i < N + 1
  BY NIsPositive DEF Db
<1>2. pass[c].at \in Db \/ pass[c].at = N + 1
  BY PassFields, NIsPositive DEF Db, SerialAppInv, SerialInv
<1>3. StageOf(c) /\ Outcome(pass[c], connected)
  BY DEF SerialAppInv
<1>4. pass[c].at = N + 1 =>
        /\ pass[c].op = "connect" => \A i \in Db : Connected(i)
        /\ pass[c].op = "disconnect" => \A i \in Db : ~Connected(i)
  BY <1>1 DEF SerialAppInv, SerialInv, PassOwnsItsPrefix
<1>5. job[c].wait = "connecting" /\ ~listening => bound = NoConfig
  BY BusyIsAlone DEF SerialAppInv, HandleHeld, Alone
<1>. QED
  BY <1>1, <1>2, <1>3, <1>4, <1>5 DEF HasReturned, StageOf, Outcome, HasInstance

LEMMA SerialAppDatabasesDone ==
  ASSUME SerialAppInv, AppTypeInv', NEW c \in Caller,
         DatabasesFailed(c) \/ Listen(c) \/ ListenRefused(c) \/ CloseServer(c)
  PROVE  SerialAppInv'
<1>1. /\ job \in [Caller -> Job] /\ job[c].wait \in {"connecting", "disconnecting"}
      /\ Collect(c)
  BY DEF SerialAppInv, AppTypeInv, AppTypeOK, DatabasesFailed, Listen, ListenRefused,
         CloseServer, HasReturned
<1>2. Alone(c)
  BY <1>1, BusyIsAlone
<1>3. /\ SerialInv' /\ UNCHANGED <<client, connected>>
      /\ Outcome(pass'[c], connected') /\ \A d \in Caller \ {c} : SamePlace(d)
  BY <1>1, <1>2, PassOfOne
<1>4. Resting(c)'
  BY <1>1, CollectedPass DEF Resting
<1>5. CASE DatabasesFailed(c)
  <2>1. /\ \A d \in Caller \ {c} : job'[d] = job[d]
        /\ job'[c].wait = "idle" /\ report' \notin {"startOk", "closeOk"}
        /\ UNCHANGED <<listening, bound, routesReady, config>>
    BY <1>1, <1>5 DEF DatabasesFailed, ServerSame, NoJob
  <2>2. listening <=> Connected(N)
    BY <1>5, PassOver DEF DatabasesFailed
  <2>3. IF listening' \/ job'[c].wait = "binding"
          THEN bound' = config' /\ routesReady' ELSE bound' = NoConfig
    BY <1>1, <1>2, <2>1 DEF SerialAppInv, HandleHeld, Alone
  <2>4. StageOf(c)'
    BY <1>4, <2>1 DEF StageOf
  <2>. QED
    BY <1>2, <1>3, <2>1, <2>2, <2>3, <2>4, SoleMover DEF Connected
<1>6. CASE Listen(c)
  <2>1. /\ \A d \in Caller \ {c} : job'[d] = job[d]
        /\ job'[c].wait = "binding" /\ bound' = config' /\ routesReady' = TRUE
        /\ UNCHANGED listening
    BY <1>1, <1>6 DEF Listen, initializeRoutes, Job
  <2>2. ~listening /\ \A i \in Db : HasInstance(i)
    BY <1>6, PassOver DEF Listen
  <2>3. StageOf(c)'
    BY <1>3, <1>4, <2>1, <2>2 DEF StageOf, HasInstance, Connected
  <2>. QED
    BY <1>2, <1>3, <2>1, <2>3, SoleMover
<1>7. CASE ListenRefused(c)
  BY <1>7, PassOver DEF ListenRefused
<1>8. CASE CloseServer(c)
  <2>1. listening /\ \A i \in Db : ~Connected(i)
    BY <1>8, PassOver DEF CloseServer
  <2>2. /\ \A d \in Caller \ {c} : job'[d] = job[d]
        /\ job'[c].wait = "draining" /\ job'[c].closed
        /\ ~listening' /\ bound' = NoConfig
    BY <1>1, <1>8, <2>1 DEF CloseServer, Job
  <2>3. StageOf(c)'
    BY <1>3, <1>4, <2>1, <2>2 DEF StageOf, Connected
  <2>. QED
    BY <1>2, <1>3, <2>2, <2>3, SoleMover
<1>. QED
  BY <1>5, <1>6, <1>7, <1>8

LEMMA SerialAppServerDone ==
  ASSUME SerialAppInv, AppTypeInv', NEW c \in Caller,
         \/ ListenCallback(c) \/ ListenError(c)
         \/ CloseFoundNoServer(c) \/ Closed(c) \/ LoadAndStart(c) \/ LoadFails(c)
  PROVE  SerialAppInv'
<1>1. /\ job \in [Caller -> Job] /\ job[c].wait \in {"binding", "draining"}
      /\ StageOf(c)
  BY DEF SerialAppInv, AppTypeInv, AppTypeOK, ListenCallback, ListenError,
         CloseFoundNoServer, Closed, LoadAndStart, LoadFails, Draining
<1>2. Alone(c)
  BY <1>1, BusyIsAlone
<1>3. IF listening \/ job[c].wait = "binding"
        THEN bound = config /\ routesReady ELSE bound = NoConfig
  BY <1>1, <1>2 DEF SerialAppInv, HandleHeld, Alone
<1>4. N \in Db
  BY NIsPositive DEF Db
<1>5. CASE UNCHANGED dbVars
  <2>1. /\ SerialInv' /\ UNCHANGED <<client, connected>>
        /\ Outcome(pass'[c], connected') /\ \A d \in Caller \ {c} : SamePlace(d)
    BY <1>2, <1>5, PassOfOne
  <2>2. Resting(c)'
    BY <1>1, <1>5 DEF dbVars, StageOf, Resting
  <2>3. CASE ListenCallback(c)
    <3>1. /\ \A d \in Caller \ {c} : job'[d] = job[d]
          /\ job'[c].wait = "idle" /\ listening' = TRUE /\ report' = "startOk"
          /\ UNCHANGED <<bound, routesReady, config>> /\ job[c].wait = "binding"
      BY <1>1, <2>3 DEF ListenCallback, NoJob
    <3>2. \A i \in Db : HasInstance(i)
      BY <1>1, <3>1 DEF StageOf
    <3>3. Connected(N)' /\ \A i \in Db : HasInstance(i)'
      BY <1>4, <2>1, <3>2 DEF HasInstance, Connected
    <3>4. StageOf(c)'
      BY <2>2, <3>1 DEF StageOf
    <3>. QED
      BY <1>2, <1>3, <2>1, <3>1, <3>3, <3>4, SoleMover
  <2>4. CASE ListenError(c)
    <3>1. UNCHANGED <<job, listening, bound, routesReady, config>> /\ job[c].wait = "binding"
      BY <2>4 DEF ListenError
    <3>2. StageOf(c)'
      BY <1>1, <2>1, <2>2, <3>1 DEF StageOf, HasInstance, Connected
    <3>. QED
      BY <1>2, <1>3, <2>1, <3>1, <3>2, SoleMover
  <2>5. CASE CloseFoundNoServer(c)
    BY <1>1, <2>5 DEF CloseFoundNoServer, Draining, StageOf
  <2>6. CASE Closed(c) \/ LoadFails(c)
    <3>1. /\ \A d \in Caller \ {c} : job'[d] = job[d]
          /\ job'[c].wait = "idle" /\ report' = "closeOk"
          /\ UNCHANGED <<listening, bound, routesReady, config>> /\ job[c].wait = "draining"
      BY <1>1, <2>6 DEF Closed, LoadFails, Draining, ServerSame, NoJob
    <3>2. ~listening /\ \A i \in Db : ~Connected(i)
      BY <1>1, <3>1 DEF StageOf
    <3>3. \A i \in Db : ~Connected(i)'
      BY <2>1, <3>2 DEF Connected
    <3>4. StageOf(c)'
      BY <2>2, <3>1 DEF StageOf
    <3>. QED
      BY <1>2, <1>3, <1>4, <2>1, <3>1, <3>2, <3>3, <3>4, SoleMover
  <2>7. CASE LoadAndStart(c)
    <3>1. pass'[c].phase = "call" /\ pass[c].phase = "idle"
      BY <1>1, <2>7 DEF LoadAndStart, Draining, StageOf, Resting, StartPass, NoPass,
         SerialAppInv, SerialInv, DbTypeInv, DbTypeOK
    <3>. QED
      BY <1>5, <3>1 DEF dbVars
  <2>. QED
    BY <2>3, <2>4, <2>5, <2>6, <2>7
<1>6. CASE LoadAndStart(c)
  <2>1. /\ \A d \in Caller \ {c} : job'[d] = job[d]
        /\ job'[c].wait = "connecting" /\ job[c].wait = "draining"
        /\ UNCHANGED <<listening, bound, routesReady>> /\ StartPass(c, "connect")
    BY <1>1, <1>6 DEF LoadAndStart, Draining, ServerSame, NoJob
  <2>2. /\ SerialInv' /\ UNCHANGED <<client, connected>>
        /\ Outcome(pass'[c], connected') /\ \A d \in Caller \ {c} : SamePlace(d)
    BY <1>2, <2>1, PassOfOne DEF LifecycleOperation
  <2>3. ~listening /\ ~Connected(N) /\ bound = NoConfig
    BY <1>1, <1>3, <1>4, <2>1 DEF StageOf
  <2>4. StageOf(c)'
    BY <2>1, <2>2, <2>3, StartedPass DEF StageOf, Connected
  <2>. QED
    BY <1>2, <2>1, <2>2, <2>3, <2>4, SoleMover
<1>. QED
  BY <1>5, <1>6 DEF ListenCallback, ListenError, CloseFoundNoServer, Closed, LoadFails, DbIdle

LEMMA SerialAppInvPreserved ==
  ASSUME ~Overlap PROVE SerialAppInv /\ [AppNext]_vars => SerialAppInv'
<1>. SUFFICES ASSUME SerialAppInv, [AppNext]_vars PROVE SerialAppInv'
  OBVIOUS
<1>1. AppTypeInv'
  BY AppTypeInvPreserved DEF SerialAppInv
<1>2. ASSUME NEW c \in Caller, Begin(c) PROVE SerialAppInv'
  BY <1>1, <1>2, SerialAppBegin
<1>3. ASSUME NEW c \in Caller, Continue(c) \/ Misfortune(c) PROVE SerialAppInv'
  BY <1>1, <1>3, SerialAppPass, SerialAppDatabasesDone, SerialAppServerDone
     DEF Continue, Misfortune, PassMoves, PassFails, PassStep
<1>4. CASE RequestArrives \/ RequestAnswered \/ Crashed \/ UNCHANGED vars
  <2>1. /\ UNCHANGED dbVars
        /\ UNCHANGED <<job, listening, bound, routesReady, config, report, alive>>
    BY <1>4 DEF RequestArrives, RequestAnswered, Crashed, vars, appVars, DbIdle
  <2>2. SerialInv'
    BY <2>1 DEF dbVars, SerialAppInv, SerialInv, DbTypeInv, DbTypeOK, AwaitsDriver, AtMostOne,
                FindingsHold, PassOwnsItsPrefix, Awaiting, Connected
  <2>3. (\A c \in Caller : StageOf(c) /\ Outcome(pass[c], connected))'
    BY <2>1 DEF dbVars, SerialAppInv, StageOf, Resting, HasInstance, Connected
  <2>4. OneJob' /\ HandleHeld' /\ ServerTracksLastDb' /\ ReportIsTruthful'
    BY <2>1 DEF dbVars, SerialAppInv, OneJob, HandleHeld, ServerTracksLastDb,
                ReportIsTruthful, NobodyBusy, HasInstance, Connected
  <2>. QED
    BY <1>1, <2>2, <2>3, <2>4 DEF SerialAppInv
<1>. QED
  BY <1>2, <1>3, <1>4 DEF AppNext

LEMMA SerialAppInvInitially == AppInit => SerialAppInv
<1>. SUFFICES ASSUME AppInit PROVE SerialAppInv
  OBVIOUS
<1>1. DbInit /\ SerialInv /\ AppTypeInv
  BY SerialInvInitially, AppTypeInvInitially DEF AppInit
<1>2. \A c \in Caller : pass[c] = NoPass /\ job[c] = NoJob
  BY <1>1 DEF AppInit, DbInit
<1>3. \A c \in Caller : pass[c].op = "none" /\ pass[c].phase = "idle" /\ job[c].wait = "idle"
  BY <1>2 DEF NoPass, NoJob
<1>4. ~listening /\ ~Connected(N) /\ report = "none" /\ bound = NoConfig
  BY <1>1, NIsPositive DEF AppInit, DbInit, Connected, Db
<1>5. \A c \in Caller : StageOf(c) /\ Outcome(pass[c], connected)
  BY <1>3 DEF StageOf, Resting, Outcome
<1>6. OneJob /\ HandleHeld /\ ServerTracksLastDb /\ ReportIsTruthful
  BY <1>3, <1>4 DEF OneJob, HandleHeld, ServerTracksLastDb, ReportIsTruthful
<1>. QED
  BY <1>1, <1>5, <1>6 DEF SerialAppInv

\* The strengthening of the invariants below holds of the application manager
\* as long as its operations do not overlap.
THEOREM SerialAppInvHolds == ASSUME ~Overlap PROVE AppSpec => []SerialAppInv
<1>1. SerialAppInv /\ [AppNext]_vars => SerialAppInv'
  BY SerialAppInvPreserved
<1>. QED
  BY <1>1, SerialAppInvInitially, PTL DEF AppSpec

\* One at a time, operations leave the server listening exactly when the last
\* database is connected, whatever failed on the way.
THEOREM ServerFollowsLastDb == ASSUME ~Overlap PROVE AppSpec => []ServerTracksLastDb
<1>1. SerialAppInv => ServerTracksLastDb
  BY DEF SerialAppInv
<1>. QED
  BY <1>1, SerialAppInvHolds, PTL

\* One at a time, no start is refused its port by a server that is still up,
\* and no close finds the server down.
THEOREM ServerFoundWhereExpected == ASSUME ~Overlap PROVE AppSpec => []ServerIsWhereExpected
<1>1. SerialAppInv => ServerIsWhereExpected
  BY PassOver DEF ServerIsWhereExpected
<1>. QED
  BY <1>1, SerialAppInvHolds, PTL

\* One at a time, a reported success of startApp or closeApp is one.
THEOREM ReportsAreTruthful == ASSUME ~Overlap PROVE AppSpec => []ReportIsTruthful
<1>1. SerialAppInv => ReportIsTruthful
  BY DEF SerialAppInv
<1>. QED
  BY <1>1, SerialAppInvHolds, PTL

\* One at a time, reloads never leave the server with an old port.
THEOREM CurrentConfigIsServed == ASSUME ~Overlap PROVE AppSpec => []ServesCurrentConfig
<1>1. SerialAppInv => ServesCurrentConfig
  BY DEF SerialAppInv, HandleHeld, ServesCurrentConfig
<1>. QED
  BY <1>1, SerialAppInvHolds, PTL

-----------------------------------------------------------------------------
(* Overlapping operations                                                   *)

\* Only the caller that bound the port can be waiting for the listen callback,
\* and nobody takes the port away from it: close() finds no listening server.
HandleOutlivesBinding ==
  /\ listening \/ (\E c \in Caller : job[c].wait = "binding") =>
       bound # NoConfig /\ routesReady
  /\ \A c \in Caller : job[c].wait = "binding" => ~listening
  /\ \A c, d \in Caller : job[c].wait = "binding" /\ job[d].wait = "binding" => c = d

BindingInv == AppTypeInv /\ HandleOutlivesBinding

\* Steps that leave the server alone and do not make their caller bind.
LEMMA BindingQuiet ==
  ASSUME BindingInv, AppTypeInv', NEW c \in Caller,
         UNCHANGED <<listening, bound, routesReady>>,
         \A d \in Caller \ {c} : job'[d] = job[d],
         job'[c].wait = "binding" => job[c].wait = "binding"
  PROVE  BindingInv'
BY DEF BindingInv, HandleOutlivesBinding

LEMMA BindingStep ==
  ASSUME BindingInv, AppTypeInv', NEW c \in Caller, Begin(c) \/ Continue(c) \/ Misfortune(c)
  PROVE  BindingInv'
<1>1. job \in [Caller -> Job] /\ config \in Config
  BY ConfigAssumption DEF BindingInv, AppTypeInv, AppTypeOK
<1>2. NoJob.wait = "idle" /\ \A new : [NoJob EXCEPT !.wait = "disconnecting", !.next = new].wait
                                          = "disconnecting"
  BY DEF NoJob
<1>3. [NoJob EXCEPT !.wait = "connecting"].wait = "connecting"
  BY DEF NoJob
<1>4. CASE Begin(c)
  <2>1. /\ UNCHANGED <<listening, bound, routesReady>>
        /\ \A d \in Caller \ {c} : job'[d] = job[d]
        /\ job'[c].wait # "binding"
    BY <1>1, <1>2, <1>4 DEF Begin, startApp, closeApp, reloadApp, ServerSame, Job
  <2>. QED
    BY <2>1, BindingQuiet
<1>5. CASE \/ DatabasesFailed(c) \/ CloseFoundNoServer(c) \/ Closed(c)
           \/ LoadAndStart(c) \/ LoadFails(c)
  <2>1. /\ UNCHANGED <<listening, bound, routesReady>>
        /\ \A d \in Caller \ {c} : job'[d] = job[d]
        /\ job'[c].wait # "binding"
    BY <1>1, <1>2, <1>3, <1>5
       DEF DatabasesFailed, CloseFoundNoServer, Closed, LoadAndStart, LoadFails, ServerSame
  <2>. QED
    BY <2>1, BindingQuiet
<1>6. CASE PassMoves(c) \/ PassFails(c) \/ ListenError(c)
  BY <1>6, BindingQuiet DEF PassMoves, PassFails, ListenError, appVars
<1>7. CASE ListenRefused(c)
  <2>1. /\ UNCHANGED <<listening, bound>> /\ routesReady' = TRUE
        /\ \A d \in Caller \ {c} : job'[d] = job[d]
        /\ job'[c].wait # "binding"
    BY <1>1, <1>2, <1>7 DEF ListenRefused, initializeRoutes
  <2>. QED
    BY <2>1 DEF BindingInv, HandleOutlivesBinding
<1>8. CASE Listen(c)
  <2>1. /\ bound = NoConfig /\ bound' = config /\ routesReady' = TRUE /\ UNCHANGED listening
        /\ \A d \in Caller \ {c} : job'[d] = job[d]
    BY <1>1, <1>8 DEF Listen, initializeRoutes
  <2>2. ~listening /\ \A d \in Caller : job[d].wait # "binding"
    BY <2>1 DEF BindingInv, HandleOutlivesBinding
  <2>3. bound' # NoConfig
    BY <1>1, <2>1, ConfigAssumption
  <2>. QED
    BY <2>1, <2>2, <2>3 DEF BindingInv, HandleOutlivesBinding
<1>9. CASE ListenCallback(c)
  <2>1. /\ listening' = TRUE /\ UNCHANGED <<bound, routesReady>> /\ job[c].wait = "binding"
        /\ \A d \in Caller \ {c} : job'[d] = job[d]
        /\ job'[c].wait = "idle"
    BY <1>1, <1>2, <1>9 DEF ListenCallback
  <2>. QED
    BY <2>1 DEF BindingInv, HandleOutlivesBinding
<1>10. CASE CloseServer(c)
  <2>1. /\ ~listening' /\ bound' = (IF listening THEN NoConfig ELSE bound) /\ UNCHANGED routesReady
        /\ \A d \in Caller \ {c} : job'[d] = job[d]
        /\ job'[c].wait = "draining"
    BY <1>1, <1>10 DEF CloseServer, Job
  <2>. QED
    BY <2>1 DEF BindingInv, HandleOutlivesBinding
<1>. QED
  BY <1>4, <1>5, <1>6, <1>7, <1>8, <1>9, <1>10 DEF Continue, Misfortune

\* Whatever overlaps, state.listening is never true of a server that has lost
\* its port or was never given its routes.
THEOREM FlagIsTruthful == AppSpec => []ListeningFlagIsTruthful
<1>1. AppInit => BindingInv
  <2>. SUFFICES ASSUME AppInit PROVE BindingInv
    OBVIOUS
  <2>1. \A c \in Caller : job[c].wait = "idle"
    BY DEF AppInit, NoJob
  <2>. QED
    BY <2>1, AppTypeInvInitially DEF AppInit, BindingInv, HandleOutlivesBinding
<1>2. BindingInv /\ [AppNext]_vars => BindingInv'
  <2>. SUFFICES ASSUME BindingInv, [AppNext]_vars PROVE BindingInv'
    OBVIOUS
  <2>1. AppTypeInv'
    BY AppTypeInvPreserved DEF BindingInv
  <2>2. CASE RequestArrives \/ RequestAnswered \/ Crashed \/ UNCHANGED vars
    <3>1. UNCHANGED <<job, listening, bound, routesReady>>
      BY <2>2 DEF RequestArrives, RequestAnswered, Crashed, vars, appVars
    <3>. QED
      BY <2>1, <3>1 DEF BindingInv, HandleOutlivesBinding
  <2>. QED
    BY <2>1, <2>2, BindingStep DEF AppNext
<1>3. BindingInv => ListeningFlagIsTruthful
  BY DEF BindingInv, HandleOutlivesBinding, ListeningFlagIsTruthful
<1>. QED
  BY <1>1, <1>2, <1>3, PTL DEF AppSpec

-----------------------------------------------------------------------------
(* One operation at a time, the application manager implements the atomic   *)
(* startApp and closeApp of AppLifecycle.                                   *)


\* What the refinement mapping makes of the state.
Up == {i \in Db : (Connected(i) /\ ~Undone(i)) \/ NotYetClosed(i)}
IsServing == listening \/ \E c \in Caller : job[c].wait = "draining"
Reported == IF alive THEN report ELSE "crashed"

\* A step that the abstract specification does not see.
Unseen == Up' = Up /\ IsServing' = IsServing /\ Reported' = Reported

LEMMA UnseenStutters == ASSUME Unseen PROVE UNCHANGED Lifecycle!vars
BY DEF Unseen, Lifecycle!vars, Up, IsServing, Reported

\* With one operation at a time the mapping looks at its caller alone.
UpSeenBy(c, i) ==
  IF job[c].wait \in {"draining", "disconnecting"}
    THEN Connected(i) \/ job[c].wait = "draining" \/ i < pass[c].at
    ELSE Connected(i) /\ job[c].wait # "binding"
         /\ ~(job[c].wait = "connecting" /\ i < pass[c].at)

LEMMA MappingOfOne ==
  ASSUME NEW c \in Caller, Alone(c)
  PROVE  /\ Up = {i \in Db : UpSeenBy(c, i)}
         /\ IsServing <=> (listening \/ job[c].wait = "draining")
BY DEF Alone, Up, Undone, NotYetClosed, IsServing, UpSeenBy

LEMMA MappingOfOneNext ==
  ASSUME NEW c \in Caller, Alone(c)'
  PROVE  /\ Up' = {i \in Db : UpSeenBy(c, i)'}
         /\ IsServing' <=> (listening' \/ job'[c].wait = "draining")
BY DEF Alone, Up, Undone, NotYetClosed, IsServing, UpSeenBy, Connected

LEMMA BeginIsUnseen ==
  ASSUME ~Overlap, SerialAppInv, NEW c \in Caller, Begin(c) PROVE Unseen
<1>1. NobodyBusy /\ Alone(c) /\ job \in [Caller -> Job]
  BY BusyIsAlone DEF Begin, startApp, closeApp, reloadApp, MayBegin, SerialAppInv,
                     AppTypeInv, AppTypeOK
<1>2. \A d \in Caller \ {c} : job'[d] = job[d]
  BY <1>1 DEF Begin, startApp, closeApp, reloadApp
<1>3. /\ UNCHANGED <<listening, report, alive, client>>
      /\ job'[c].wait \in {"connecting", "disconnecting"}
      /\ \E op : StartPass(c, op)
  <2>1. CASE startApp(c) \/ closeApp(c)
    <3>1. \E op : StartPass(c, op)
      BY <2>1 DEF startApp, closeApp
    <3>2. job'[c].wait \in {"connecting", "disconnecting"}
      BY <1>1, <2>1 DEF startApp, closeApp, Job
    <3>3. UNCHANGED client /\ UNCHANGED <<listening, report, alive>>
      BY <2>1, <3>1 DEF startApp, closeApp, ServerSame, StartPass
    <3>. QED
      BY <3>1, <3>2, <3>3
  <2>2. ASSUME NEW new \in Config, reloadApp(c, new)
        PROVE  /\ UNCHANGED <<listening, report, alive, client>>
               /\ job'[c].wait \in {"connecting", "disconnecting"}
               /\ \E op : StartPass(c, op)
    <3>1. job'[c] = [NoJob EXCEPT !.wait = "disconnecting", !.next = new]
      BY <1>1, <2>2 DEF reloadApp
    <3>2. job'[c].wait = "disconnecting"
      BY <3>1 DEF NoJob
    <3>3. StartPass(c, "disconnect") /\ UNCHANGED <<listening, report, alive, client>>
      BY <2>2 DEF reloadApp, ServerSame, StartPass
    <3>. QED
      BY <3>2, <3>3
  <2>. QED
    BY <2>1, <2>2 DEF Begin
<1>4. pass'[c].at = 1
  BY <1>3, StartedPass
<1>5. Alone(c)' /\ job[c].wait = "idle"
  BY <1>1, <1>2 DEF Alone, NobodyBusy
<1>6. \A i \in Db : ~(i < 1) /\ (UpSeenBy(c, i)' <=> UpSeenBy(c, i))
  <2>1. \A i \in Db : ~(i < 1)
    BY NIsPositive DEF Db
  <2>. QED
    BY <1>3, <1>4, <1>5, <2>1 DEF UpSeenBy, Connected
<1>7. Up' = Up
  BY <1>1, <1>5, <1>6, MappingOfOne, MappingOfOneNext
<1>8. (IsServing' <=> IsServing) /\ IsServing \in BOOLEAN /\ IsServing' \in BOOLEAN
  BY <1>1, <1>3, <1>5, MappingOfOne, MappingOfOneNext DEF IsServing, SerialAppInv, AppTypeInv, AppTypeOK
<1>. QED
  BY <1>3, <1>7, <1>8 DEF Unseen, Reported

LEMMA PassStepIsUnseen ==
  ASSUME SerialAppInv, NEW c \in Caller, PassStep(c), UNCHANGED appVars PROVE Unseen
<1>1. pass[c].phase \in {"call", "await"} /\ job \in [Caller -> Job]
  BY DEF PassStep, PassProceeds, DriverFails, RefuseCall, SkipMigration, EndPass, OpenClient,
         ConnectSucceeds, CloseNow, IssueClose, CloseSucceeds, IssueQuery, QuerySucceeds,
         ConnectFails, CloseNowFails, CloseFails, QueryFails, Calling, Awaiting,
         SerialAppInv, AppTypeInv, AppTypeOK
<1>2. /\ job[c].wait \in {"connecting", "disconnecting"}
      /\ job[c].wait = "connecting" => pass[c].op = "connect"
      /\ job[c].wait = "disconnecting" => pass[c].op = "disconnect"
  BY <1>1 DEF SerialAppInv, StageOf, Resting, Job
<1>3. Step(c)
  BY <1>2, LifecycleStep DEF SerialAppInv, LifecycleOperation
<1>4. Alone(c) /\ Alone(c)' /\ job' = job
  BY <1>2, BusyIsAlone DEF appVars, Alone
<1>5. \A i \in Db : UpSeenBy(c, i)' <=> UpSeenBy(c, i)
  <2>. SUFFICES ASSUME NEW i \in Db PROVE UpSeenBy(c, i)' <=> UpSeenBy(c, i)
    OBVIOUS
  <2>1. CASE pass'[c].at = pass[c].at /\ \A j \in Db : client'[j] # NoClient <=> Connected(j)
    BY <1>4, <2>1 DEF UpSeenBy, Connected
  <2>2. CASE /\ pass[c].at \in Db /\ pass'[c].at = pass[c].at + 1
             /\ Connected(pass[c].at) <=> pass[c].op = "disconnect"
             /\ client'[pass[c].at] # NoClient <=> pass[c].op = "connect"
             /\ \A j \in Db \ {pass[c].at} : client'[j] = client[j]
    <3>1. i \in Nat /\ pass[c].at \in Nat
      BY <2>2, NIsPositive DEF Db
    <3>2. CASE i = pass[c].at
      BY <1>2, <1>4, <2>2, <3>1, <3>2 DEF UpSeenBy, Connected
    <3>3. CASE i # pass[c].at
      <4>1. i < pass'[c].at <=> i < pass[c].at
        BY <2>2, <3>1, <3>3
      <4>. QED
        BY <1>4, <2>2, <3>3, <4>1 DEF UpSeenBy, Connected
    <3>. QED
      BY <3>2, <3>3
  <2>. QED
    BY <1>3, <2>1, <2>2 DEF Step
<1>6. Up' = Up
  BY <1>4, <1>5, MappingOfOne, MappingOfOneNext
<1>. QED
  BY <1>6 DEF Unseen, IsServing, Reported, appVars

\* Steps that no longer wait for a pass, or not yet.
LEMMA WaitingCaller ==
  ASSUME SerialAppInv, NEW c \in Caller, Continue(c) \/ ListenError(c), ~PassMoves(c)
  PROVE  /\ job[c].wait # "idle" /\ Alone(c) /\ alive /\ report # "crashed"
         /\ job \in [Caller -> Job] /\ StageOf(c)
BY BusyIsAlone DEF Continue, DatabasesFailed, Listen, ListenRefused, ListenCallback, ListenError,
   CloseServer, CloseFoundNoServer, Closed, LoadAndStart, LoadFails, HasReturned, Draining,
   SerialAppInv, AppTypeInv, AppTypeOK, Report

LEMMA FailedPassMapsToFailure ==
  ASSUME SerialAppInv, NEW c \in Caller, DatabasesFailed(c) PROVE Lifecycle!Next
<1>1. /\ Alone(c) /\ alive /\ report # "crashed" /\ job \in [Caller -> Job] /\ StageOf(c)
  BY WaitingCaller DEF Continue, DatabasesFailed, PassMoves, PassProceeds, RefuseCall, SkipMigration,
     EndPass, OpenClient, ConnectSucceeds, CloseNow, IssueClose, CloseSucceeds, IssueQuery,
     QuerySucceeds, HasReturned, Calling, Awaiting
<1>2. /\ \A d \in Caller \ {c} : job'[d] = job[d]
      /\ job'[c].wait = "idle" /\ UNCHANGED <<listening, alive, client>>
      /\ report' = IF job[c].wait = "connecting" THEN "startFailed" ELSE "closeFailed"
  BY <1>1 DEF DatabasesFailed, ServerSame, NoJob, Collect
<1>3. Alone(c)' /\ (IsServing' <=> IsServing)
  <2>1. Alone(c)' /\ job[c].wait # "draining"
    BY <1>1, <1>2 DEF Alone, DatabasesFailed, HasReturned
  <2>. QED
    BY <1>1, <1>2, <2>1, MappingOfOne, MappingOfOneNext
<1>4. pass[c].at \in Db /\ pass[c].at \in Nat
  <2>1. pass[c].at \in 1..(N + 1)
    BY PassFields DEF SerialAppInv, SerialInv
  <2>2. pass[c].at # N + 1
    BY DEF DatabasesFailed, HasReturned, SerialAppInv, Outcome
  <2>. QED
    BY <2>1, <2>2, NIsPositive DEF Db
<1>5. Up' = {i \in Db : Connected(i)}
  BY <1>2, <1>3, MappingOfOneNext DEF UpSeenBy, Connected
<1>6. /\ Lifecycle!Front(pass[c].at) = {i \in Db : i < pass[c].at}
  BY <1>4, NIsPositive DEF Lifecycle!Front, Db
<1>7. CASE job[c].wait = "connecting"
  <2>1. \A i \in Db : i < pass[c].at => Connected(i)
    BY <1>1, <1>7 DEF StageOf, SerialAppInv, SerialInv, PassOwnsItsPrefix
  <2>2. Up = {i \in Db : Connected(i) /\ ~(i < pass[c].at)}
    BY <1>1, <1>7, MappingOfOne DEF UpSeenBy
  <2>3. /\ Lifecycle!Front(pass[c].at) \cap Up = {}
        /\ Up' = Up \cup Lifecycle!Front(pass[c].at)
    BY <1>5, <1>6, <2>1, <2>2
  <2>4. Lifecycle!StartFails
    BY <1>1, <1>2, <1>3, <1>4, <1>7, <2>3 DEF Lifecycle!StartFails, Up, IsServing, Db
  <2>. QED
    BY <1>1, <2>4 DEF Lifecycle!Next
<1>8. CASE job[c].wait = "disconnecting"
  <2>1. \A i \in Db : i < pass[c].at => ~Connected(i)
    BY <1>1, <1>8 DEF StageOf, SerialAppInv, SerialInv, PassOwnsItsPrefix
  <2>2. Up = {i \in Db : Connected(i) \/ i < pass[c].at}
    BY <1>1, <1>8, MappingOfOne DEF UpSeenBy
  <2>3. /\ Lifecycle!Front(pass[c].at) \subseteq Up
        /\ Up' = Up \ Lifecycle!Front(pass[c].at)
    BY <1>5, <1>6, <2>1, <2>2
  <2>4. Lifecycle!CloseFails
    BY <1>1, <1>2, <1>3, <1>4, <1>8, <2>3 DEF Lifecycle!CloseFails, Up, IsServing, Db
  <2>. QED
    BY <1>1, <2>4 DEF Lifecycle!Next
<1>. QED
  BY <1>7, <1>8 DEF DatabasesFailed, HasReturned

\* The call on the server that follows a successful pass is not seen yet.
LEMMA ServerCallIsUnseen ==
  ASSUME SerialAppInv, NEW c \in Caller, Listen(c) \/ ListenRefused(c) \/ CloseServer(c)
  PROVE  Unseen
<1>1. /\ Alone(c) /\ job \in [Caller -> Job] /\ StageOf(c) /\ pass[c].phase = "done" /\ pass[c].ok
  BY BusyIsAlone DEF Listen, ListenRefused, CloseServer, HasReturned, SerialAppInv,
     AppTypeInv, AppTypeOK
<1>2. pass[c].at = N + 1 /\ \A i \in Db : i < pass[c].at
  BY <1>1, NIsPositive DEF SerialAppInv, Outcome, Db
<1>3. UNCHANGED <<client, report, alive>>
      /\ \A d \in Caller \ {c} : job'[d] = job[d]
  <2>1. ~ListenRefused(c)
    BY PassOver DEF ListenRefused
  <2>. QED
    BY <1>1, <2>1 DEF Listen, CloseServer, Collect
<1>4. Alone(c)'
  BY <1>1, <1>3 DEF Alone
<1>5. CASE Listen(c)
  <2>1. /\ job[c].wait = "connecting" /\ job'[c].wait = "binding" /\ UNCHANGED listening
    BY <1>1, <1>5 DEF Listen, HasReturned, Job
  <2>2. Up = {} /\ Up' = {}
    BY <1>1, <1>2, <1>4, <2>1, MappingOfOne, MappingOfOneNext DEF UpSeenBy
  <2>3. IsServing' <=> IsServing
    BY <1>1, <1>4, <2>1, MappingOfOne, MappingOfOneNext
  <2>. QED
    BY <1>3, <2>2, <2>3 DEF Unseen, Reported, IsServing
<1>6. CASE CloseServer(c)
  <2>1. listening /\ job[c].wait = "disconnecting" /\ job'[c].wait = "draining"
    BY <1>1, <1>6, PassOver DEF CloseServer, HasReturned, Job
  <2>2. Up = Db /\ Up' = Db
    BY <1>1, <1>2, <1>4, <2>1, MappingOfOne, MappingOfOneNext DEF UpSeenBy
  <2>3. IsServing' <=> IsServing
    BY <1>1, <1>4, <2>1, MappingOfOne, MappingOfOneNext
  <2>. QED
    BY <1>3, <2>2, <2>3 DEF Unseen, Reported, IsServing
<1>. QED
  BY <1>5, <1>6, PassOver DEF ListenRefused

\* The last step of an operation is where it happens for its caller.
LEMMA ServerDoneIsSeen ==
  ASSUME SerialAppInv, NEW c \in Caller,
         \/ ListenCallback(c) \/ ListenError(c)
         \/ CloseFoundNoServer(c) \/ Closed(c) \/ LoadAndStart(c) \/ LoadFails(c)
  PROVE  Lifecycle!Next
<1>1. /\ Alone(c) /\ job \in [Caller -> Job] /\ StageOf(c) /\ alive /\ report # "crashed"
  BY BusyIsAlone DEF ListenCallback, ListenError, CloseFoundNoServer, Closed, LoadAndStart,
     LoadFails, Draining, SerialAppInv, AppTypeInv, AppTypeOK, Report
<1>2. \A d \in Caller \ {c} : job'[d] = job[d]
  BY <1>1 DEF ListenCallback, ListenError, CloseFoundNoServer, Closed, LoadAndStart, LoadFails
<1>3. Alone(c)' /\ UNCHANGED client
  BY <1>1, <1>2 DEF Alone, ListenCallback, ListenError, CloseFoundNoServer, Closed,
     LoadAndStart, LoadFails, DbIdle, dbVars, StartPass
<1>4. CASE ListenCallback(c) \/ ListenError(c)
  <2>1. job[c].wait = "binding" /\ ~listening /\ \A i \in Db : Connected(i)
    BY <1>1, <1>4 DEF ListenCallback, ListenError, StageOf, HasInstance
  <2>2. Up = {} /\ ~IsServing
    BY <1>1, <2>1, MappingOfOne DEF UpSeenBy
  <2>3. CASE ListenCallback(c)
    <3>1. job'[c].wait = "idle" /\ listening' /\ report' = "startOk" /\ alive'
      BY <1>1, <2>3 DEF ListenCallback, NoJob
    <3>2. Up' = 1..N /\ IsServing'
      BY <1>3, <2>1, <3>1, MappingOfOneNext DEF UpSeenBy, Connected, Db
    <3>3. Lifecycle!StartSucceeds
      BY <2>2, <3>1, <3>2 DEF Lifecycle!StartSucceeds, Up, IsServing
    <3>. QED
      BY <1>1, <3>3 DEF Lifecycle!Next
  <2>4. CASE ListenError(c)
    <3>1. UNCHANGED <<job, listening>> /\ ~alive'
      BY <2>4 DEF ListenError
    <3>2. Up' = {} /\ ~IsServing'
      BY <1>3, <2>1, <3>1, MappingOfOneNext DEF UpSeenBy
    <3>3. Lifecycle!Crash
      BY <2>2, <3>1, <3>2 DEF Lifecycle!Crash, Up, IsServing
    <3>. QED
      BY <1>1, <3>3 DEF Lifecycle!Next
  <2>. QED
    BY <1>4, <2>3, <2>4
<1>5. CASE Closed(c) \/ LoadAndStart(c) \/ LoadFails(c)
  <2>1. job[c].wait = "draining" /\ ~listening /\ \A i \in Db : ~Connected(i)
    BY <1>1, <1>5 DEF Closed, LoadAndStart, LoadFails, Draining, StageOf
  <2>2. Up = 1..N /\ IsServing
    BY <1>1, <2>1, MappingOfOne DEF UpSeenBy, Db
  <2>3. /\ ~listening' /\ report' = "closeOk" /\ alive'
        /\ job'[c].wait \in {"idle", "connecting"}
    <3>1. CASE Closed(c) \/ LoadFails(c)
      <4>1. job'[c] = NoJob /\ NoJob.wait = "idle"
        BY <1>1, <3>1 DEF Closed, LoadFails, NoJob
      <4>2. UNCHANGED <<listening, alive>> /\ report' = "closeOk"
        BY <3>1 DEF Closed, LoadFails, ServerSame
      <4>. QED
        BY <1>1, <2>1, <4>1, <4>2
    <3>2. CASE LoadAndStart(c)
      <4>1. job'[c] = [NoJob EXCEPT !.wait = "connecting"]
        BY <1>1, <3>2 DEF LoadAndStart
      <4>2. job'[c].wait = "connecting"
        BY <4>1 DEF NoJob
      <4>. QED
        BY <1>1, <2>1, <3>2, <4>2 DEF LoadAndStart, ServerSame
    <3>. QED
      BY <1>5, <3>1, <3>2
  <2>4. \A i \in Db : ~UpSeenBy(c, i)'
    BY <1>3, <2>1, <2>3 DEF UpSeenBy, Connected
  <2>5. Up' = {} /\ ~IsServing'
    BY <1>3, <2>3, <2>4, MappingOfOneNext
  <2>6. Lifecycle!CloseSucceeds
    BY <2>2, <2>3, <2>5 DEF Lifecycle!CloseSucceeds, Up, IsServing
  <2>. QED
    BY <1>1, <2>6 DEF Lifecycle!Next
<1>6. CASE CloseFoundNoServer(c)
  BY <1>1, <1>6 DEF CloseFoundNoServer, Draining, StageOf
<1>. QED
  BY <1>4, <1>5, <1>6

LEMMA StepsRefine ==
  ASSUME ~Overlap, SerialAppInv, [AppNext]_vars PROVE [Lifecycle!Next]_(Lifecycle!vars)
<1>1. ASSUME NEW c \in Caller, Begin(c) PROVE UNCHANGED Lifecycle!vars
  BY <1>1, BeginIsUnseen, UnseenStutters
<1>2. ASSUME NEW c \in Caller, Continue(c) \/ Misfortune(c)
      PROVE  Lifecycle!Next \/ UNCHANGED Lifecycle!vars
  <2>1. CASE PassMoves(c) \/ PassFails(c)
    BY <2>1, PassStepIsUnseen, UnseenStutters DEF PassMoves, PassFails, PassStep
  <2>2. CASE Listen(c) \/ ListenRefused(c) \/ CloseServer(c)
    BY <2>2, ServerCallIsUnseen, UnseenStutters
  <2>. QED
    BY <1>2, <2>1, <2>2, FailedPassMapsToFailure, ServerDoneIsSeen DEF Continue, Misfortune
<1>3. CASE RequestArrives \/ RequestAnswered \/ Crashed \/ UNCHANGED vars
  <2>1. /\ UNCHANGED dbVars /\ UNCHANGED <<job, listening, report, alive>>
    BY <1>3 DEF RequestArrives, RequestAnswered, Crashed, vars, appVars, DbIdle
  <2>2. Unseen
    BY <2>1 DEF dbVars, Unseen, Up, IsServing, Reported, Undone, NotYetClosed, Connected
  <2>. QED
    BY <2>2, UnseenStutters
<1>. QED
  BY <1>1, <1>2, <1>3 DEF AppNext

\* As long as its operations do not overlap, startApp, closeApp and reloadApp
\* are for their caller the atomic operations of AppLifecycle, through every
\* failure of a driver and of the port.
THEOREM LifecycleIsRefined == ASSUME ~Overlap PROVE AppSpec => RefinesLifecycle
<1>1. AppInit => Lifecycle!Init
  <2>. SUFFICES ASSUME AppInit PROVE Lifecycle!Init
    OBVIOUS
  <2>1. \A i \in Db : ~Connected(i)
    BY DEF AppInit, DbInit, Connected
  <2>2. \A c \in Caller : job[c].wait = "idle"
    BY DEF AppInit, NoJob
  <2>. QED
    BY <2>1, <2>2 DEF AppInit, Lifecycle!Init, Undone, NotYetClosed
<1>2. SerialAppInv /\ [AppNext]_vars => [Lifecycle!Next]_(Lifecycle!vars)
  BY StepsRefine
<1>. QED
  BY <1>1, <1>2, SerialAppInvHolds, PTL DEF AppSpec, RefinesLifecycle, Lifecycle!Spec

-----------------------------------------------------------------------------
(* The database manager inside the application                              *)

\* A caller that awaits no database has no pass, and as long as operations do
\* not overlap there is only one caller that can have one.
ManagedInv ==
  /\ AppTypeInv
  /\ \A c \in Caller : job[c].wait \in {"idle", "binding", "draining"} => Resting(c)
  /\ ~Overlap => OneJob

LEMMA ManagedBegins ==
  ASSUME ManagedInv, NEW c \in Caller, job[c].wait \in {"idle", "binding", "draining"},
         Overlap \/ Alone(c), NEW op \in LifecycleOperation, StartPass(c, op)
  PROVE  BeginPass(c, op)
<1>1. Resting(c)
  BY DEF ManagedInv
<1>2. ~Overlap => LifecycleIdle
  BY <1>1 DEF ManagedInv, Alone, Resting, LifecycleIdle, LifecycleOperation
<1>. QED
  BY <1>1, <1>2 DEF BeginPass, Resting

\* A step of one pass leaves every other pass where it is.
LEMMA OthersStayInPlace ==
  ASSUME DbTypeInv, NEW c \in Caller, PassStep(c), NEW d \in Caller \ {c}
  PROVE  SamePlace(d)
<1>1. pass \in [Caller -> Pass] /\ pass[d] \in Pass
  BY DEF DbTypeInv, DbTypeOK
<1>2. CASE \/ RefuseCall(c) \/ SkipMigration(c) \/ EndPass(c) \/ OpenClient(c)
           \/ IssueClose(c) \/ IssueQuery(c) \/ CloseNowFails(c)
  <2>1. pass'[d] = pass[d]
    BY <1>1, <1>2 DEF RefuseCall, SkipMigration, EndPass, OpenClient, IssueClose,
                      IssueQuery, CloseNowFails
  <2>. QED
    BY <2>1 DEF SamePlace
<1>3. CASE \/ ConnectSucceeds(c) \/ ConnectFails(c) \/ CloseNow(c) \/ CloseSucceeds(c)
           \/ CloseFails(c) \/ QuerySucceeds(c) \/ QueryFails(c)
  <2>1. \E p, i, gone : SetPass(c, p, i, gone)
    BY <1>3, Zenon DEF ConnectSucceeds, ConnectFails, CloseNow, CloseSucceeds, CloseFails,
                       QuerySucceeds, QueryFails
  <2>2. pass'[d] = pass[d] \/ pass'[d] = [pass[d] EXCEPT !.client = ClosedClient]
    BY <2>1 DEF SetPass
  <2>. QED
    BY <1>1, <2>2 DEF SamePlace, Pass
<1>. QED
  BY <1>2, <1>3 DEF PassStep, PassProceeds, DriverFails

LEMMA ManagedMoves ==
  ASSUME ManagedInv, AppTypeInv', NEW c \in Caller,
         \A d \in Caller \ {c} : job'[d] = job[d] /\ SamePlace(d),
         job'[c].wait \in {"idle", "binding", "draining"} => Resting(c)',
         job'[c].wait = "idle" \/ Overlap \/ Alone(c)
  PROVE  ManagedInv'
<1>1. \A d \in Caller \ {c} :
        job'[d].wait \in {"idle", "binding", "draining"} => Resting(d)'
  BY DEF ManagedInv, Resting, SamePlace
<1>2. ~Overlap => OneJob'
  BY DEF ManagedInv, OneJob, Alone
<1>. QED
  BY <1>1, <1>2, FlagAssumption DEF ManagedInv

\* Every step of the application is for the databases a step of the manager
\* that its callers may take.
LEMMA BeginIsManaged ==
  ASSUME ManagedInv, AppTypeInv', NEW c \in Caller, Begin(c)
  PROVE  ManagedInv' /\ DbNext
<1>1. job \in [Caller -> Job] /\ pass \in [Caller -> Pass]
  BY DEF ManagedInv, AppTypeInv, AppTypeOK, DbTypeOK
<1>2. job[c].wait = "idle" /\ (Overlap \/ Alone(c))
  BY DEF Begin, startApp, closeApp, reloadApp, MayBegin, NobodyBusy, Alone
<1>3. PICK op \in LifecycleOperation : StartPass(c, op)
  BY DEF Begin, startApp, closeApp, reloadApp, LifecycleOperation
<1>4. (\A d \in Caller \ {c} : job'[d] = job[d])
      /\ job'[c].wait \in {"connecting", "disconnecting"}
  <2>1. CASE startApp(c) \/ closeApp(c)
    BY <1>1, <2>1 DEF startApp, closeApp, Job
  <2>2. ASSUME NEW new \in Config, reloadApp(c, new)
        PROVE  (\A d \in Caller \ {c} : job'[d] = job[d]) /\ job'[c].wait = "disconnecting"
    <3>1. job' = [job EXCEPT ![c] = [NoJob EXCEPT !.wait = "disconnecting", !.next = new]]
      BY <2>2 DEF reloadApp
    <3>2. [NoJob EXCEPT !.wait = "disconnecting", !.next = new].wait = "disconnecting"
      BY DEF NoJob
    <3>. QED
      BY <1>1, <3>1, <3>2
  <2>. QED
    BY <2>1, <2>2 DEF Begin
<1>5. \A d \in Caller \ {c} : SamePlace(d)
  BY <1>1, <1>3 DEF StartPass, SamePlace
<1>6. ManagedInv'
  BY <1>2, <1>4, <1>5, ManagedMoves
<1>7. BeginPass(c, op)
  BY <1>2, <1>3, ManagedBegins
<1>. QED
  BY <1>6, <1>7 DEF DbNext, Operation, LifecycleOperation

LEMMA ContinueIsManaged ==
  ASSUME ManagedInv, AppTypeInv', NEW c \in Caller, Continue(c) \/ Misfortune(c)
  PROVE  ManagedInv' /\ [DbNext]_dbVars
<1>1. job \in [Caller -> Job] /\ pass \in [Caller -> Pass] /\ job[c] \in Job /\ DbTypeInv
  BY DEF ManagedInv, AppTypeInv, AppTypeOK, DbTypeOK
<1>2. /\ NoJob.wait = "idle" /\ [NoJob EXCEPT !.wait = "connecting"].wait = "connecting"
      /\ NoPass.op = "none" /\ NoPass.phase = "idle"
  BY DEF NoJob, NoPass
<1>3. Overlap \/ job[c].wait = "idle" \/ Alone(c)
  BY DEF ManagedInv, OneJob, Alone
<1>4. CASE \/ DatabasesFailed(c) \/ Listen(c) \/ ListenRefused(c) \/ CloseServer(c)
  <2>1. Collect(c)
    BY <1>4 DEF DatabasesFailed, Listen, ListenRefused, CloseServer
  <2>2. Resting(c)' /\ \A d \in Caller \ {c} : SamePlace(d)
    BY <1>1, <1>2, <2>1 DEF Collect, SamePlace, Resting
  <2>3. job[c].wait # "idle" /\ \A d \in Caller \ {c} : job'[d] = job[d]
    BY <1>1, <1>4 DEF DatabasesFailed, Listen, ListenRefused, CloseServer, HasReturned
  <2>4. ManagedInv'
    BY <1>3, <2>2, <2>3, ManagedMoves
  <2>. QED
    BY <2>1, <2>4 DEF DbNext
<1>5. CASE LoadAndStart(c)
  <2>1. StartPass(c, "connect") /\ job[c].wait = "draining"
    BY <1>5 DEF LoadAndStart, Draining
  <2>2. job' = [job EXCEPT ![c] = [NoJob EXCEPT !.wait = "connecting"]]
    BY <1>5 DEF LoadAndStart
  <2>3. \A d \in Caller \ {c} : SamePlace(d)
    BY <1>1, <2>1 DEF StartPass, SamePlace
  <2>4. job'[c].wait = "connecting" /\ \A d \in Caller \ {c} : job'[d] = job[d]
    BY <1>1, <1>2, <2>2
  <2>5. ManagedInv'
    BY <1>3, <2>1, <2>3, <2>4, ManagedMoves
  <2>6. BeginPass(c, "connect")
    BY <1>3, <2>1, ManagedBegins DEF LifecycleOperation
  <2>. QED
    BY <2>5, <2>6 DEF DbNext, Operation
<1>6. CASE PassMoves(c) \/ PassFails(c)
  <2>1. PassStep(c) /\ UNCHANGED appVars
    BY <1>6 DEF PassMoves, PassFails, PassStep
  <2>2. pass[c].phase \in {"call", "await"}
    BY <2>1 DEF PassStep, PassProceeds, DriverFails, RefuseCall, SkipMigration, EndPass,
                OpenClient, ConnectSucceeds, CloseNow, IssueClose, CloseSucceeds, IssueQuery,
                QuerySucceeds, ConnectFails, CloseNowFails, CloseFails, QueryFails,
                Calling, Awaiting
  <2>3. job[c].wait \notin {"idle", "binding", "draining"} /\ UNCHANGED job
    BY <2>1, <2>2 DEF ManagedInv, Resting, appVars
  <2>4. \A d \in Caller \ {c} : SamePlace(d)
    BY <1>1, <2>1, OthersStayInPlace
  <2>5. ManagedInv'
    BY <1>3, <2>3, <2>4, ManagedMoves
  <2>. QED
    BY <2>1, <2>5 DEF DbNext
<1>7. CASE \/ ListenCallback(c) \/ CloseFoundNoServer(c) \/ Closed(c) \/ LoadFails(c)
           \/ ListenError(c)
  <2>1. UNCHANGED dbVars /\ job[c].wait \in {"binding", "draining"}
    BY <1>7 DEF ListenCallback, CloseFoundNoServer, Closed, LoadFails, ListenError, Draining,
                DbIdle
  <2>2. job' = [job EXCEPT ![c] = NoJob] \/ job' = job
    BY <1>7 DEF ListenCallback, CloseFoundNoServer, Closed, LoadFails, ListenError
  <2>3. Resting(c)' /\ \A d \in Caller : SamePlace(d)
    BY <2>1 DEF ManagedInv, Resting, SamePlace, dbVars
  <2>4. \A d \in Caller \ {c} : job'[d] = job[d]
    BY <1>1, <2>2
  <2>5. ManagedInv'
    BY <1>3, <2>1, <2>3, <2>4, ManagedMoves
  <2>. QED
    BY <2>1, <2>5
<1>. QED
  BY <1>4, <1>5, <1>6, <1>7 DEF Continue, Misfortune

LEMMA AppIsManaged == ManagedInv /\ [AppNext]_vars => ManagedInv' /\ [DbNext]_dbVars
<1>. SUFFICES ASSUME ManagedInv, [AppNext]_vars PROVE ManagedInv' /\ [DbNext]_dbVars
  OBVIOUS
<1>1. AppTypeInv'
  BY AppTypeInvPreserved DEF ManagedInv
<1>2. CASE RequestArrives \/ RequestAnswered \/ Crashed \/ UNCHANGED vars
  <2>1. UNCHANGED dbVars /\ UNCHANGED job
    BY <1>2 DEF RequestArrives, RequestAnswered, Crashed, DbIdle, vars, appVars
  <2>. QED
    BY <1>1, <2>1 DEF ManagedInv, Resting, OneJob, dbVars
<1>. QED
  BY <1>1, <1>2, BeginIsManaged, ContinueIsManaged DEF AppNext

LEMMA ManagedInitially == AppInit => ManagedInv
<1>. SUFFICES ASSUME AppInit PROVE ManagedInv
  OBVIOUS
<1>1. \A c \in Caller : job[c].wait = "idle" /\ Resting(c)
  BY DEF AppInit, DbInit, NoJob, NoPass, Resting
<1>. QED
  BY <1>1, AppTypeInvInitially DEF ManagedInv, OneJob

\* startApp, closeApp and reloadApp use the database manager only in ways that
\* module DbManager allows, a new pass never before the last one of its caller
\* has been collected: what DbManager guarantees, it guarantees here.
THEOREM ManagerIsUsedAsSpecified == AppSpec => DbInit /\ [][DbNext]_dbVars
<1>1. AppInit => DbInit
  BY DEF AppInit
<1>. QED
  BY <1>1, AppIsManaged, ManagedInitially, PTL DEF AppSpec

-----------------------------------------------------------------------------

\* So in the application, too, no connect replaces a client, an open one is lost
\* only where its driver leaves it open, and every walk keeps what it has done,
\* through every failure of an operation.
THEOREM ClientsAreKept ==
  ASSUME ~Overlap PROVE AppSpec => []NoOrphanedClient /\ []PassOwnsItsPrefix /\ ConnectNeverReplaces
<1>1. OrphanInv => NoOrphanedClient /\ PassOwnsItsPrefix /\ SerialInv
  BY DEF OrphanInv, SerialInv
<1>2. SerialInv /\ [DbNext]_dbVars => [KeepsClients]_dbVars
  BY NextKeepsClients
<1>. QED
  BY <1>1, <1>2, SafeInUse, ManagerIsUsedAsSpecified, PTL DEF ConnectNeverReplaces

\* Whether or not operations overlap, getInstance serves once the last database
\* is connected and no pass is in progress.
THEOREM FlagFollowsInApp == AppSpec => []FlagFollowsLastDb
BY FlagInvInitially, FlagInvPreserved, FlagInvFollows, ManagerIsUsedAsSpecified, PTL

-----------------------------------------------------------------------------
(* Beyond repair                                                            *)

\* The server is bound only over databases that are all alive.
BoundIsAlive ==
  \A c \in Caller : job[c].wait = "binding" => \A i \in Db : client[i] # ClosedClient

WedgeInv == SerialAppInv /\ OrphanInv /\ DeadInv /\ BoundIsAlive

LEMMA WedgeListens ==
  ASSUME WedgeInv, SerialAppInv', NEW c \in Caller, job'[c].wait = "binding", UNCHANGED client,
         job[c].wait = "binding" \/ Listen(c)
  PROVE  \A i \in Db : client'[i] # ClosedClient
<1>1. CASE Listen(c)
  <2>1. pass[c].op = "connect" /\ pass[c].at = N + 1
    BY <1>1 DEF Listen, HasReturned, WedgeInv, SerialAppInv, StageOf, Outcome
  <2>2. \A i \in Db : i < pass[c].at
    BY <2>1, NIsPositive DEF Db
  <2>. QED
    BY <2>1, <2>2 DEF WedgeInv, DeadInv, Clean
<1>. QED
  BY <1>1 DEF WedgeInv, BoundIsAlive

LEMMA BoundStaysAlive ==
  ASSUME WedgeInv, SerialAppInv', NEW c \in Caller, Begin(c) \/ Continue(c) \/ Misfortune(c)
  PROVE  BoundIsAlive'
<1>1. job \in [Caller -> Job]
  BY DEF WedgeInv, SerialAppInv, AppTypeInv, AppTypeOK
<1>2. CASE PassMoves(c) \/ PassFails(c)
  <2>1. job'[c].wait \in {"connecting", "disconnecting"}
    <3>1. PassStep(c) /\ UNCHANGED appVars
      BY <1>2 DEF PassMoves, PassFails, PassStep
    <3>2. pass[c].phase \in {"call", "await"}
      BY <3>1 DEF PassStep, PassProceeds, DriverFails, RefuseCall, SkipMigration, EndPass,
                  OpenClient, ConnectSucceeds, CloseNow, IssueClose, CloseSucceeds, IssueQuery,
                  QuerySucceeds, ConnectFails, CloseNowFails, CloseFails, QueryFails,
                  Calling, Awaiting
    <3>. QED
      BY <1>1, <3>1, <3>2 DEF WedgeInv, SerialAppInv, StageOf, Resting, appVars, Job
  <2>. QED
    BY <2>1 DEF SerialAppInv, OneJob, BoundIsAlive
<1>3. CASE ~(PassMoves(c) \/ PassFails(c))
  <2>1. UNCHANGED client
    <3>1. CASE Begin(c) \/ LoadAndStart(c)
      BY <3>1 DEF Begin, startApp, closeApp, reloadApp, LoadAndStart, StartPass
    <3>2. CASE DatabasesFailed(c) \/ Listen(c) \/ ListenRefused(c) \/ CloseServer(c)
      BY <3>2 DEF DatabasesFailed, Listen, ListenRefused, CloseServer, Collect
    <3>3. CASE \/ ListenCallback(c) \/ CloseFoundNoServer(c) \/ Closed(c)
               \/ LoadFails(c) \/ ListenError(c)
      BY <3>3 DEF ListenCallback, CloseFoundNoServer, Closed, LoadFails, ListenError,
                  DbIdle, dbVars
    <3>. QED
      BY <1>3, <3>1, <3>2, <3>3 DEF Continue, Misfortune
  <2>2. CASE Begin(c)
    <3>1. \A new : [NoJob EXCEPT !.wait = "disconnecting", !.next = new].wait = "disconnecting"
      BY DEF NoJob
    <3>2. \/ \E w \in {"connecting", "disconnecting"} : job' = [job EXCEPT ![c].wait = w]
          \/ \E new : job' = [job EXCEPT ![c] = [NoJob EXCEPT !.wait = "disconnecting",
                                                             !.next = new]]
      BY <2>2 DEF Begin, startApp, closeApp, reloadApp
    <3>3. job'[c].wait # "binding"
      BY <1>1, <3>1, <3>2 DEF Job
    <3>4. \A d \in Caller \ {c} : job'[d] = job[d]
      BY <1>1, <3>2
    <3>. QED
      BY <2>1, <3>3, <3>4 DEF BoundIsAlive, WedgeInv
  <2>3. CASE Continue(c) \/ Misfortune(c)
    <3>1. NoJob.wait = "idle" /\ [NoJob EXCEPT !.wait = "connecting"].wait = "connecting"
      BY DEF NoJob
    <3>2. \/ Listen(c) /\ job' = [job EXCEPT ![c].wait = "binding"]
          \/ UNCHANGED job
          \/ job' = [job EXCEPT ![c] = NoJob]
          \/ job' = [job EXCEPT ![c].wait = "draining", ![c].closed = listening]
          \/ job' = [job EXCEPT ![c] = [NoJob EXCEPT !.wait = "connecting"]]
      BY <1>3, <2>3
         DEF Continue, Misfortune, DatabasesFailed, Listen, ListenRefused, ListenCallback,
             CloseServer, CloseFoundNoServer, Closed, LoadAndStart, LoadFails, ListenError
    <3>3. job'[c].wait = "binding" => job[c].wait = "binding" \/ Listen(c)
      <4>1. CASE job' = [job EXCEPT ![c].wait = "draining", ![c].closed = listening]
        BY <1>1, <4>1 DEF Job
      <4>. QED
        BY <1>1, <3>1, <3>2, <4>1
    <3>4. \A d \in Caller \ {c} : job'[d] = job[d]
      BY <1>1, <3>2
    <3>. QED
      BY <2>1, <3>3, <3>4, WedgeListens DEF BoundIsAlive, WedgeInv
  <2>. QED
    BY <2>2, <2>3
<1>. QED
  BY <1>2, <1>3

LEMMA WedgedIsNotServed ==
  ASSUME WedgeInv, NEW c \in Caller, Begin(c) \/ Continue(c) \/ Misfortune(c), Wedged, Serving'
  PROVE  Serving
<1>1. CASE ListenCallback(c)
  BY <1>1 DEF ListenCallback, WedgeInv, BoundIsAlive, Wedged
<1>2. CASE ListenRefused(c)
  BY <1>2, PassOver DEF ListenRefused, ServerIsWhereExpected, WedgeInv
<1>3. CASE \/ Begin(c) \/ DatabasesFailed(c) \/ Listen(c) \/ CloseServer(c)
           \/ CloseFoundNoServer(c) \/ Closed(c) \/ LoadAndStart(c) \/ LoadFails(c)
           \/ PassMoves(c) \/ Misfortune(c)
  BY <1>3 DEF Begin, startApp, closeApp, reloadApp, DatabasesFailed, Listen, CloseServer,
              CloseFoundNoServer, Closed, LoadAndStart, LoadFails, PassMoves, Misfortune,
              PassFails, ListenError, appVars, ServerSame, Serving
<1>. QED
  BY <1>1, <1>2, <1>3 DEF Continue

LEMMA WedgeStep ==
  ASSUME ~Overlap
  PROVE  WedgeInv /\ [AppNext]_vars /\ [DbNext]_dbVars =>
           WedgeInv' /\ (Wedged => Wedged' /\ (Serving' => Serving))
<1>. SUFFICES ASSUME WedgeInv, [AppNext]_vars, [DbNext]_dbVars
              PROVE  WedgeInv' /\ (Wedged => Wedged' /\ (Serving' => Serving))
  OBVIOUS
<1>1. SerialAppInv' /\ OrphanInv' /\ DeadInv' /\ DeadStay
  BY SerialAppInvPreserved, OrphanInvPreserved, DeadInvPreserved DEF WedgeInv
<1>2. Wedged => Wedged'
  BY <1>1 DEF Wedged, DeadStay, Dead
<1>3. CASE \E c \in Caller : Begin(c) \/ Continue(c) \/ Misfortune(c)
  BY <1>1, <1>2, <1>3, BoundStaysAlive, WedgedIsNotServed DEF WedgeInv
<1>4. CASE RequestArrives \/ RequestAnswered \/ Crashed \/ UNCHANGED vars
  <2>1. UNCHANGED <<client, job, listening, report>>
    BY <1>4 DEF RequestArrives, RequestAnswered, Crashed, DbIdle, vars, appVars, dbVars
  <2>. QED
    BY <1>1, <1>2, <2>1 DEF WedgeInv, BoundIsAlive, Serving
<1>. QED
  BY <1>3, <1>4 DEF AppNext

LEMMA WedgeInvInitially == AppInit => WedgeInv
<1>. SUFFICES ASSUME AppInit PROVE WedgeInv
  OBVIOUS
<1>1. \A i \in Db : client[i] # ClosedClient
  BY ReferenceAssumption DEF AppInit, DbInit
<1>2. OrphanInv /\ DeadInv
  BY OrphanInvInitially, DeadInvInitially DEF AppInit
<1>. QED
  BY <1>1, <1>2, SerialAppInvInitially DEF WedgeInv, BoundIsAlive

LEMMA WedgeIsForGood == ASSUME ~Overlap PROVE AppInit /\ [][AppNext]_vars => WedgedForGood
<1>1. WedgeInv /\ [AppNext]_vars /\ [DbNext]_dbVars =>
        WedgeInv' /\ [Wedged => Wedged' /\ (Serving' => Serving)]_vars
  BY WedgeStep
<1>. QED
  BY <1>1, WedgeInvInitially, ManagedInitially, AppIsManaged, PTL DEF WedgedForGood

\* As long as operations do not overlap, a redis client that dies inside its own
\* quit() costs the process its databases and its server for good: no sequence
\* of startApp, closeApp and reloadApp gets them back.
THEOREM WedgedIsForGood == ASSUME ~Overlap PROVE AppSpec => WedgedForGood
BY WedgeIsForGood, PTL DEF AppSpec

\* The operator of AppRecovery does nothing to the application that others could
\* not do, so everything above holds while it is being repaired.
THEOREM RecoveryIsOrdinary == RecoverySpec => AppInit /\ [][AppNext]_vars
<1>1. [RecoveryNext]_recoveryVars => [AppNext]_vars
  <2>. SUFFICES ASSUME RecoveryNext PROVE [AppNext]_vars
    BY DEF recoveryVars
  <2>1. ASSUME NEW c \in Caller, RecoveryStep(c) PROVE AppNext
    BY <2>1 DEF RecoveryStep, Operate, AppNext, Begin, Misfortune
  <2>. QED
    BY <2>1 DEF RecoveryNext, Stabilise, AppNext
<1>. QED
  BY <1>1, PTL DEF RecoverySpec, RecoveryInit

\* What repair cannot mend stays broken.
THEOREM RepairIsInVain == ASSUME ~Overlap PROVE RecoverySpec => WedgedForGood
BY RecoveryIsOrdinary, WedgeIsForGood, PTL

=============================================================================
