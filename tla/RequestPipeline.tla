--------------------------- MODULE RequestPipeline ---------------------------
(***************************************************************************)
(* The way of an HTTP request through the express application: the router, *)
(* the middlewares of its route, the validation of createRoute, the        *)
(* handler and what it depends on, and the answer of sendResponse, while   *)
(* the application manager starts, closes and reloads the application.     *)
(* The manager is module AppLifecycle, which module AppManager implements. *)
(***************************************************************************)
EXTENDS Naturals, Sequences

CONSTANTS
  N,         \* number of databases
  Request,   \* HTTP requests
  Stage,     \* the values of APP_STAGE that a reload may bring
  MaxStarts  \* bound: starts that attach the routes

AppStage == {"production", "staging", "testing", "development"}

ASSUME NAssumption == N \in Nat
ASSUME StageAssumption == Stage \subseteq AppStage
ASSUME MaxStartsAssumption == MaxStarts \in Nat

VARIABLES
  up, serving, report,  \* as in AppLifecycle
  stack,                \* layers of the express router, asked from the first on
  stage,                \* APP_STAGE of the config in the container
  request,              \* request[r]: how far r has come
  failures              \* history: the failures r met, in their order

Lifecycle == INSTANCE AppLifecycle

lifecycleVars == <<up, serving, report>>
vars == <<lifecycleVars, stack, stage, request, failures>>

routeList == <<"internalTest1Route", "internalTest2Route",
               "healthCheckGetRoute", "calculateMarketDataRoute">>
Route == {"internalTest1Route", "internalTest2Route",
          "healthCheckGetRoute", "calculateMarketDataRoute"}
Target == Route \cup {"unknown"}

\* Names of errors by the layer that gives them: "Error" whatever a library
\* throws, "instance" DB_NOT_CONNECTED_ERROR of the database manager, "caught"
\* HANDLER_EXECUTION_CAUGHT_ERROR, "conflict" what the route answers with 409.
Failure == {"Error", "instance", "dependency", "caught", "conflict", "handler",
            "route", "validation", "notFound", "unexpected"}

\* The name of any Result: that of a successful one is "Succeed".
Name == Failure \cup {"Succeed"}

(***************************************************************************)
(* "accepted": in the middlewares before the route's handler; "handling":  *)
(* awaits handler.execute; "dependencyFailed", "handlerFailed": its        *)
(* integration or repository, or it itself, has failed.                    *)
(* A Result is its causeList: its own name, then those of its causes.  An  *)
(* answer has the error's name and list; of a success, "none" and <<>>.     *)
(***************************************************************************)
Answer == [status : {200, 400, 404, 409, 500, 503},
           name : Name \cup {"none"}, list : Seq(Name)]
RequestState ==
  [phase : {"none", "accepted", "handling", "dependencyFailed", "handlerFailed", "answered"},
   target : Target, ran : BOOLEAN, result : Seq(Name), answers : Seq(Answer)]

NoRequest == [phase |-> "none", target |-> "unknown", ran |-> FALSE,
              result |-> <<>>, answers |-> <<>>]

PipelineTypeOK ==
  /\ up \subseteq 1..N /\ serving \in BOOLEAN /\ report \in Lifecycle!Report
  /\ stack \in Seq(Route \cup {"notFound"}) /\ stage \in Stage
  /\ request \in [Request -> RequestState]
  /\ failures \in [Request -> Seq(Failure)]

Init ==
  /\ Lifecycle!Init
  /\ stack = <<>> /\ stage \in Stage
  /\ request = [r \in Request |-> NoRequest]
  /\ failures = [r \in Request |-> <<>>]

-----------------------------------------------------------------------------
(* The application manager                                                  *)

\* Mutant: the notFoundMiddleware is attached in front of the routes.
notFoundAttachedFirst == stack' = stack \o <<"notFound">> \o routeList

\* Every start attaches every route again, behind what is there already.
initializeRoutes == stack' = stack \o routeList \o <<"notFound">>

\* startApp got through the databases; binding the port may still kill it.
Start ==
  /\ Len(stack) < MaxStarts * (Len(routeList) + 1)
  /\ report # "crashed"
  /\ Lifecycle!StartSucceeds \/ Lifecycle!Crash
  /\ initializeRoutes
  /\ UNCHANGED <<stage, request, failures>>

StartFailsOrCloses ==
  /\ report # "crashed"
  /\ Lifecycle!StartFails \/ Lifecycle!CloseSucceeds \/ Lifecycle!CloseFails
  /\ UNCHANGED <<stack, stage, request, failures>>

\* loadAppContainer of a reload, between its closeApp and its startApp.
loadAppContainer ==
  /\ report = "closeOk" /\ ~serving
  /\ stage' \in Stage
  /\ UNCHANGED <<lifecycleVars, stack, request, failures>>

-----------------------------------------------------------------------------
(* Results and answers                                                      *)

\* Mutant: the constructor keeps the cause and forgets the causes of the cause.
NewResultOfOne(name, cause) ==
  IF cause = <<>> THEN <<name>> ELSE <<name, cause[1]>>

\* The constructor of Result: cause is the causeList of a Result, <<"Error">>
\* for any other exception and <<>> where none is given.
NewResult(name, cause) == <<name>> \o cause

NameOf(result) == IF result = <<>> THEN "none" ELSE result[1]

\* Production lists no causes; dependencies.config is looked up when sending.
SentList(result) == IF stage = "production" THEN <<>> ELSE result

\* The error's name is sent in every stage.
AnswerOf(status, result) ==
  [status |-> status, name |-> NameOf(result), list |-> SentList(result)]

sendResponse(r, status, result) ==
  request' = [request EXCEPT ![r] =
    [@ EXCEPT !.phase = "answered",
              !.answers = Append(request[r].answers, AnswerOf(status, result))]]

Met(r, names) == failures' = [failures EXCEPT ![r] = @ \o names]

Running == report # "crashed"
In(r, phase) == Running /\ request[r].phase = phase
Targets(r, routes) == request[r].target \in routes

OutsideRequests == UNCHANGED <<lifecycleVars, stack, stage>>

-----------------------------------------------------------------------------
(* The router and the middlewares                                           *)

\* The first layer that matches answers; notFoundMiddleware matches everything.
Dispatched(target) ==
  LET matching == {i \in DOMAIN stack : stack[i] \in {target, "notFound"}}
  IN  stack[CHOOSE i \in matching : \A j \in matching : i <= j]

\* Through the server, on a connection that outlived its close, or from a test
\* that hands the request to the application itself.
Arrive(r, target) ==
  /\ In(r, "none") /\ stack # <<>> /\ Dispatched(target) # "notFound"
  /\ request' = [request EXCEPT ![r] = [@ EXCEPT !.phase = "accepted", !.target = target]]
  /\ UNCHANGED failures /\ OutsideRequests

notFoundMiddleware(r, target) ==
  /\ In(r, "none") /\ stack # <<>> /\ Dispatched(target) = "notFound"
  /\ request' = [request EXCEPT ![r] =
       [@ EXCEPT !.phase = "answered", !.target = target,
                 !.answers = <<AnswerOf(404, NewResult("notFound", <<>>))>>]]
  /\ Met(r, <<"notFound">>)
  /\ OutsideRequests

\* bodyParserMiddleware found no JSON: errorHandlerMiddleware of the route.
BodyMalformed(r) ==
  /\ In(r, "accepted") /\ ~Targets(r, {"healthCheckGetRoute"})
  /\ Met(r, <<"Error", "unexpected">>)
  /\ sendResponse(r, 500, NewResult("unexpected", <<"Error">>))
  /\ OutsideRequests

-----------------------------------------------------------------------------
(* createRoute and createHandler                                            *)

\* Mutant: no return after the answer, the handler runs as well.
RefuseAndGoOn(r) ==
  /\ In(r, "accepted") /\ ~Targets(r, {"healthCheckGetRoute"})
  /\ Met(r, <<"validation">>)
  /\ request' = [request EXCEPT ![r] =
       [@ EXCEPT !.phase = "handling", !.ran = TRUE,
                 !.answers = Append(request[r].answers, AnswerOf(400, <<"validation">>))]]
  /\ OutsideRequests

\* validateRequest: every header of the health check is optional.
Refuse(r) ==
  /\ In(r, "accepted") /\ ~Targets(r, {"healthCheckGetRoute"})
  /\ Met(r, <<"validation">>)
  /\ sendResponse(r, 400, NewResult("validation", <<>>))
  /\ OutsideRequests

Execute(r) ==
  /\ In(r, "accepted")
  /\ request' = [request EXCEPT ![r] = [@ EXCEPT !.phase = "handling", !.ran = TRUE]]
  /\ UNCHANGED failures /\ OutsideRequests

\* A health check without check_handler is answered without its handler.
HealthCheckAtOnce(r) ==
  /\ In(r, "accepted") /\ Targets(r, {"healthCheckGetRoute"})
  /\ sendResponse(r, 200, <<>>)
  /\ UNCHANGED failures /\ OutsideRequests

HandlerSucceeds(r) ==
  /\ In(r, "handling")
  /\ sendResponse(r, 200, <<>>)
  /\ UNCHANGED failures /\ OutsideRequests

HandlerGives(r, result) ==
  request' = [request EXCEPT ![r] = [@ EXCEPT !.phase = "handlerFailed", !.result = result]]

\* What a handler lets through: the failures met, and the causeList of what is
\* thrown.  request() of an endpoint throws a Result; the factory of a repository
\* without an instance makes a plain Error of its Result, by destroyToThrow.
EndpointThrown == [met |-> <<"Error", "dependency">>, list |-> <<"dependency", "Error">>]
RepositoryThrown == [met |-> <<"instance", "dependency">>, list |-> <<"dependency">>]
LibraryThrown == [met |-> <<"Error">>, list |-> <<"Error">>]

Thrown(r) ==
  {EndpointThrown}
    \cup (IF Targets(r, {"internalTest1Route", "internalTest2Route"})
            THEN {RepositoryThrown} ELSE {})
    \cup (IF Targets(r, {"internalTest2Route", "calculateMarketDataRoute"})
            THEN {LibraryThrown} ELSE {})

\* execute of createHandler catches it.
HandlerThrows(r) ==
  /\ In(r, "handling")
  /\ \E thrown \in Thrown(r) :
       /\ Met(r, Append(thrown.met, "caught"))
       /\ HandlerGives(r, NewResult("caught", thrown.list))
  /\ OutsideRequests

\* Of the four handlers only internalTest1Handler looks at its payload: a
\* negative counter.
HandlerRefuses(r) ==
  /\ In(r, "handling") /\ Targets(r, {"internalTest1Route"})
  /\ Met(r, <<"conflict">>)
  /\ HandlerGives(r, NewResult("conflict", <<>>))
  /\ OutsideRequests

\* What a repository or an integration makes its failed Result of: nothing, what
\* its library threw or, in the repository of postgres, the Result that gave it
\* its instance, which has succeeded.
OwnCause == [met |-> <<>>, list |-> <<>>]
LibraryCause == [met |-> <<"Error">>, list |-> <<"Error">>]
InstanceCause == [met |-> <<>>, list |-> <<"Succeed">>]

Causes(r) ==
  {OwnCause, LibraryCause}
    \cup (IF Targets(r, {"internalTest1Route", "internalTest2Route"})
            THEN {InstanceCause} ELSE {})

\* The health check reports the failure and does not fail.
DependencyFails(r) ==
  /\ In(r, "handling") /\ ~Targets(r, {"healthCheckGetRoute"})
  /\ \E cause \in Causes(r) :
       /\ Met(r, Append(cause.met, "dependency"))
       /\ request' = [request EXCEPT ![r] =
            [@ EXCEPT !.phase = "dependencyFailed",
                      !.result = NewResult("dependency", cause.list)]]
  /\ OutsideRequests

\* internalTest2Handler does not hand on the Result that made it fail; only
\* internalTest1Handler has no conflict to tell of a dependency.
HandlerFails(r) ==
  /\ In(r, "dependencyFailed")
  /\ \E name \in IF Targets(r, {"internalTest1Route"}) THEN {"handler"}
                                                       ELSE {"handler", "conflict"} :
       /\ Met(r, <<name>>)
       /\ HandlerGives(r, NewResult(name, IF Targets(r, {"internalTest2Route"})
                                            THEN <<>> ELSE request[r].result))
  /\ OutsideRequests

\* Mutant: the route's switch has no default.
RouteAnswersConflicts(r) ==
  /\ In(r, "handlerFailed") /\ request[r].result[1] = "conflict"
  /\ Met(r, <<"route">>)
  /\ sendResponse(r, 409, NewResult("route", request[r].result))
  /\ OutsideRequests

RouteAnswers(r) ==
  /\ In(r, "handlerFailed") /\ ~Targets(r, {"healthCheckGetRoute"})
  /\ Met(r, <<"route">>)
  /\ sendResponse(r, IF request[r].result[1] = "conflict" THEN 409 ELSE 500,
                  NewResult("route", request[r].result))
  /\ OutsideRequests

\* A failed health check is answered as a success with status 503.
HealthCheckAnswers(r) ==
  /\ In(r, "handlerFailed") /\ Targets(r, {"healthCheckGetRoute"})
  /\ sendResponse(r, 503, <<>>)
  /\ UNCHANGED failures /\ OutsideRequests

-----------------------------------------------------------------------------

RequestStep(r) ==
  \/ BodyMalformed(r) \/ Refuse(r) \/ Execute(r) \/ HealthCheckAtOnce(r)
  \/ HandlerSucceeds(r) \/ HandlerThrows(r) \/ HandlerRefuses(r)
  \/ DependencyFails(r) \/ HandlerFails(r)
  \/ RouteAnswers(r) \/ HealthCheckAnswers(r)

Next ==
  \/ Start \/ StartFailsOrCloses \/ loadAppContainer
  \/ \E r \in Request :
       \/ RequestStep(r)
       \/ \E target \in Target : Arrive(r, target) \/ notFoundMiddleware(r, target)

\* Every call that a request awaits settles.
Fairness == \A r \in Request : WF_vars(RequestStep(r))

Spec == Init /\ [][Next]_vars /\ Fairness

-----------------------------------------------------------------------------
(* Properties                                                               *)

Status(r) == {request[r].answers[i].status : i \in DOMAIN request[r].answers}

\* However often startApp has attached the routes behind the notFoundMiddleware
\* of the start before, a route of the list is never answered with 404, and
\* anything else always is.
KnownRoutesAreFound ==
  \A r \in Request :
    /\ Targets(r, Route) => 404 \notin Status(r)
    /\ request[r].phase = "answered" /\ ~Targets(r, Route) => Status(r) = {404}

\* A request is answered once at most, and the handler never runs for one that
\* the router or the validation refuses.
RefusedIsNotHandled ==
  \A r \in Request :
    /\ Len(request[r].answers) <= 1
    /\ request[r].ran => Status(r) \cap {400, 404} = {}

\* The failures an answer may name: all of them, the last one first, but for
\* the health check, which names none, for internalTest2Handler, whose failure
\* hides what it was caused by, and for the missing instance that a repository
\* is the first to meet.
Latest(names) ==
  LET told == IF names # <<>> /\ names[1] = "instance" THEN Tail(names) ELSE names
  IN  [i \in DOMAIN told |-> told[Len(told) + 1 - i]]
Story(target, names) ==
  CASE target = "healthCheckGetRoute" -> <<>>
    [] target = "internalTest2Route" /\ Len(names) > 1
         /\ Latest(names)[2] \in {"handler", "conflict"} -> SubSeq(Latest(names), 1, 2)
    [] OTHER -> Latest(names)

\* The causeLists that tell it: behind a dependency's own failure there may be
\* the success that postgres hands on as a cause.
Stories(target, names) ==
  LET story == Story(target, names)
  IN  {story} \cup (IF /\ target = "internalTest1Route"
                       /\ names # <<>> /\ names[1] = "dependency"
                      THEN {Append(story, "Succeed")} ELSE {})

LastMet(target, names) ==
  IF target = "healthCheckGetRoute" \/ names = <<>> THEN "none" ELSE names[Len(names)]

\* The answer sent by a step is an error of the failure its request met last, in
\* every stage, and lists every failure that it met on the way, but in
\* production, where it lists none, also when the stage of the application was
\* another one when the request arrived.
AnswersTellTheStory ==
  [][\A r \in Request :
       Len(request'[r].answers) > Len(request[r].answers) =>
         LET answer == request'[r].answers[Len(request'[r].answers)]
         IN  /\ answer.name = LastMet(request'[r].target, failures'[r])
             /\ IF stage = "production" THEN answer.list = <<>>
                ELSE answer.list \in Stories(request'[r].target, failures'[r])]_vars

\* Every request is answered, also one that a closing or reloading application
\* still had in flight, unless the process dies.
EveryRequestIsAnswered ==
  \A r \in Request : request[r].phase # "none" ~> (request[r].phase = "answered" \/ ~Running)
=============================================================================
