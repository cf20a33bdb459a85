------------------------ MODULE RequestPipelineProofs ------------------------
(***************************************************************************)
(* RequestPipeline proved for every number of databases, requests, starts   *)
(* and every set of stages.                                                 *)
(***************************************************************************)
EXTENDS RequestPipeline, SequenceTheorems, TLAPS

-----------------------------------------------------------------------------
(* The router                                                               *)

\* The layers of the first start answer for good: behind them, those of later
\* starts are never asked.
FirstLayers ==
  stack # <<>> =>
    /\ Len(stack) >= 5
    /\ stack[1] = "internalTest1Route" /\ stack[2] = "internalTest2Route"
    /\ stack[3] = "healthCheckGetRoute" /\ stack[4] = "calculateMarketDataRoute"
    /\ stack[5] = "notFound"

StackInv == stack \in Seq(Route \cup {"notFound"}) /\ FirstLayers

LEMMA RouteListIs ==
  /\ routeList \in Seq(Route \cup {"notFound"}) /\ Len(routeList) = 4
  /\ routeList[1] = "internalTest1Route" /\ routeList[2] = "internalTest2Route"
  /\ routeList[3] = "healthCheckGetRoute" /\ routeList[4] = "calculateMarketDataRoute"
  /\ <<"notFound">> \in Seq(Route \cup {"notFound"})
BY DEF routeList, Route

\* What the first layer that matches is.
LEMMA FirstMatch ==
  ASSUME NEW matching \in SUBSET Nat, NEW k \in matching, \A j \in matching : k <= j
  PROVE  (CHOOSE i \in matching : \A j \in matching : i <= j) = k
<1>. DEFINE m == CHOOSE i \in matching : \A j \in matching : i <= j
<1>1. m \in matching /\ \A j \in matching : m <= j
  OBVIOUS
<1>2. m <= k /\ k <= m /\ m \in Nat /\ k \in Nat
  BY <1>1
<1>. QED
  BY <1>2

LEMMA DispatchedIs ==
  ASSUME StackInv, stack # <<>>
  PROVE  /\ \A target \in Route : Dispatched(target) = target
         /\ Dispatched("unknown") = "notFound"
<1>. DEFINE matching(target) == {i \in DOMAIN stack : stack[i] \in {target, "notFound"}}
<1>1. DOMAIN stack = 1..Len(stack) /\ Len(stack) \in Nat /\ Len(stack) >= 5
  BY DEF StackInv, FirstLayers
<1>2. \A target : matching(target) \in SUBSET Nat
  BY <1>1
<1>3. ASSUME NEW target \in Route PROVE Dispatched(target) = target
  <2>1. PICK k \in 1..4 : stack[k] = target
    BY DEF StackInv, FirstLayers, Route
  <2>2. k \in matching(target)
    BY <1>1, <2>1
  <2>3. \A j \in 1..4 : stack[j] = target => j = k
    BY <2>1 DEF StackInv, FirstLayers
  <2>4. \A j \in 1..4 : stack[j] # "notFound"
    BY DEF StackInv, FirstLayers
  <2>5. ASSUME NEW j \in matching(target) PROVE k <= j
    <3>1. j \in Nat /\ j >= 1 /\ stack[j] \in {target, "notFound"}
      BY <1>1, <2>5
    <3>2. CASE j <= 4
      BY <2>1, <2>3, <2>4, <3>1, <3>2
    <3>. QED
      BY <2>1, <3>1, <3>2
  <2>. HIDE DEF matching
  <2>6. (CHOOSE i \in matching(target) : \A j \in matching(target) : i <= j) = k
    BY <1>2, <2>2, <2>5, FirstMatch
  <2>. QED
    BY <2>1, <2>6 DEF Dispatched, matching
<1>4. Dispatched("unknown") = "notFound"
  <2>1. 5 \in matching("unknown")
    BY <1>1 DEF StackInv, FirstLayers
  <2>2. ASSUME NEW j \in matching("unknown") PROVE 5 <= j
    <3>1. j \in Nat /\ j >= 1 /\ stack[j] \in {"unknown", "notFound"}
      BY <1>1, <2>2
    <3>2. CASE j <= 4
      <4>1. j \in 1..4
        BY <3>1, <3>2
      <4>. QED
        BY <3>1, <4>1 DEF StackInv, FirstLayers
    <3>. QED
      BY <3>1, <3>2
  <2>. HIDE DEF matching
  <2>3. (CHOOSE i \in matching("unknown") : \A j \in matching("unknown") : i <= j) = 5
    BY <1>2, <2>1, <2>2, FirstMatch
  <2>. QED
    BY <2>3 DEF Dispatched, matching, StackInv, FirstLayers
<1>. QED
  BY <1>3, <1>4

LEMMA RoutesAttached ==
  ASSUME StackInv, initializeRoutes PROVE StackInv'
<1>. DEFINE once == stack \o routeList
<1>1. stack' = once \o <<"notFound">>
  BY DEF initializeRoutes
<1>2. /\ once \in Seq(Route \cup {"notFound"}) /\ Len(once) = Len(stack) + 4
      /\ \A i \in 1..Len(once) :
           once[i] = IF i <= Len(stack) THEN stack[i] ELSE routeList[i - Len(stack)]
  <2>. DEFINE Layer == Route \cup {"notFound"}
  <2>1. stack \in Seq(Layer) /\ routeList \in Seq(Layer) /\ Len(routeList) = 4
    BY RouteListIs DEF StackInv
  <2>. HIDE DEF Layer
  <2>2. /\ once \in Seq(Layer) /\ Len(once) = Len(stack) + Len(routeList)
        /\ \A i \in 1..(Len(stack) + Len(routeList)) :
             once[i] = IF i <= Len(stack) THEN stack[i] ELSE routeList[i - Len(stack)]
    BY <2>1, ConcatProperties
  <2>. QED
    BY <2>1, <2>2 DEF Layer
<1>. HIDE DEF once
<1>3. /\ stack' \in Seq(Route \cup {"notFound"}) /\ Len(stack') = Len(stack) + 5
      /\ \A i \in 1..Len(stack') : stack'[i] = IF i <= Len(once) THEN once[i] ELSE "notFound"
  BY <1>1, <1>2, RouteListIs
<1>4. CASE stack = <<>>
  <2>1. Len(stack) = 0
    BY <1>4
  <2>. QED
    BY <1>2, <1>3, <2>1, RouteListIs DEF StackInv, FirstLayers
<1>5. CASE stack # <<>>
  <2>1. Len(stack) >= 5 /\ Len(stack) \in Nat
    BY <1>5 DEF StackInv, FirstLayers
  <2>2. \A i \in 1..5 : stack'[i] = stack[i]
    BY <1>2, <1>3, <2>1
  <2>. QED
    BY <1>3, <1>5, <2>1, <2>2 DEF StackInv, FirstLayers
<1>. QED
  BY <1>4, <1>5

-----------------------------------------------------------------------------
(* The requests                                                             *)

\* How a request that has come this far was answered, or that it was not yet.
Consistent(q) ==
  /\ q.phase \in {"none", "accepted"} => ~q.ran
  /\ q.phase \in {"accepted", "handling", "dependencyFailed", "handlerFailed"} =>
       q.target \in Route
  /\ q.phase # "answered" => q.answers = <<>>
  /\ q.phase = "answered" =>
       \E a \in Answer :
         /\ q.answers = <<a>>
         /\ a.status = 404 <=> q.target \notin Route
         /\ q.ran => a.status \notin {400, 404}

PipelineInv ==
  /\ PipelineTypeOK /\ FirstLayers
  /\ \A r \in Request : Consistent(request[r])

LEMMA FailureNames ==
  /\ "Error" \in Failure /\ "instance" \in Failure /\ "dependency" \in Failure
  /\ "caught" \in Failure /\ "conflict" \in Failure /\ "handler" \in Failure
  /\ "route" \in Failure /\ "validation" \in Failure /\ "notFound" \in Failure
  /\ "unexpected" \in Failure /\ "Succeed" \in Name /\ Failure \subseteq Name
BY DEF Failure, Name

LEMMA FailureSequences ==
  /\ <<>> \in Seq(Failure)
  /\ \A a \in Failure : <<a>> \in Seq(Failure)
  /\ \A a, b \in Failure : <<a, b>> \in Seq(Failure)
  /\ \A s, t \in Seq(Failure) : s \o t \in Seq(Failure)
<1>1. \A a, b \in Failure : <<a>> \in Seq(Failure) /\ <<a, b>> \in Seq(Failure)
  OBVIOUS
<1>2. \A s, t \in Seq(Failure) : s \o t \in Seq(Failure)
  BY ConcatProperties
<1>. QED
  BY <1>1, <1>2

LEMMA NameSequences ==
  /\ <<>> \in Seq(Name)
  /\ \A a \in Name : <<a>> \in Seq(Name)
  /\ \A a, b \in Name : <<a, b>> \in Seq(Name)
  /\ \A name \in Failure, cause \in Seq(Name) : NewResult(name, cause) \in Seq(Name)
<1>1. \A a, b \in Name : <<a>> \in Seq(Name) /\ <<a, b>> \in Seq(Name)
  OBVIOUS
<1>2. ASSUME NEW name \in Failure, NEW cause \in Seq(Name) PROVE NewResult(name, cause) \in Seq(Name)
  <2>1. <<name>> \in Seq(Name)
    BY <1>1, FailureNames
  <2>. QED
    BY <2>1, ConcatProperties DEF NewResult
<1>. QED
  BY <1>1, <1>2

LEMMA AnswersAreTyped ==
  ASSUME NEW status \in {200, 400, 404, 409, 500, 503}, NEW result \in Seq(Name)
  PROVE  AnswerOf(status, result) \in Answer /\ AnswerOf(status, result).status = status
<1>1. NameOf(result) \in Name \cup {"none"}
  BY DEF NameOf
<1>2. SentList(result) \in Seq(Name)
  BY NameSequences DEF SentList
<1>. QED
  BY <1>1, <1>2 DEF Answer, AnswerOf

MayMeet(r) == UNCHANGED failures \/ \E names \in Seq(Failure) : Met(r, names)

\* The step of a request r: it becomes q, and r may have met failures.
LEMMA RequestMoves ==
  ASSUME PipelineInv, OutsideRequests, NEW r \in Request, NEW q \in RequestState,
         request' = [request EXCEPT ![r] = q], Consistent(q),
         MayMeet(r)
  PROVE  PipelineInv'
<1>1. request' \in [Request -> RequestState] /\ \A p \in Request : Consistent(request'[p])
  BY DEF PipelineInv, PipelineTypeOK
<1>2. failures' \in [Request -> Seq(Failure)]
  <2>1. ASSUME NEW names \in Seq(Failure), Met(r, names)
        PROVE  failures' \in [Request -> Seq(Failure)]
    <3>1. failures[r] \o names \in Seq(Failure)
      BY FailureSequences DEF PipelineInv, PipelineTypeOK
    <3>. QED
      BY <2>1, <3>1 DEF Met, PipelineInv, PipelineTypeOK
  <2>. QED
    BY <2>1 DEF MayMeet, PipelineInv, PipelineTypeOK
<1>3. PipelineTypeOK' /\ FirstLayers'
  BY <1>1, <1>2 DEF OutsideRequests, lifecycleVars, PipelineInv, PipelineTypeOK, FirstLayers
<1>. QED
  BY <1>1, <1>3 DEF PipelineInv

\* A request that is under way is answered, and nothing else happens.
SendsAnswer(r, status, result) ==
  /\ request[r].phase \in {"accepted", "handling", "handlerFailed"}
  /\ status \in {200, 400, 409, 500, 503}
  /\ status = 400 => ~request[r].ran
  /\ result \in Seq(Name) /\ sendResponse(r, status, result)
  /\ MayMeet(r) /\ OutsideRequests

LEMMA Answered ==
  ASSUME PipelineInv, NEW r \in Request, NEW status, NEW result,
         SendsAnswer(r, status, result)
  PROVE  PipelineInv'
<1>. DEFINE a == AnswerOf(status, result)
            q == [request[r] EXCEPT !.phase = "answered", !.answers = <<a>>]
<1>1. request[r] \in RequestState /\ Consistent(request[r]) /\ request \in [Request -> RequestState]
  BY DEF PipelineInv, PipelineTypeOK
<1>2. a \in Answer /\ a.status = status
  BY AnswersAreTyped DEF SendsAnswer
<1>. HIDE DEF a
<1>3. request[r].answers = <<>> /\ request[r].target \in Route
  BY <1>1 DEF Consistent, SendsAnswer
<1>4. Append(request[r].answers, a) = <<a>> /\ <<a>> \in Seq(Answer)
  BY <1>2, <1>3
<1>5. q \in RequestState
  BY <1>1, <1>4 DEF RequestState
<1>6. Consistent(q)
  <2>1. /\ q.phase = "answered" /\ q.answers = <<a>> /\ q.target = request[r].target
        /\ q.ran = request[r].ran
    BY <1>1 DEF RequestState
  <2>. HIDE DEF q
  <2>. QED
    BY <1>2, <1>3, <2>1 DEF Consistent, SendsAnswer
<1>7. request' = [request EXCEPT ![r] = q]
  <2>. DEFINE answers == Append(request[r].answers, a)
  <2>1. request' = [request EXCEPT ![r] =
                     [request[r] EXCEPT !.phase = "answered", !.answers = answers]]
    BY DEF SendsAnswer, sendResponse, a
  <2>2. answers = <<a>>
    BY <1>4
  <2>. HIDE DEF answers
  <2>. QED
    BY <2>1, <2>2
<1>. HIDE DEF q
<1>. QED
  BY <1>5, <1>6, <1>7, RequestMoves DEF SendsAnswer

LEMMA ArriveStep ==
  ASSUME PipelineInv, NEW r \in Request, NEW target \in Target,
         Arrive(r, target) \/ notFoundMiddleware(r, target)
  PROVE  PipelineInv'
<1>1. request[r] \in RequestState /\ Consistent(request[r]) /\ request \in [Request -> RequestState]
  BY DEF PipelineInv, PipelineTypeOK
<1>2. request[r].phase = "none" /\ request[r].answers = <<>> /\ ~request[r].ran
  BY <1>1 DEF Arrive, notFoundMiddleware, In, Consistent
<1>3. Dispatched(target) = "notFound" <=> target \notin Route
  <2>1. StackInv /\ stack # <<>>
    BY DEF Arrive, notFoundMiddleware, PipelineInv, PipelineTypeOK, StackInv
  <2>. QED
    BY <2>1, DispatchedIs DEF Target, Route
<1>4. CASE Arrive(r, target)
  <2>. DEFINE q == [request[r] EXCEPT !.phase = "accepted", !.target = target]
  <2>1. q \in RequestState /\ request' = [request EXCEPT ![r] = q]
    BY <1>1, <1>4 DEF Arrive, RequestState
  <2>2. /\ q.phase = "accepted" /\ q.target \in Route /\ q.answers = <<>> /\ ~q.ran
    BY <1>1, <1>2, <1>3, <1>4 DEF Arrive, RequestState
  <2>3. Consistent(q)
    BY <2>2 DEF Consistent
  <2>. QED
    BY <1>4, <2>1, <2>3, RequestMoves DEF Arrive, MayMeet
<1>5. CASE notFoundMiddleware(r, target)
  <2>. DEFINE a == AnswerOf(404, NewResult("notFound", <<>>))
              q == [request[r] EXCEPT !.phase = "answered", !.target = target, !.answers = <<a>>]
  <2>1. a \in Answer /\ a.status = 404
    <3>1. NewResult("notFound", <<>>) \in Seq(Name)
      BY FailureNames, NameSequences
    <3>. QED
      BY <3>1, AnswersAreTyped
  <2>2. request' = [request EXCEPT ![r] = q]
    BY <1>5 DEF notFoundMiddleware
  <2>. HIDE DEF a
  <2>3. q \in RequestState
    <3>1. <<a>> \in Seq(Answer)
      BY <2>1
    <3>. QED
      BY <1>1, <3>1 DEF RequestState
  <2>4. /\ q.phase = "answered" /\ q.target \notin Route /\ q.answers = <<a>> /\ ~q.ran
    BY <1>1, <1>2, <1>3, <1>5 DEF notFoundMiddleware, RequestState
  <2>5. Consistent(q)
    BY <2>1, <2>4 DEF Consistent
  <2>6. Met(r, <<"notFound">>) /\ <<"notFound">> \in Seq(Failure) /\ OutsideRequests
    BY <1>5, FailureNames, FailureSequences DEF notFoundMiddleware
  <2>. QED
    BY <2>2, <2>3, <2>5, <2>6, RequestMoves DEF MayMeet
<1>. QED
  BY <1>4, <1>5

\* A request that has come further, and is not answered.
GoesOnWith(r, phase, ran, result) ==
  /\ request[r].phase \in {"accepted", "handling", "dependencyFailed"}
  /\ phase \in {"handling", "dependencyFailed", "handlerFailed"}
  /\ ran \in BOOLEAN /\ result \in Seq(Name)
  /\ request' = [request EXCEPT ![r] =
       [@ EXCEPT !.phase = phase, !.ran = ran, !.result = result]]
  /\ MayMeet(r) /\ OutsideRequests

LEMMA GoesOn ==
  ASSUME PipelineInv, NEW r \in Request, NEW phase, NEW ran, NEW result,
         GoesOnWith(r, phase, ran, result)
  PROVE  PipelineInv'
<1>. DEFINE q == [request[r] EXCEPT !.phase = phase, !.ran = ran, !.result = result]
<1>1. request[r] \in RequestState /\ Consistent(request[r])
  BY DEF PipelineInv, PipelineTypeOK
<1>2. q \in RequestState
  BY <1>1 DEF GoesOnWith, RequestState
<1>3. q.phase = phase /\ q.target = request[r].target /\ q.answers = request[r].answers
  BY <1>1 DEF RequestState
<1>4. request' = [request EXCEPT ![r] = q]
  BY DEF GoesOnWith
<1>. HIDE DEF q
<1>5. Consistent(q)
  BY <1>1, <1>3 DEF Consistent, GoesOnWith
<1>. QED
  BY <1>2, <1>4, <1>5, RequestMoves DEF GoesOnWith

LEMMA UnchangedFields ==
  ASSUME PipelineInv, NEW r \in Request, NEW phase, NEW x
  PROVE  /\ [request[r] EXCEPT !.phase = phase, !.ran = x] =
              [request[r] EXCEPT !.phase = phase, !.ran = x, !.result = request[r].result]
         /\ [request[r] EXCEPT !.phase = phase, !.result = x] =
              [request[r] EXCEPT !.phase = phase, !.ran = request[r].ran, !.result = x]
         /\ request[r].ran \in BOOLEAN /\ request[r].result \in Seq(Name)
<1>1. request[r] \in RequestState
  BY DEF PipelineInv, PipelineTypeOK
<1>. QED
  BY <1>1 DEF RequestState

\* What the handler, or what it depends on, has failed with.
LEMMA FailsWith ==
  ASSUME PipelineInv, OutsideRequests, NEW r \in Request,
         request[r].phase \in {"handling", "dependencyFailed"},
         NEW phase \in {"dependencyFailed", "handlerFailed"}, NEW result \in Seq(Name),
         request' = [request EXCEPT ![r] = [@ EXCEPT !.phase = phase, !.result = result]],
         NEW names \in Seq(Failure), Met(r, names)
  PROVE  PipelineInv'
<1>1. MayMeet(r)
  BY DEF MayMeet
<1>2. request' = [request EXCEPT ![r] =
                    [@ EXCEPT !.phase = phase, !.ran = request[r].ran, !.result = result]]
  BY UnchangedFields
<1>3. GoesOnWith(r, phase, request[r].ran, result)
  BY <1>1, <1>2, UnchangedFields DEF GoesOnWith
<1>. QED
  BY <1>3, GoesOn

LEMMA HandlerStep ==
  ASSUME PipelineInv, NEW r \in Request,
         \/ Execute(r) \/ HandlerThrows(r) \/ HandlerRefuses(r)
         \/ DependencyFails(r) \/ HandlerFails(r)
  PROVE  PipelineInv'
<1>. USE DEF In
<1>1. request[r].result \in Seq(Name)
  BY DEF PipelineInv, PipelineTypeOK, RequestState
<1>2. CASE Execute(r)
  <2>1. GoesOnWith(r, "handling", TRUE, request[r].result)
    BY <1>2, UnchangedFields DEF Execute, GoesOnWith, MayMeet
  <2>. QED
    BY <2>1, GoesOn
<1>3. CASE HandlerThrows(r)
  <2>1. PICK thrown \in Thrown(r) :
          /\ Met(r, Append(thrown.met, "caught"))
          /\ HandlerGives(r, NewResult("caught", thrown.list))
    BY <1>3 DEF HandlerThrows
  <2>2. /\ thrown.met \in Seq(Failure) /\ thrown.list \in Seq(Name) /\ "caught" \in Failure
    <3>1. /\ EndpointThrown.met = <<"Error", "dependency">>
          /\ EndpointThrown.list = <<"dependency", "Error">>
          /\ RepositoryThrown.met = <<"instance", "dependency">>
          /\ RepositoryThrown.list = <<"dependency">>
          /\ LibraryThrown.met = <<"Error">> /\ LibraryThrown.list = <<"Error">>
      BY DEF EndpointThrown, RepositoryThrown, LibraryThrown
    <3>2. thrown \in {EndpointThrown, RepositoryThrown, LibraryThrown}
      BY DEF Thrown
    <3>. QED
      BY <3>1, <3>2, FailureNames, FailureSequences, NameSequences
  <2>3. Append(thrown.met, "caught") \in Seq(Failure)
    BY <2>2, AppendProperties
  <2>4. NewResult("caught", thrown.list) \in Seq(Name)
    BY <2>2, NameSequences
  <2>5. OutsideRequests /\ request[r].phase = "handling"
    BY <1>3 DEF HandlerThrows
  <2>. QED
    BY <2>1, <2>3, <2>4, <2>5, FailsWith DEF HandlerGives
<1>4. CASE HandlerRefuses(r)
  <2>1. <<"conflict">> \in Seq(Failure) /\ NewResult("conflict", <<>>) \in Seq(Name)
    BY FailureNames, FailureSequences, NameSequences
  <2>. QED
    BY <1>4, <2>1, FailsWith DEF HandlerRefuses, HandlerGives
<1>5. CASE DependencyFails(r)
  <2>1. PICK cause \in Causes(r) :
          /\ Met(r, Append(cause.met, "dependency"))
          /\ request' = [request EXCEPT ![r] =
               [@ EXCEPT !.phase = "dependencyFailed",
                         !.result = NewResult("dependency", cause.list)]]
    BY <1>5 DEF DependencyFails
  <2>2. /\ cause.met \in Seq(Failure) /\ cause.list \in Seq(Name)
        /\ "dependency" \in Failure
    <3>1. cause \in {OwnCause, LibraryCause, InstanceCause}
      BY DEF Causes
    <3>2. /\ OwnCause.met = <<>> /\ OwnCause.list = <<>>
          /\ LibraryCause.met = <<"Error">> /\ LibraryCause.list = <<"Error">>
          /\ InstanceCause.met = <<>> /\ InstanceCause.list = <<"Succeed">>
      BY DEF OwnCause, LibraryCause, InstanceCause
    <3>. QED
      BY <3>1, <3>2, FailureNames, FailureSequences, NameSequences
  <2>3. Append(cause.met, "dependency") \in Seq(Failure)
    BY <2>2, AppendProperties
  <2>4. NewResult("dependency", cause.list) \in Seq(Name)
    BY <2>2, NameSequences
  <2>5. OutsideRequests /\ request[r].phase = "handling"
    BY <1>5 DEF DependencyFails
  <2>. QED
    BY <2>1, <2>3, <2>4, <2>5, FailsWith
<1>6. CASE HandlerFails(r)
  <2>1. PICK name \in {"handler", "conflict"} :
          /\ Met(r, <<name>>)
          /\ HandlerGives(r, NewResult(name, IF Targets(r, {"internalTest2Route"})
                                               THEN <<>> ELSE request[r].result))
    BY <1>6 DEF HandlerFails
  <2>2. name \in Failure
    BY FailureNames
  <2>3. NewResult(name, IF Targets(r, {"internalTest2Route"}) THEN <<>> ELSE request[r].result)
          \in Seq(Name)
    BY <1>1, <2>2, NameSequences
  <2>4. <<name>> \in Seq(Failure)
    BY <2>2, FailureSequences
  <2>5. OutsideRequests /\ request[r].phase = "dependencyFailed"
    BY <1>6 DEF HandlerFails
  <2>. DEFINE result == NewResult(name, IF Targets(r, {"internalTest2Route"})
                                          THEN <<>> ELSE request[r].result)
  <2>6. /\ result \in Seq(Name)
        /\ request' = [request EXCEPT ![r] =
                         [@ EXCEPT !.phase = "handlerFailed", !.result = result]]
    BY <2>1, <2>3 DEF HandlerGives
  <2>. HIDE DEF result
  <2>. QED
    BY <2>1, <2>4, <2>5, <2>6, FailsWith
<1>. QED
  BY <1>2, <1>3, <1>4, <1>5, <1>6

LEMMA AnswerStep ==
  ASSUME PipelineInv, NEW r \in Request,
         \/ BodyMalformed(r) \/ Refuse(r) \/ HealthCheckAtOnce(r) \/ HandlerSucceeds(r)
         \/ RouteAnswers(r) \/ HealthCheckAnswers(r)
  PROVE  PipelineInv'
<1>. USE DEF In
<1>1. request[r].result \in Seq(Name) /\ Consistent(request[r])
  BY DEF PipelineInv, PipelineTypeOK, RequestState
<1>2. CASE BodyMalformed(r)
  <2>1. /\ <<"Error", "unexpected">> \in Seq(Failure)
        /\ NewResult("unexpected", <<"Error">>) \in Seq(Name)
    BY FailureNames, FailureSequences, NameSequences
  <2>2. MayMeet(r)
    BY <1>2, <2>1 DEF BodyMalformed, MayMeet
  <2>3. SendsAnswer(r, 500, NewResult("unexpected", <<"Error">>))
    BY <1>2, <2>1, <2>2 DEF BodyMalformed, SendsAnswer
  <2>. QED
    BY <2>3, Answered
<1>3. CASE Refuse(r)
  <2>1. <<"validation">> \in Seq(Failure) /\ NewResult("validation", <<>>) \in Seq(Name)
    BY FailureNames, FailureSequences, NameSequences
  <2>2. ~request[r].ran
    BY <1>1, <1>3 DEF Refuse, Consistent
  <2>3. MayMeet(r)
    BY <1>3, <2>1 DEF Refuse, MayMeet
  <2>4. SendsAnswer(r, 400, NewResult("validation", <<>>))
    BY <1>3, <2>1, <2>2, <2>3 DEF Refuse, SendsAnswer
  <2>. QED
    BY <2>4, Answered
<1>4. CASE HealthCheckAtOnce(r) \/ HandlerSucceeds(r) \/ HealthCheckAnswers(r)
  <2>1. PICK status \in {200, 503} : sendResponse(r, status, <<>>)
    BY <1>4 DEF HealthCheckAtOnce, HandlerSucceeds, HealthCheckAnswers
  <2>2. /\ OutsideRequests /\ UNCHANGED failures
        /\ request[r].phase \in {"accepted", "handling", "handlerFailed"}
    BY <1>4 DEF HealthCheckAtOnce, HandlerSucceeds, HealthCheckAnswers
  <2>3. SendsAnswer(r, status, <<>>)
    BY <2>1, <2>2, NameSequences DEF SendsAnswer, MayMeet
  <2>. QED
    BY <2>3, Answered
<1>5. CASE RouteAnswers(r)
  <2>. DEFINE status == IF request[r].result[1] = "conflict" THEN 409 ELSE 500
  <2>1. status \in {200, 400, 409, 500, 503} /\ status # 400
    OBVIOUS
  <2>2. <<"route">> \in Seq(Failure) /\ NewResult("route", request[r].result) \in Seq(Name)
    BY <1>1, FailureNames, FailureSequences, NameSequences
  <2>3. /\ sendResponse(r, status, NewResult("route", request[r].result)) /\ OutsideRequests
        /\ request[r].phase = "handlerFailed" /\ Met(r, <<"route">>)
    BY <1>5 DEF RouteAnswers
  <2>. HIDE DEF status
  <2>4. MayMeet(r)
    BY <2>2, <2>3 DEF MayMeet
  <2>5. SendsAnswer(r, status, NewResult("route", request[r].result))
    BY <2>1, <2>2, <2>3, <2>4 DEF SendsAnswer
  <2>. QED
    BY <2>5, Answered
<1>. QED
  BY <1>2, <1>3, <1>4, <1>5

LEMMA ManagerStep ==
  ASSUME PipelineInv, Start \/ StartFailsOrCloses \/ loadAppContainer PROVE PipelineInv'
<1>1. UNCHANGED <<request, failures>> /\ StackInv' /\ stage' \in Stage
  <2>1. CASE Start
    BY <2>1, RoutesAttached DEF Start, StackInv, PipelineInv, PipelineTypeOK
  <2>2. CASE StartFailsOrCloses \/ loadAppContainer
    BY <2>2 DEF StartFailsOrCloses, loadAppContainer, StackInv, FirstLayers, PipelineInv,
                PipelineTypeOK
  <2>. QED
    BY <2>1, <2>2
<1>2. up' \subseteq 1..N /\ serving' \in BOOLEAN /\ report' \in Lifecycle!Report
  <2>1. CASE loadAppContainer
    BY <2>1 DEF loadAppContainer, lifecycleVars, PipelineInv, PipelineTypeOK
  <2>2. CASE Lifecycle!StartSucceeds \/ Lifecycle!Crash \/ Lifecycle!CloseSucceeds
    BY <2>2 DEF Lifecycle!StartSucceeds, Lifecycle!Crash, Lifecycle!CloseSucceeds,
                Lifecycle!Report, PipelineInv, PipelineTypeOK
  <2>3. CASE Lifecycle!StartFails \/ Lifecycle!CloseFails
    <3>1. PICK k \in 1..N : up' = up \cup Lifecycle!Front(k) \/ up' = up \ Lifecycle!Front(k)
      BY <2>3 DEF Lifecycle!StartFails, Lifecycle!CloseFails
    <3>2. Lifecycle!Front(k) \subseteq 1..N
      BY NAssumption DEF Lifecycle!Front
    <3>3. up' \subseteq 1..N
      BY <3>1, <3>2 DEF PipelineInv, PipelineTypeOK
    <3>. QED
      BY <2>3, <3>3 DEF Lifecycle!StartFails, Lifecycle!CloseFails, Lifecycle!Report,
                        PipelineInv, PipelineTypeOK
  <2>. QED
    BY <2>1, <2>2, <2>3 DEF Start, StartFailsOrCloses
<1>. QED
  BY <1>1, <1>2 DEF PipelineInv, PipelineTypeOK, StackInv

LEMMA PipelineInvPreserved == PipelineInv /\ [Next]_vars => PipelineInv'
<1>. SUFFICES ASSUME PipelineInv, [Next]_vars PROVE PipelineInv'
  OBVIOUS
<1>1. CASE UNCHANGED vars
  BY <1>1 DEF vars, lifecycleVars, PipelineInv, PipelineTypeOK, FirstLayers
<1>. QED
  BY <1>1, ManagerStep, ArriveStep, HandlerStep, AnswerStep DEF Next, RequestStep

LEMMA PipelineInvInitially == Init => PipelineInv
<1>. SUFFICES ASSUME Init PROVE PipelineInv
  OBVIOUS
<1>1. NoRequest \in RequestState /\ Consistent(NoRequest)
  BY DEF NoRequest, RequestState, Consistent, Target
<1>2. /\ up \subseteq 1..N /\ serving \in BOOLEAN /\ report \in Lifecycle!Report
      /\ stack = <<>> /\ stage \in Stage
  BY DEF Init, Lifecycle!Init, Lifecycle!Report
<1>3. request \in [Request -> RequestState] /\ failures \in [Request -> Seq(Failure)]
  BY <1>1, FailureSequences DEF Init
<1>4. \A r \in Request : Consistent(request[r])
  BY <1>1 DEF Init
<1>. QED
  BY <1>2, <1>3, <1>4 DEF PipelineInv, PipelineTypeOK, FirstLayers

\* What the invariants below rest on.
THEOREM PipelineInvHolds == Spec => []PipelineInv
BY PipelineInvInitially, PipelineInvPreserved, PTL DEF Spec

\* The application, its router and its requests keep the types of their state.
THEOREM PipelineTypeCorrect == Spec => []PipelineTypeOK
<1>1. PipelineInv => PipelineTypeOK
  BY DEF PipelineInv
<1>. QED
  BY <1>1, PipelineInvHolds, PTL

LEMMA StatusIs ==
  ASSUME PipelineInv, NEW r \in Request
  PROVE  \/ request[r].phase # "answered" /\ Len(request[r].answers) = 0 /\ Status(r) = {}
         \/ \E status :
              /\ Len(request[r].answers) = 1 /\ Status(r) = {status}
              /\ status = 404 <=> ~Targets(r, Route)
              /\ request[r].ran => status \notin {400, 404}
<1>1. Consistent(request[r])
  BY DEF PipelineInv
<1>2. CASE request[r].phase # "answered"
  <2>1. request[r].answers = <<>>
    BY <1>1, <1>2 DEF Consistent
  <2>. QED
    BY <1>2, <2>1 DEF Status
<1>3. CASE request[r].phase = "answered"
  <2>1. PICK a \in Answer :
          /\ request[r].answers = <<a>>
          /\ a.status = 404 <=> request[r].target \notin Route
          /\ request[r].ran => a.status \notin {400, 404}
    BY <1>1, <1>3 DEF Consistent
  <2>2. Len(request[r].answers) = 1 /\ Status(r) = {a.status}
    BY <2>1 DEF Status
  <2>. QED
    BY <2>1, <2>2 DEF Targets
<1>. QED
  BY <1>2, <1>3

\* The route of the list that a request names answers it, after any number of
\* starts and reloads, whatever is attached behind the first notFoundMiddleware.
THEOREM RoutesAreFound == Spec => []KnownRoutesAreFound
<1>1. PipelineInv => KnownRoutesAreFound
  BY StatusIs DEF KnownRoutesAreFound, PipelineInv, Consistent
<1>. QED
  BY <1>1, PipelineInvHolds, PTL

\* No request is answered twice, and none runs its handler that the router or
\* the validation has refused.
THEOREM RefusedAreNotHandled == Spec => []RefusedIsNotHandled
<1>1. ASSUME PipelineInv, NEW r \in Request
      PROVE  Len(request[r].answers) <= 1
  <2>1. Len(request[r].answers) = 0 \/ Len(request[r].answers) = 1
    BY <1>1, StatusIs, Zenon
  <2>2. ASSUME NEW n, n = 0 \/ n = 1 PROVE n <= 1
    BY <2>2
  <2>. QED
    BY <2>1, <2>2, Zenon
<1>2. ASSUME PipelineInv, NEW r \in Request, request[r].ran
      PROVE  Status(r) \cap {400, 404} = {}
  BY <1>2, StatusIs
<1>3. PipelineInv => RefusedIsNotHandled
  BY <1>1, <1>2 DEF RefusedIsNotHandled
<1>. QED
  BY <1>3, PipelineInvHolds, PTL

-----------------------------------------------------------------------------
(* Tuples as sequences: a request meets four failures at most.              *)

LEMMA OneAndOne == ASSUME NEW a, NEW b PROVE <<a>> \o <<b>> = <<a, b>>
<1>. DEFINE T == {a, b}
<1>1. <<a>> \in Seq(T) /\ <<b>> \in Seq(T) /\ <<a, b>> \in Seq(T)
  OBVIOUS
<1>2. /\ <<a>> \o <<b>> \in Seq(T) /\ Len(<<a>> \o <<b>>) = 2
      /\ \A i \in 1..2 : (<<a>> \o <<b>>)[i] = <<a, b>>[i]
  BY <1>1, ConcatProperties
<1>. QED
  BY <1>1, <1>2, SeqEqual

LEMMA OneAndTwo == ASSUME NEW a, NEW b, NEW c PROVE <<a>> \o <<b, c>> = <<a, b, c>>
<1>. DEFINE T == {a, b, c}
<1>1. <<a>> \in Seq(T) /\ <<b, c>> \in Seq(T) /\ <<a, b, c>> \in Seq(T)
  OBVIOUS
<1>2. /\ <<a>> \o <<b, c>> \in Seq(T) /\ Len(<<a>> \o <<b, c>>) = 3
      /\ \A i \in 1..3 : (<<a>> \o <<b, c>>)[i] = <<a, b, c>>[i]
  BY <1>1, ConcatProperties
<1>. QED
  BY <1>1, <1>2, SeqEqual

LEMMA OneAndThree == ASSUME NEW a, NEW b, NEW c, NEW d PROVE <<a>> \o <<b, c, d>> = <<a, b, c, d>>
<1>. DEFINE T == {a, b, c, d}
<1>1. <<a>> \in Seq(T) /\ <<b, c, d>> \in Seq(T) /\ <<a, b, c, d>> \in Seq(T)
  OBVIOUS
<1>2. /\ <<a>> \o <<b, c, d>> \in Seq(T) /\ Len(<<a>> \o <<b, c, d>>) = 4
      /\ \A i \in 1..4 : (<<a>> \o <<b, c, d>>)[i] = <<a, b, c, d>>[i]
  BY <1>1, ConcatProperties
<1>. QED
  BY <1>1, <1>2, SeqEqual

LEMMA TwoAndOne == ASSUME NEW a, NEW b, NEW c PROVE <<a, b>> \o <<c>> = <<a, b, c>>
<1>. DEFINE T == {a, b, c}
<1>1. <<a, b>> \in Seq(T) /\ <<c>> \in Seq(T) /\ <<a, b, c>> \in Seq(T)
  OBVIOUS
<1>2. /\ <<a, b>> \o <<c>> \in Seq(T) /\ Len(<<a, b>> \o <<c>>) = 3
      /\ \A i \in 1..3 : (<<a, b>> \o <<c>>)[i] = <<a, b, c>>[i]
  BY <1>1, ConcatProperties
<1>. QED
  BY <1>1, <1>2, SeqEqual

LEMMA ThreeAndOne == ASSUME NEW a, NEW b, NEW c, NEW d PROVE <<a, b, c>> \o <<d>> = <<a, b, c, d>>
<1>. DEFINE T == {a, b, c, d}
<1>1. <<a, b, c>> \in Seq(T) /\ <<d>> \in Seq(T) /\ <<a, b, c, d>> \in Seq(T)
  OBVIOUS
<1>2. /\ <<a, b, c>> \o <<d>> \in Seq(T) /\ Len(<<a, b, c>> \o <<d>>) = 4
      /\ \A i \in 1..4 : (<<a, b, c>> \o <<d>>)[i] = <<a, b, c, d>>[i]
  BY <1>1, ConcatProperties
<1>. QED
  BY <1>1, <1>2, SeqEqual

LEMMA AppendToOne == ASSUME NEW a, NEW b PROVE Append(<<a>>, b) = <<a, b>>
<1>. DEFINE T == {a, b}
<1>1. <<a>> \in Seq(T) /\ <<a, b>> \in Seq(T)
  OBVIOUS
<1>2. /\ Append(<<a>>, b) \in Seq(T) /\ Len(Append(<<a>>, b)) = 2
      /\ \A i \in 1..2 : Append(<<a>>, b)[i] = <<a, b>>[i]
  BY <1>1, AppendProperties
<1>. QED
  BY <1>1, <1>2, SeqEqual

LEMMA AppendToTwo == ASSUME NEW a, NEW b, NEW c PROVE Append(<<a, b>>, c) = <<a, b, c>>
<1>. DEFINE T == {a, b, c}
<1>1. <<a, b>> \in Seq(T) /\ <<a, b, c>> \in Seq(T)
  OBVIOUS
<1>2. /\ Append(<<a, b>>, c) \in Seq(T) /\ Len(Append(<<a, b>>, c)) = 3
      /\ \A i \in 1..3 : Append(<<a, b>>, c)[i] = <<a, b, c>>[i]
  BY <1>1, AppendProperties
<1>. QED
  BY <1>1, <1>2, SeqEqual

LEMMA AppendToThree ==
  ASSUME NEW a, NEW b, NEW c, NEW d PROVE Append(<<a, b, c>>, d) = <<a, b, c, d>>
<1>. DEFINE T == {a, b, c, d}
<1>1. <<a, b, c>> \in Seq(T) /\ <<a, b, c, d>> \in Seq(T)
  OBVIOUS
<1>2. /\ Append(<<a, b, c>>, d) \in Seq(T) /\ Len(Append(<<a, b, c>>, d)) = 4
      /\ \A i \in 1..4 : Append(<<a, b, c>>, d)[i] = <<a, b, c, d>>[i]
  BY <1>1, AppendProperties
<1>. QED
  BY <1>1, <1>2, SeqEqual

LEMMA FrontOfThree == ASSUME NEW a, NEW b, NEW c PROVE SubSeq(<<a, b, c>>, 1, 2) = <<a, b>>
<1>. DEFINE T == {a, b, c}
            s == <<a, b, c>>
<1>1. s \in Seq(T) /\ <<a, b>> \in Seq(T) /\ \A i \in 1..2 : s[i] \in T
  OBVIOUS
<1>2. /\ SubSeq(s, 1, 2) \in Seq(T) /\ Len(SubSeq(s, 1, 2)) = 2
      /\ \A i \in 1..2 : SubSeq(s, 1, 2)[i] = s[i]
  <2>. HIDE DEF s, T
  <2>. QED
    BY <1>1, SubSeqProperties
<1>3. \A i \in 1..2 : SubSeq(s, 1, 2)[i] = <<a, b>>[i]
  BY <1>2
<1>. QED
  BY <1>1, <1>2, <1>3, SeqEqual

LEMMA FrontOfFour == ASSUME NEW a, NEW b, NEW c, NEW d PROVE SubSeq(<<a, b, c, d>>, 1, 2) = <<a, b>>
<1>. DEFINE T == {a, b, c, d}
            s == <<a, b, c, d>>
<1>1. s \in Seq(T) /\ <<a, b>> \in Seq(T) /\ \A i \in 1..2 : s[i] \in T
  OBVIOUS
<1>2. /\ SubSeq(s, 1, 2) \in Seq(T) /\ Len(SubSeq(s, 1, 2)) = 2
      /\ \A i \in 1..2 : SubSeq(s, 1, 2)[i] = s[i]
  <2>. HIDE DEF s, T
  <2>. QED
    BY <1>1, SubSeqProperties
<1>3. \A i \in 1..2 : SubSeq(s, 1, 2)[i] = <<a, b>>[i]
  BY <1>2
<1>. QED
  BY <1>1, <1>2, <1>3, SeqEqual

LEMMA ShortSequences ==
  ASSUME NEW a, NEW b, NEW c
  PROVE  /\ Append(<<>>, a) = <<a>> /\ <<a>> \o <<>> = <<a>> /\ <<>> \o <<a>> = <<a>>
         /\ <<>> \o <<a, b>> = <<a, b>> /\ <<>> \o <<a, b, c>> = <<a, b, c>>
<1>1. Append(<<>>, a) = <<a>> /\ <<a>> \o <<>> = <<a>>
  OBVIOUS
<1>2. /\ <<>> \o <<a>> = <<a>> /\ <<>> \o <<a, b>> = <<a, b>>
      /\ <<>> \o <<a, b, c>> = <<a, b, c>>
  OBVIOUS
<1>. QED
  BY <1>1, <1>2

-----------------------------------------------------------------------------
(* What the answers tell                                                    *)

LEMMA LatestOfNone == Latest(<<>>) = <<>>
BY DEF Latest

LEMMA LatestOfFew ==
  ASSUME NEW a, NEW b, a # "instance"
  PROVE  Latest(<<a>>) = <<a>> /\ Latest(<<a, b>>) = <<b, a>>
<1>1. Latest(<<a>>) = <<a>>
  BY DEF Latest
<1>2. Latest(<<a, b>>) = <<b, a>>
  BY DEF Latest
<1>. QED
  BY <1>1, <1>2

LEMMA LatestOfThree ==
  ASSUME NEW a, NEW b, NEW c, a # "instance" PROVE Latest(<<a, b, c>>) = <<c, b, a>>
BY DEF Latest

LEMMA LatestOfFour ==
  ASSUME NEW a, NEW b, NEW c, NEW d, a # "instance"
  PROVE  Latest(<<a, b, c, d>>) = <<d, c, b, a>>
BY DEF Latest

LEMMA LatestOfInstance ==
  ASSUME NEW b, NEW c, NEW d PROVE Latest(<<"instance", b, c, d>>) = <<d, c, b>>
BY DEF Latest

LEMMA StoryIsLatest ==
  ASSUME NEW target, NEW names, target # "healthCheckGetRoute",
         \/ target # "internalTest2Route" \/ ~(Len(names) > 1)
         \/ Latest(names)[2] \notin {"handler", "conflict"}
  PROVE  Story(target, names) = Latest(names)
BY DEF Story

LEMMA StoryStopsShort ==
  ASSUME NEW names, Len(names) > 1, Latest(names)[2] \in {"handler", "conflict"}
  PROVE  Story("internalTest2Route", names) = SubSeq(Latest(names), 1, 2)
BY DEF Story

\* Unless it tells nothing, a failed handler's result continues the story.
Continues(target, met, result) ==
  target # "healthCheckGetRoute" =>
    <<"route">> \o result \in Stories(target, met \o <<"route">>)

\* What is known of the failures a request has met by how far it has come.
Recorded(q, met) ==
  /\ q.phase \in {"none", "accepted", "handling"} => met = <<>>
  /\ q.phase = "dependencyFailed" =>
       \/ met = <<"dependency">> /\ q.result = <<"dependency">>
       \/ met = <<"Error", "dependency">> /\ q.result = <<"dependency", "Error">>
       \/ /\ met = <<"dependency">> /\ q.result = <<"dependency", "Succeed">>
          /\ q.target \in {"internalTest1Route", "internalTest2Route"}
  /\ q.phase = "handlerFailed" =>
       met \in Seq(Failure) /\ Continues(q.target, met, q.result)

StoryInv == PipelineInv /\ \A r \in Request : Recorded(request[r], failures[r])

\* The answer that a step sends for r.
Tells(r) ==
  Len(request'[r].answers) > Len(request[r].answers) =>
    LET answer == request'[r].answers[Len(request'[r].answers)]
    IN  /\ answer.name = LastMet(request'[r].target, failures'[r])
        /\ IF stage = "production" THEN answer.list = <<>>
           ELSE answer.list \in Stories(request'[r].target, failures'[r])

LEMMA StoryIsOne == \A target, names : Story(target, names) \in Stories(target, names)
BY DEF Stories

LEMMA LastOfSequence ==
  ASSUME NEW names \in Seq(Failure), NEW name \in Failure
  PROVE  /\ names \o <<name>> # <<>>
         /\ (names \o <<name>>)[Len(names \o <<name>>)] = name
<1>1. <<name>> \in Seq(Failure) /\ Len(<<name>>) = 1 /\ <<name>>[1] = name /\ Len(names) \in Nat
  OBVIOUS
<1>2. Len(names \o <<name>>) = Len(names) + 1 /\ (names \o <<name>>)[Len(names) + 1] = name
  BY <1>1, ConcatProperties
<1>. QED
  BY <1>1, <1>2

\* The error's name of a Result of its own.
LEMMA NameOfNew ==
  ASSUME NEW name, NEW cause \in Seq(Name), name \in Failure
  PROVE  NameOf(NewResult(name, cause)) = name
<1>1. <<name>> \in Seq(Name) /\ Len(<<name>>) = 1 /\ <<name>>[1] = name /\ Len(cause) \in Nat
  BY FailureNames
<1>2. /\ <<name>> \o cause \in Seq(Name) /\ Len(<<name>> \o cause) = 1 + Len(cause)
      /\ (<<name>> \o cause)[1] = name
  BY <1>1, ConcatProperties
<1>3. <<name>> \o cause # <<>>
  BY <1>1, <1>2
<1>. QED
  BY <1>2, <1>3 DEF NameOf, NewResult

LEMMA MetFailures ==
  ASSUME PipelineInv, NEW r \in Request, NEW names, Met(r, names)
  PROVE  /\ failures'[r] = failures[r] \o names
         /\ \A p \in Request : p # r => failures'[p] = failures[p]
BY DEF Met, PipelineInv, PipelineTypeOK

\* An answer tells the story when its result is one of the stories, and the last
\* failure the name of the result.
LEMMA AnswerTells ==
  ASSUME StoryInv, NEW r \in Request, NEW status, NEW result,
         request[r].phase \in {"accepted", "handling", "handlerFailed"},
         sendResponse(r, status, result),
         result \in Stories(request[r].target, failures'[r]),
         NameOf(result) = LastMet(request[r].target, failures'[r])
  PROVE  Recorded(request'[r], failures'[r]) /\ Tells(r)
<1>. DEFINE a == AnswerOf(status, result)
<1>1. request[r] \in RequestState /\ request[r].answers = <<>> /\ request \in [Request -> RequestState]
  BY DEF StoryInv, PipelineInv, PipelineTypeOK, Consistent
<1>2. a.name = NameOf(result) /\ a.list = SentList(result)
  BY DEF AnswerOf
<1>. HIDE DEF a
<1>3. /\ request'[r].phase = "answered" /\ request'[r].target = request[r].target
      /\ request'[r].answers = Append(request[r].answers, a)
  BY <1>1 DEF sendResponse, RequestState, a
<1>4. request'[r].answers = <<a>>
  BY <1>1, <1>3
<1>5. Recorded(request'[r], failures'[r])
  BY <1>3 DEF Recorded
<1>6. request'[r].answers[Len(request'[r].answers)] = a
  BY <1>4
<1>7. Tells(r)
  BY <1>2, <1>3, <1>6 DEF Tells, SentList
<1>. QED
  BY <1>5, <1>7

LEMMA AnswersTell ==
  ASSUME StoryInv, NEW r \in Request,
         \/ BodyMalformed(r) \/ Refuse(r) \/ HealthCheckAtOnce(r) \/ HandlerSucceeds(r)
         \/ RouteAnswers(r) \/ HealthCheckAnswers(r)
  PROVE  Recorded(request'[r], failures'[r]) /\ Tells(r)
<1>. USE DEF In, Targets
<1>0. PipelineInv /\ Recorded(request[r], failures[r])
  BY DEF StoryInv
<1>1. CASE BodyMalformed(r)
  <2>1. failures[r] = <<>> /\ failures'[r] = failures[r] \o <<"Error", "unexpected">>
    BY <1>0, <1>1, MetFailures DEF BodyMalformed, Recorded
  <2>2. failures'[r] = <<"Error", "unexpected">>
    BY <2>1
  <2>3. Latest(failures'[r]) = <<"unexpected", "Error">>
    BY <2>2, LatestOfFew
  <2>4. NewResult("unexpected", <<"Error">>) = <<"unexpected", "Error">>
    BY OneAndOne DEF NewResult
  <2>5. Story(request[r].target, failures'[r]) = NewResult("unexpected", <<"Error">>)
    BY <1>1, <2>3, <2>4, StoryIsLatest DEF BodyMalformed
  <2>6. NameOf(NewResult("unexpected", <<"Error">>)) = "unexpected"
    BY FailureNames, NameSequences, NameOfNew
  <2>7. LastMet(request[r].target, failures'[r]) = "unexpected"
    BY <1>1, <2>2 DEF BodyMalformed, LastMet
  <2>8. NewResult("unexpected", <<"Error">>) \in Stories(request[r].target, failures'[r])
    BY <2>5, StoryIsOne
  <2>. QED
    BY <1>1, <2>6, <2>7, <2>8, AnswerTells DEF BodyMalformed
<1>2. CASE Refuse(r)
  <2>1. failures[r] = <<>> /\ failures'[r] = failures[r] \o <<"validation">>
    BY <1>0, <1>2, MetFailures DEF Refuse, Recorded
  <2>2. failures'[r] = <<"validation">> /\ Len(failures'[r]) = 1
    BY <2>1
  <2>3. Latest(failures'[r]) = <<"validation">> /\ NewResult("validation", <<>>) = <<"validation">>
    BY <2>2, LatestOfFew, ShortSequences DEF NewResult
  <2>4. Story(request[r].target, failures'[r]) = NewResult("validation", <<>>)
    BY <1>2, <2>2, <2>3, StoryIsLatest DEF Refuse
  <2>5. NameOf(NewResult("validation", <<>>)) = "validation"
    BY FailureNames, NameSequences, NameOfNew
  <2>6. LastMet(request[r].target, failures'[r]) = "validation"
    BY <1>2, <2>2 DEF Refuse, LastMet
  <2>7. NewResult("validation", <<>>) \in Stories(request[r].target, failures'[r])
    BY <2>4, StoryIsOne
  <2>. QED
    BY <1>2, <2>5, <2>6, <2>7, AnswerTells DEF Refuse
<1>3. CASE HealthCheckAtOnce(r) \/ HealthCheckAnswers(r)
  <2>1. PICK status \in {200, 503} : sendResponse(r, status, <<>>)
    BY <1>3 DEF HealthCheckAtOnce, HealthCheckAnswers
  <2>2. Story(request[r].target, failures'[r]) = <<>>
    BY <1>3 DEF HealthCheckAtOnce, HealthCheckAnswers, Story
  <2>3. request[r].phase \in {"accepted", "handling", "handlerFailed"}
    BY <1>3 DEF HealthCheckAtOnce, HealthCheckAnswers
  <2>4. NameOf(<<>>) = LastMet(request[r].target, failures'[r])
    BY <1>3 DEF HealthCheckAtOnce, HealthCheckAnswers, NameOf, LastMet
  <2>5. <<>> \in Stories(request[r].target, failures'[r])
    BY <2>2, StoryIsOne
  <2>. QED
    BY <2>1, <2>3, <2>4, <2>5, AnswerTells
<1>4. CASE HandlerSucceeds(r)
  <2>1. failures'[r] = <<>> /\ Len(failures'[r]) = 0
    BY <1>0, <1>4 DEF HandlerSucceeds, Recorded
  <2>2. Latest(failures'[r]) = <<>>
    BY <2>1, LatestOfNone
  <2>3. Story(request[r].target, failures'[r]) = <<>>
    BY <2>1, <2>2, StoryIsLatest DEF Story
  <2>4. NameOf(<<>>) = LastMet(request[r].target, failures'[r])
    BY <2>1 DEF NameOf, LastMet
  <2>5. <<>> \in Stories(request[r].target, failures'[r])
    BY <2>3, StoryIsOne
  <2>. QED
    BY <1>4, <2>4, <2>5, AnswerTells DEF HandlerSucceeds
<1>5. CASE RouteAnswers(r)
  <2>1. failures'[r] = failures[r] \o <<"route">>
    BY <1>0, <1>5, MetFailures DEF RouteAnswers
  <2>2. /\ request[r].target # "healthCheckGetRoute" /\ request[r].phase = "handlerFailed"
        /\ sendResponse(r, IF request[r].result[1] = "conflict" THEN 409 ELSE 500,
                        NewResult("route", request[r].result))
    BY <1>5 DEF RouteAnswers
  <2>3. /\ failures[r] \in Seq(Failure) /\ request[r].result \in Seq(Name)
        /\ Continues(request[r].target, failures[r], request[r].result)
    BY <1>0, <2>2 DEF Recorded, PipelineInv, PipelineTypeOK, RequestState
  <2>4. NewResult("route", request[r].result) \in Stories(request[r].target, failures'[r])
    BY <2>1, <2>2, <2>3 DEF Continues, NewResult
  <2>5. NameOf(NewResult("route", request[r].result)) = "route"
    BY <2>3, FailureNames, NameOfNew
  <2>6. LastMet(request[r].target, failures'[r]) = "route"
    BY <2>1, <2>2, <2>3, FailureNames, LastOfSequence DEF LastMet
  <2>. QED
    BY <2>2, <2>4, <2>5, <2>6, AnswerTells
<1>. QED
  BY <1>1, <1>2, <1>3, <1>4, <1>5

\* A handler or a dependency fails: r goes on to phase with result.
LEMMA FailureIsRecorded ==
  ASSUME StoryInv, NEW r \in Request, NEW phase \in {"dependencyFailed", "handlerFailed"},
         NEW result,
         request' = [request EXCEPT ![r] = [@ EXCEPT !.phase = phase, !.result = result]],
         \/ /\ phase = "dependencyFailed"
            /\ \/ failures'[r] = <<"dependency">> /\ result = <<"dependency">>
               \/ failures'[r] = <<"Error", "dependency">> /\ result = <<"dependency", "Error">>
               \/ /\ failures'[r] = <<"dependency">> /\ result = <<"dependency", "Succeed">>
                  /\ request[r].target \in {"internalTest1Route", "internalTest2Route"}
         \/ /\ phase = "handlerFailed" /\ failures'[r] \in Seq(Failure)
            /\ Continues(request[r].target, failures'[r], result)
  PROVE  Recorded(request'[r], failures'[r]) /\ Tells(r)
<1>1. request[r] \in RequestState /\ request \in [Request -> RequestState]
  BY DEF StoryInv, PipelineInv, PipelineTypeOK
<1>2. /\ request'[r].phase = phase /\ request'[r].target = request[r].target
      /\ request'[r].result = result /\ request'[r].answers = request[r].answers
  BY <1>1 DEF RequestState
<1>3. Len(request[r].answers) \in Nat
  BY <1>1 DEF RequestState
<1>. QED
  BY <1>2, <1>3 DEF Recorded, Tells

\* The failures of a handler that throws, that refuses, and that gives up on a
\* dependency, with what their causeLists make of them.
LEMMA ThrownContinues ==
  ASSUME NEW target
  PROVE  /\ Continues(target, <<"Error", "dependency", "caught">>,
                      <<"caught", "dependency", "Error">>)
         /\ Continues(target, <<"instance", "dependency", "caught">>, <<"caught", "dependency">>)
         /\ Continues(target, <<"Error", "caught">>, <<"caught", "Error">>)
         /\ target # "internalTest2Route" => Continues(target, <<"conflict">>, <<"conflict">>)
<1>1. Continues(target, <<"Error", "dependency", "caught">>, <<"caught", "dependency", "Error">>)
  <2>1. <<"Error", "dependency", "caught">> \o <<"route">> = <<"Error", "dependency", "caught", "route">>
    BY ThreeAndOne, Zenon
  <2>2. <<"route">> \o <<"caught", "dependency", "Error">> = <<"route", "caught", "dependency", "Error">>
    BY OneAndThree, Zenon
  <2>3. Latest(<<"Error", "dependency", "caught", "route">>) = <<"route", "caught", "dependency", "Error">>
    <3>1. "Error" # "instance"
      OBVIOUS
    <3>. QED
      BY <3>1, LatestOfFour, Zenon
  <2>4. <<"route", "caught", "dependency", "Error">>[2] = "caught"
    OBVIOUS
  <2>. QED
    BY <2>1, <2>2, <2>3, <2>4, StoryIsLatest, StoryIsOne DEF Continues
<1>2. Continues(target, <<"instance", "dependency", "caught">>, <<"caught", "dependency">>)
  <2>1. <<"instance", "dependency", "caught">> \o <<"route">> = <<"instance", "dependency", "caught", "route">>
    BY ThreeAndOne, Zenon
  <2>2. <<"route">> \o <<"caught", "dependency">> = <<"route", "caught", "dependency">>
    BY OneAndTwo, Zenon
  <2>3. Latest(<<"instance", "dependency", "caught", "route">>) = <<"route", "caught", "dependency">>
    BY LatestOfInstance, Zenon
  <2>4. <<"route", "caught", "dependency">>[2] = "caught"
    OBVIOUS
  <2>. QED
    BY <2>1, <2>2, <2>3, <2>4, StoryIsLatest, StoryIsOne DEF Continues
<1>3. Continues(target, <<"Error", "caught">>, <<"caught", "Error">>)
  <2>1. <<"Error", "caught">> \o <<"route">> = <<"Error", "caught", "route">>
    BY TwoAndOne, Zenon
  <2>2. <<"route">> \o <<"caught", "Error">> = <<"route", "caught", "Error">>
    BY OneAndTwo, Zenon
  <2>3. Latest(<<"Error", "caught", "route">>) = <<"route", "caught", "Error">>
    <3>1. "Error" # "instance"
      OBVIOUS
    <3>. QED
      BY <3>1, LatestOfThree, Zenon
  <2>4. <<"route", "caught", "Error">>[2] = "caught"
    OBVIOUS
  <2>. QED
    BY <2>1, <2>2, <2>3, <2>4, StoryIsLatest, StoryIsOne DEF Continues
<1>4. target # "internalTest2Route" =>
        Continues(target, <<"conflict">>, <<"conflict">>)
  <2>1. <<"conflict">> \o <<"route">> = <<"conflict", "route">>
    BY OneAndOne, Zenon
  <2>2. <<"route">> \o <<"conflict">> = <<"route", "conflict">>
    BY OneAndOne, Zenon
  <2>3. Latest(<<"conflict", "route">>) = <<"route", "conflict">>
    <3>1. "conflict" # "instance"
      OBVIOUS
    <3>. QED
      BY <3>1, LatestOfFew, Zenon
  <2>4. <<"route", "conflict">>[2] = "conflict"
    OBVIOUS
  <2>. QED
    BY <2>1, <2>2, <2>3, <2>4, StoryIsLatest, StoryIsOne DEF Continues
<1>. QED
  BY <1>1, <1>2, <1>3, <1>4

LEMMA GivenUpContinues ==
  ASSUME NEW target, NEW name \in {"handler", "conflict"}
  PROVE  /\ target # "internalTest2Route" =>
              /\ Continues(target, <<"dependency", name>>, <<name, "dependency">>)
              /\ Continues(target, <<"Error", "dependency", name>>, <<name, "dependency", "Error">>)
         /\ target = "internalTest2Route" =>
              /\ Continues(target, <<"dependency", name>>, <<name>>)
              /\ Continues(target, <<"Error", "dependency", name>>, <<name>>)
         /\ target = "internalTest1Route" =>
              Continues(target, <<"dependency", name>>, <<name, "dependency", "Succeed">>)
<1>1. target # "internalTest2Route" =>
        Continues(target, <<"dependency", name>>, <<name, "dependency">>)
  <2>1. <<"dependency", name>> \o <<"route">> = <<"dependency", name, "route">>
    BY TwoAndOne, Zenon
  <2>2. <<"route">> \o <<name, "dependency">> = <<"route", name, "dependency">>
    BY OneAndTwo, Zenon
  <2>3. Latest(<<"dependency", name, "route">>) = <<"route", name, "dependency">>
    <3>1. "dependency" # "instance"
      OBVIOUS
    <3>. QED
      BY <3>1, LatestOfThree, Zenon
  <2>4. <<"route", name, "dependency">>[2] = name
    OBVIOUS
  <2>. QED
    BY <2>1, <2>2, <2>3, <2>4, StoryIsLatest, StoryIsOne DEF Continues
<1>2. target # "internalTest2Route" =>
        Continues(target, <<"Error", "dependency", name>>, <<name, "dependency", "Error">>)
  <2>1. <<"Error", "dependency", name>> \o <<"route">> = <<"Error", "dependency", name, "route">>
    BY ThreeAndOne, Zenon
  <2>2. <<"route">> \o <<name, "dependency", "Error">> = <<"route", name, "dependency", "Error">>
    BY OneAndThree, Zenon
  <2>3. Latest(<<"Error", "dependency", name, "route">>) = <<"route", name, "dependency", "Error">>
    <3>1. "Error" # "instance"
      OBVIOUS
    <3>. QED
      BY <3>1, LatestOfFour, Zenon
  <2>4. <<"route", name, "dependency", "Error">>[2] = name
    OBVIOUS
  <2>. QED
    BY <2>1, <2>2, <2>3, <2>4, StoryIsLatest, StoryIsOne DEF Continues
<1>3. target = "internalTest2Route" =>
        Continues(target, <<"dependency", name>>, <<name>>)
  <2>1. <<"dependency", name>> \o <<"route">> = <<"dependency", name, "route">>
    BY TwoAndOne, Zenon
  <2>2. <<"route">> \o <<name>> = <<"route", name>>
    BY OneAndOne, Zenon
  <2>3. Latest(<<"dependency", name, "route">>) = <<"route", name, "dependency">>
    <3>1. "dependency" # "instance"
      OBVIOUS
    <3>. QED
      BY <3>1, LatestOfThree, Zenon
  <2>4. Len(<<"dependency", name, "route">>) > 1 /\ <<"route", name, "dependency">>[2] = name
    OBVIOUS
  <2>5. SubSeq(<<"route", name, "dependency">>, 1, 2) = <<"route", name>>
    BY FrontOfThree, Zenon
  <2>. QED
    BY <2>1, <2>2, <2>3, <2>4, <2>5, StoryStopsShort, StoryIsOne DEF Continues
<1>4. target = "internalTest2Route" =>
        Continues(target, <<"Error", "dependency", name>>, <<name>>)
  <2>1. <<"Error", "dependency", name>> \o <<"route">> = <<"Error", "dependency", name, "route">>
    BY ThreeAndOne, Zenon
  <2>2. <<"route">> \o <<name>> = <<"route", name>>
    BY OneAndOne, Zenon
  <2>3. Latest(<<"Error", "dependency", name, "route">>) = <<"route", name, "dependency", "Error">>
    <3>1. "Error" # "instance"
      OBVIOUS
    <3>. QED
      BY <3>1, LatestOfFour, Zenon
  <2>4. Len(<<"Error", "dependency", name, "route">>) > 1 /\ <<"route", name, "dependency", "Error">>[2] = name
    OBVIOUS
  <2>5. SubSeq(<<"route", name, "dependency", "Error">>, 1, 2) = <<"route", name>>
    BY FrontOfFour, Zenon
  <2>. QED
    BY <2>1, <2>2, <2>3, <2>4, <2>5, StoryStopsShort, StoryIsOne DEF Continues
<1>5. target = "internalTest1Route" =>
        Continues(target, <<"dependency", name>>, <<name, "dependency", "Succeed">>)
  <2>1. <<"dependency", name>> \o <<"route">> = <<"dependency", name, "route">>
    BY TwoAndOne, Zenon
  <2>2. <<"route">> \o <<name, "dependency", "Succeed">>
          = Append(<<"route", name, "dependency">>, "Succeed")
    <3>1. <<"route">> \o <<name, "dependency", "Succeed">> = <<"route", name, "dependency", "Succeed">>
      BY OneAndThree, Zenon
    <3>2. Append(<<"route", name, "dependency">>, "Succeed") = <<"route", name, "dependency", "Succeed">>
      BY AppendToThree, Zenon
    <3>. QED
      BY <3>1, <3>2, Zenon
  <2>3. Latest(<<"dependency", name, "route">>) = <<"route", name, "dependency">>
    <3>1. "dependency" # "instance"
      OBVIOUS
    <3>. QED
      BY <3>1, LatestOfThree, Zenon
  <2>4. target = "internalTest1Route" =>
          Story(target, <<"dependency", name, "route">>) = <<"route", name, "dependency">>
    BY <2>3, StoryIsLatest
  <2>5. <<"dependency", name, "route">> # <<>> /\ <<"dependency", name, "route">>[1] = "dependency"
    OBVIOUS
  <2>. QED
    BY <2>1, <2>2, <2>4, <2>5 DEF Continues, Stories
<1>. QED
  BY <1>1, <1>2, <1>3, <1>4, <1>5

LEMMA HandlersRecord ==
  ASSUME StoryInv, NEW r \in Request,
         HandlerThrows(r) \/ HandlerRefuses(r) \/ DependencyFails(r) \/ HandlerFails(r)
  PROVE  Recorded(request'[r], failures'[r]) /\ Tells(r)
<1>. USE DEF In, Targets
<1>0. /\ PipelineInv /\ Recorded(request[r], failures[r])
      /\ failures'[r] \in Seq(Failure)
  <2>1. PipelineInv
    BY DEF StoryInv
  <2>2. PipelineInv'
    BY <2>1, HandlerStep
  <2>. QED
    BY <2>1, <2>2 DEF StoryInv, PipelineInv, PipelineTypeOK
<1>1. CASE HandlerThrows(r)
  <2>1. PICK thrown \in Thrown(r) :
          /\ Met(r, Append(thrown.met, "caught"))
          /\ HandlerGives(r, NewResult("caught", thrown.list))
    BY <1>1 DEF HandlerThrows
  <2>2. failures'[r] = <<>> \o Append(thrown.met, "caught")
    BY <1>0, <1>1, <2>1, MetFailures DEF HandlerThrows, Recorded
  <2>3. Continues(request[r].target, failures'[r], NewResult("caught", thrown.list))
    <3>1. CASE thrown = EndpointThrown
      <4>1. thrown.met = <<"Error", "dependency">> /\ thrown.list = <<"dependency", "Error">>
        BY <3>1 DEF EndpointThrown
      <4>2. /\ Append(thrown.met, "caught") = <<"Error", "dependency", "caught">>
            /\ <<"caught">> \o thrown.list = <<"caught", "dependency", "Error">>
        BY <4>1, AppendToTwo, OneAndTwo, Zenon
      <4>3. <<>> \o <<"Error", "dependency", "caught">> = <<"Error", "dependency", "caught">>
        BY ShortSequences, Zenon
      <4>. QED
        BY <2>2, <4>2, <4>3, ThrownContinues DEF NewResult
    <3>2. CASE thrown = RepositoryThrown
      <4>1. thrown.met = <<"instance", "dependency">> /\ thrown.list = <<"dependency">>
        BY <3>2 DEF RepositoryThrown
      <4>2. /\ Append(thrown.met, "caught") = <<"instance", "dependency", "caught">>
            /\ <<"caught">> \o thrown.list = <<"caught", "dependency">>
        BY <4>1, AppendToTwo, OneAndOne, Zenon
      <4>3. <<>> \o <<"instance", "dependency", "caught">> = <<"instance", "dependency", "caught">>
        BY ShortSequences, Zenon
      <4>. QED
        BY <2>2, <4>2, <4>3, ThrownContinues DEF NewResult
    <3>3. CASE thrown = LibraryThrown
      <4>1. thrown.met = <<"Error">> /\ thrown.list = <<"Error">>
        BY <3>3 DEF LibraryThrown
      <4>2. /\ Append(thrown.met, "caught") = <<"Error", "caught">>
            /\ <<"caught">> \o thrown.list = <<"caught", "Error">>
        BY <4>1, AppendToOne, OneAndOne, Zenon
      <4>3. <<>> \o <<"Error", "caught">> = <<"Error", "caught">>
        BY ShortSequences, Zenon
      <4>. QED
        BY <2>2, <4>2, <4>3, ThrownContinues DEF NewResult
    <3>. QED
      BY <3>1, <3>2, <3>3 DEF Thrown
  <2>. DEFINE result == NewResult("caught", thrown.list)
  <2>4. /\ request' = [request EXCEPT ![r] =
                         [@ EXCEPT !.phase = "handlerFailed", !.result = result]]
        /\ Continues(request[r].target, failures'[r], result)
    BY <2>1, <2>3 DEF HandlerGives
  <2>. HIDE DEF result
  <2>. QED
    BY <1>0, <2>4, FailureIsRecorded
<1>2. CASE HandlerRefuses(r)
  <2>1. failures'[r] = <<>> \o <<"conflict">>
    BY <1>0, <1>2, MetFailures DEF HandlerRefuses, Recorded
  <2>2. <<>> \o <<"conflict">> = <<"conflict">> /\ NewResult("conflict", <<>>) = <<"conflict">>
    BY ShortSequences, Zenon DEF NewResult
  <2>3. Continues(request[r].target, failures'[r], <<"conflict">>)
    BY <1>2, <2>1, <2>2, ThrownContinues DEF HandlerRefuses
  <2>4. request' = [request EXCEPT ![r] =
                      [@ EXCEPT !.phase = "handlerFailed", !.result = <<"conflict">>]]
    BY <1>2, <2>2 DEF HandlerRefuses, HandlerGives
  <2>. QED
    BY <1>0, <2>3, <2>4, FailureIsRecorded
<1>3. CASE DependencyFails(r)
  <2>1. PICK cause \in Causes(r) :
          /\ Met(r, Append(cause.met, "dependency"))
          /\ request' = [request EXCEPT ![r] =
               [@ EXCEPT !.phase = "dependencyFailed",
                         !.result = NewResult("dependency", cause.list)]]
    BY <1>3 DEF DependencyFails
  <2>2. failures'[r] = <<>> \o Append(cause.met, "dependency")
    BY <1>0, <1>3, <2>1, MetFailures DEF DependencyFails, Recorded
  <2>. DEFINE result == NewResult("dependency", cause.list)
  <2>3. \/ failures'[r] = <<"dependency">> /\ result = <<"dependency">>
        \/ failures'[r] = <<"Error", "dependency">> /\ result = <<"dependency", "Error">>
        \/ /\ failures'[r] = <<"dependency">> /\ result = <<"dependency", "Succeed">>
           /\ request[r].target \in {"internalTest1Route", "internalTest2Route"}
    <3>1. CASE cause = OwnCause
      <4>1. cause.met = <<>> /\ cause.list = <<>>
        BY <3>1 DEF OwnCause
      <4>2. /\ Append(<<>>, "dependency") = <<"dependency">>
            /\ <<>> \o <<"dependency">> = <<"dependency">>
            /\ <<"dependency">> \o <<>> = <<"dependency">>
        BY ShortSequences, Zenon
      <4>. QED
        BY <2>2, <4>1, <4>2 DEF NewResult
    <3>2. CASE cause = LibraryCause
      <4>1. cause.met = <<"Error">> /\ cause.list = <<"Error">>
        BY <3>2 DEF LibraryCause
      <4>2. Append(<<"Error">>, "dependency") = <<"Error", "dependency">>
        BY AppendToOne, Zenon
      <4>3. <<>> \o <<"Error", "dependency">> = <<"Error", "dependency">>
        BY ShortSequences, Zenon
      <4>4. <<"dependency">> \o <<"Error">> = <<"dependency", "Error">>
        BY OneAndOne, Zenon
      <4>. QED
        BY <2>2, <4>1, <4>2, <4>3, <4>4 DEF NewResult
    <3>3. CASE cause = InstanceCause /\ request[r].target \in {"internalTest1Route", "internalTest2Route"}
      <4>1. cause.met = <<>> /\ cause.list = <<"Succeed">>
        BY <3>3 DEF InstanceCause
      <4>2. Append(<<>>, "dependency") = <<"dependency">> /\ <<>> \o <<"dependency">> = <<"dependency">>
        BY ShortSequences, Zenon
      <4>3. <<"dependency">> \o <<"Succeed">> = <<"dependency", "Succeed">>
        BY OneAndOne, Zenon
      <4>. QED
        BY <2>2, <3>3, <4>1, <4>2, <4>3 DEF NewResult
    <3>. QED
      BY <3>1, <3>2, <3>3 DEF Causes
  <2>4. request' = [request EXCEPT ![r] =
                      [@ EXCEPT !.phase = "dependencyFailed", !.result = result]]
    BY <2>1
  <2>. HIDE DEF result
  <2>. QED
    BY <2>3, <2>4, FailureIsRecorded
<1>4. CASE HandlerFails(r)
  <2>. DEFINE known == IF request[r].target = "internalTest2Route" THEN <<>> ELSE request[r].result
  <2>1. PICK name \in {"handler", "conflict"} :
          Met(r, <<name>>) /\ HandlerGives(r, NewResult(name, known))
    BY <1>4 DEF HandlerFails
  <2>. DEFINE result == NewResult(name, known)
  <2>2. failures'[r] = failures[r] \o <<name>>
    BY <1>0, <2>1, MetFailures
  <2>3. Continues(request[r].target, failures'[r], result)
    <3>1. CASE failures[r] = <<"dependency">> /\ request[r].result = <<"dependency">>
      <4>1. /\ <<"dependency">> \o <<name>> = <<"dependency", name>>
            /\ <<name>> \o <<"dependency">> = <<name, "dependency">> /\ <<name>> \o <<>> = <<name>>
        BY OneAndOne, ShortSequences, Zenon
      <4>2. failures'[r] = <<"dependency", name>>
        BY <2>2, <3>1, <4>1
      <4>3. result = IF request[r].target = "internalTest2Route" THEN <<name>>
                                                                  ELSE <<name, "dependency">>
        BY <3>1, <4>1 DEF NewResult
      <4>. HIDE DEF result
      <4>. QED
        BY <4>2, <4>3, GivenUpContinues
    <3>2. CASE /\ failures[r] = <<"Error", "dependency">>
               /\ request[r].result = <<"dependency", "Error">>
      <4>1. /\ <<"Error", "dependency">> \o <<name>> = <<"Error", "dependency", name>>
            /\ <<name>> \o <<"dependency", "Error">> = <<name, "dependency", "Error">>
            /\ <<name>> \o <<>> = <<name>>
        <5>1. <<"Error", "dependency">> \o <<name>> = <<"Error", "dependency", name>>
          BY TwoAndOne, Zenon
        <5>2. <<name>> \o <<"dependency", "Error">> = <<name, "dependency", "Error">>
          BY OneAndTwo, Zenon
        <5>3. <<name>> \o <<>> = <<name>>
          BY ShortSequences, Zenon
        <5>. QED
          BY <5>1, <5>2, <5>3
      <4>2. failures'[r] = <<"Error", "dependency", name>>
        BY <2>2, <3>2, <4>1
      <4>3. result = IF request[r].target = "internalTest2Route"
                       THEN <<name>> ELSE <<name, "dependency", "Error">>
        BY <3>2, <4>1 DEF NewResult
      <4>. HIDE DEF result
      <4>. QED
        BY <4>2, <4>3, GivenUpContinues
    <3>3. CASE /\ failures[r] = <<"dependency">> /\ request[r].result = <<"dependency", "Succeed">>
               /\ request[r].target \in {"internalTest1Route", "internalTest2Route"}
      <4>1. <<"dependency">> \o <<name>> = <<"dependency", name>>
        BY OneAndOne, Zenon
      <4>2. <<name>> \o <<"dependency", "Succeed">> = <<name, "dependency", "Succeed">>
        BY OneAndTwo, Zenon
      <4>3. <<name>> \o <<>> = <<name>>
        BY ShortSequences, Zenon
      <4>4. failures'[r] = <<"dependency", name>>
        BY <2>2, <3>3, <4>1
      <4>5. result = IF request[r].target = "internalTest2Route"
                       THEN <<name>> ELSE <<name, "dependency", "Succeed">>
        BY <3>3, <4>2, <4>3 DEF NewResult
      <4>. HIDE DEF result
      <4>. QED
        BY <3>3, <4>4, <4>5, GivenUpContinues
    <3>. QED
      BY <1>0, <1>4, <3>1, <3>2, <3>3 DEF HandlerFails, Recorded
  <2>4. request' = [request EXCEPT ![r] =
                      [@ EXCEPT !.phase = "handlerFailed", !.result = result]]
    BY <2>1 DEF HandlerGives
  <2>. HIDE DEF result, known
  <2>. QED
    BY <1>0, <2>3, <2>4, FailureIsRecorded
<1>. QED
  BY <1>1, <1>2, <1>3, <1>4

LEMMA ArrivalsTell ==
  ASSUME StoryInv, NEW r \in Request, NEW target \in Target,
         Arrive(r, target) \/ notFoundMiddleware(r, target) \/ Execute(r)
  PROVE  Recorded(request'[r], failures'[r]) /\ Tells(r)
<1>. USE DEF In
<1>0. /\ PipelineInv /\ Recorded(request[r], failures[r]) /\ request[r] \in RequestState
      /\ request \in [Request -> RequestState] /\ Len(request[r].answers) \in Nat
  BY DEF StoryInv, PipelineInv, PipelineTypeOK, RequestState
<1>1. CASE Arrive(r, target) \/ Execute(r)
  <2>1. /\ request'[r].answers = request[r].answers /\ failures'[r] = failures[r]
        /\ request'[r].phase \in {"accepted", "handling"}
        /\ request[r].phase \in {"none", "accepted"}
    <3>1. CASE Arrive(r, target)
      BY <1>0, <3>1 DEF Arrive, RequestState
    <3>2. CASE Execute(r)
      BY <1>0, <3>2 DEF Execute, RequestState
    <3>. QED
      BY <1>1, <3>1, <3>2
  <2>. QED
    BY <1>0, <2>1 DEF Recorded, Tells
<1>2. CASE notFoundMiddleware(r, target)
  <2>. DEFINE a == AnswerOf(404, NewResult("notFound", <<>>))
  <2>1. failures'[r] = <<>> \o <<"notFound">>
    BY <1>0, <1>2, MetFailures DEF notFoundMiddleware, Recorded
  <2>2. <<>> \o <<"notFound">> = <<"notFound">> /\ NewResult("notFound", <<>>) = <<"notFound">>
    BY ShortSequences, Zenon DEF NewResult
  <2>3. Latest(<<"notFound">>) = <<"notFound">> /\ Len(<<"notFound">>) = 1
    BY LatestOfFew
  <2>4. target \notin Route
    <3>1. StackInv /\ stack # <<>>
      BY <1>0, <1>2 DEF notFoundMiddleware, PipelineInv, PipelineTypeOK, StackInv
    <3>. QED
      BY <1>2, <3>1, DispatchedIs DEF notFoundMiddleware, Target, Route
  <2>5. /\ a.list = SentList(NewResult("notFound", <<>>)) /\ a.name = "notFound"
    BY FailureNames, NameSequences, NameOfNew DEF AnswerOf
  <2>. HIDE DEF a
  <2>6. /\ request'[r].phase = "answered" /\ request'[r].target = target
        /\ request'[r].answers = <<a>>
    BY <1>0, <1>2 DEF notFoundMiddleware, RequestState, a
  <2>7. NewResult("notFound", <<>>) \in Stories(target, failures'[r])
    BY <2>1, <2>2, <2>3, <2>4, StoryIsLatest, StoryIsOne DEF Route
  <2>8. LastMet(target, failures'[r]) = "notFound"
    BY <2>1, <2>2, <2>3, <2>4 DEF LastMet, Route
  <2>9. request'[r].answers[Len(request'[r].answers)] = a
    BY <2>6
  <2>. QED
    BY <2>5, <2>6, <2>7, <2>8, <2>9 DEF Recorded, Tells, SentList
<1>. QED
  BY <1>1, <1>2

LEMMA OthersStay ==
  ASSUME StoryInv, NEW r \in Request, NEW p \in Request, p # r,
         RequestStep(r) \/ \E target \in Target : Arrive(r, target) \/ notFoundMiddleware(r, target)
  PROVE  request'[p] = request[p] /\ failures'[p] = failures[p]
<1>1. PipelineInv
  BY DEF StoryInv
<1>2. failures'[p] = failures[p]
  BY <1>1, MetFailures
     DEF RequestStep, BodyMalformed, Refuse, Execute, HealthCheckAtOnce, HandlerSucceeds,
         HandlerThrows, HandlerRefuses, DependencyFails, HandlerFails, RouteAnswers,
         HealthCheckAnswers, Arrive, notFoundMiddleware
<1>. USE DEF sendResponse, HandlerGives
<1>3. request \in [Request -> RequestState]
  BY <1>1 DEF PipelineInv, PipelineTypeOK
<1>4. CASE \E target \in Target : Arrive(r, target) \/ notFoundMiddleware(r, target)
  BY <1>2, <1>3, <1>4 DEF Arrive, notFoundMiddleware
<1>5. CASE BodyMalformed(r) \/ Refuse(r) \/ Execute(r)
  BY <1>2, <1>3, <1>5 DEF BodyMalformed, Refuse, Execute
<1>6. CASE HealthCheckAtOnce(r) \/ HandlerSucceeds(r) \/ RouteAnswers(r) \/ HealthCheckAnswers(r)
  BY <1>2, <1>3, <1>6 DEF HealthCheckAtOnce, HandlerSucceeds, RouteAnswers, HealthCheckAnswers
<1>7. CASE HandlerThrows(r) \/ HandlerRefuses(r)
  BY <1>2, <1>3, <1>7 DEF HandlerThrows, HandlerRefuses
<1>8. CASE DependencyFails(r) \/ HandlerFails(r)
  BY <1>2, <1>3, <1>8 DEF DependencyFails, HandlerFails
<1>. QED
  BY <1>4, <1>5, <1>6, <1>7, <1>8 DEF RequestStep

LEMMA StoryStep == StoryInv /\ [Next]_vars => StoryInv' /\ \A r \in Request : Tells(r)
<1>. SUFFICES ASSUME StoryInv, [Next]_vars
              PROVE  /\ PipelineInv'
                     /\ \A r \in Request : Recorded(request'[r], failures'[r]) /\ Tells(r)
  BY DEF StoryInv
<1>1. PipelineInv'
  BY PipelineInvPreserved DEF StoryInv
<1>2. ASSUME NEW r \in Request, request'[r] = request[r], failures'[r] = failures[r]
      PROVE  Recorded(request'[r], failures'[r]) /\ Tells(r)
  <2>1. Len(request[r].answers) \in Nat
    BY DEF StoryInv, PipelineInv, PipelineTypeOK, RequestState
  <2>. QED
    BY <1>2, <2>1 DEF StoryInv, Tells
<1>3. CASE Start \/ StartFailsOrCloses \/ loadAppContainer \/ UNCHANGED vars
  <2>1. UNCHANGED <<request, failures>>
    BY <1>3 DEF Start, StartFailsOrCloses, loadAppContainer, vars
  <2>. QED
    BY <1>1, <1>2, <2>1
<1>4. ASSUME NEW r \in Request,
             RequestStep(r) \/ \E target \in Target : Arrive(r, target) \/ notFoundMiddleware(r, target)
      PROVE  \A p \in Request : Recorded(request'[p], failures'[p]) /\ Tells(p)
  <2>1. Recorded(request'[r], failures'[r]) /\ Tells(r)
    BY <1>4, ArrivalsTell, AnswersTell, HandlersRecord DEF RequestStep, Target
  <2>2. \A p \in Request : p # r => request'[p] = request[p] /\ failures'[p] = failures[p]
    BY <1>4, OthersStay
  <2>. QED
    BY <1>2, <2>1, <2>2
<1>. QED
  BY <1>1, <1>3, <1>4 DEF Next

\* Every answer is an error of the failure that its request met last, in every
\* stage, and lists, latest first, all the failures met on the way through the
\* handler, the route and what they depend on, but none in production.
THEOREM StoriesAreTold == Spec => AnswersTellTheStory
<1>1. Init => StoryInv
  BY PipelineInvInitially DEF Init, StoryInv, Recorded, NoRequest
<1>2. StoryInv /\ [Next]_vars => StoryInv' /\ [\A r \in Request : Tells(r)]_vars
  BY StoryStep
<1>. QED
  BY <1>1, <1>2, PTL DEF Spec, AnswersTellTheStory, Tells
=============================================================================
