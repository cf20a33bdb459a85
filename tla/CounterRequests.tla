--------------------------- MODULE CounterRequests ---------------------------
(***************************************************************************)
(* The two counter requests, POST /base (internalTest1Handler) and          *)
(* GET /internal/test_2/:counterId (internalTest2Handler), over the five    *)
(* repositories, while the database manager may be connecting or            *)
(* disconnecting underneath them: closeApp disconnects before it closes     *)
(* the server, and waits for no request.                                    *)
(*                                                                         *)
(* A counter's id is a fresh uuid, so the request that creates a counter    *)
(* stands for its id.                                                       *)
(***************************************************************************)
EXTENDS DbManager, Integers

CONSTANTS
  WriteOrder,   \* the databases in the order createCounter is called on them
  WeakReads,    \* databases whose reads may miss an acknowledged write
  CaughtReads,  \* databases whose getById catches the driver's errors
  Request,      \* HTTP requests; the creating one stands for the counter's id
  UnknownId,    \* an id that no request created
  Counter       \* counters a request body may carry

ASSUME WriteOrderAssumption ==
  /\ WriteOrder \in [Db -> Db]
  /\ \A i \in Db : \E k \in Db : \A j \in Db : WriteOrder[j] = i <=> j = k
ASSUME ReadAssumption == WeakReads \subseteq Db /\ CaughtReads \subseteq Db
ASSUME RequestAssumption == UnknownId \notin Request /\ Counter \subseteq Int

VARIABLES
  request,   \* request[r]: how far request r has got
  sent,      \* sent[i]: ids whose insert was sent to database i
  stored,    \* stored[i]: ids whose insert database i has executed
  performed  \* history: performTest2 calls of r answered with 200

requestVars == <<request, sent, stored, performed>>
allVars == <<dbVars, requestVars>>

(***************************************************************************)
(* phase "google": awaiting getGoogle; "next": about to call createCounter  *)
(* on database WriteOrder[at]; "writing", "reading": awaiting the driver;   *)
(* "performing": awaiting Promise.all, `left` calls not yet answered;       *)
(* "answered": status is the HTTP status of the response.                   *)
(***************************************************************************)
RequestState ==
  [kind : {"none", "create", "read"},
   phase : {"idle", "google", "next", "writing", "reading", "performing", "answered"},
   counter : Counter \cup {0}, at : Db, id : Request \cup {UnknownId}, db : Db,
   left : Nat, refused : BOOLEAN, status : {0, 200, 409, 500}]

NoRequest == [kind |-> "none", phase |-> "idle", counter |-> 0, at |-> 1,
              id |-> UnknownId, db |-> 1, left |-> 0, refused |-> FALSE, status |-> 0]

RequestTypeOK ==
  /\ DbTypeOK
  /\ request \in [Request -> RequestState]
  /\ sent \in [Db -> SUBSET Request] /\ stored \in [Db -> SUBSET Request]
  /\ performed \in [Request -> Nat]

RequestInit ==
  /\ DbInit
  /\ request = [r \in Request |-> NoRequest]
  /\ sent = [i \in Db |-> {}] /\ stored = [i \in Db |-> {}]
  /\ performed = [r \in Request |-> 0]

-----------------------------------------------------------------------------

In(r, phase) == request[r].phase = phase

Answered(q, code) == [q EXCEPT !.phase = "answered", !.status = code]

\* Only the request's own progress changes.
Becomes(r, q) ==
  /\ request' = [request EXCEPT ![r] = q]
  /\ UNCHANGED <<dbVars, sent, stored, performed>>

\* A response of the route: 500 stands for every error the route has no case
\* for, caught exceptions of the handler included.
Respond(r, code) == Becomes(r, Answered(request[r], code))

\* The database the create request r is at.
Target(r) == WriteOrder[request[r].at]

-----------------------------------------------------------------------------
(* POST /base                                                               *)

PostCounter(r, n) ==
  /\ In(r, "idle")
  /\ LET q == [NoRequest EXCEPT !.kind = "create", !.counter = n, !.phase = "google"]
     IN Becomes(r, IF n < 0 THEN Answered(q, 409) ELSE q)

\* Any status code will do: axios is told to accept them all.
GoogleAnswers(r) ==
  /\ In(r, "google")
  /\ Becomes(r, [request[r] EXCEPT !.phase = "next"])

\* endpoint.request throws; the handler's catch turns that into a Result.
GoogleFails(r) == In(r, "google") /\ Respond(r, 500)

\* Mutant: the handler waits for an instance instead of failing.
RepositoryThrowsNothing(r) ==
  In(r, "next") /\ ~HasInstance(Target(r)) /\ UNCHANGED allVars

\* The repository is built for this call; its factory throws when the manager
\* has no instance to give.
RepositoryThrows(r) ==
  /\ In(r, "next") /\ ~HasInstance(Target(r))
  /\ Respond(r, 500)

SendInsert(r) ==
  /\ In(r, "next") /\ HasInstance(Target(r))
  /\ sent' = [sent EXCEPT ![Target(r)] = @ \cup {r}]
  /\ request' = [request EXCEPT ![r].phase = "writing"]
  /\ UNCHANGED <<dbVars, stored, performed>>

\* The database executes an insert sooner or later, or never; nothing tells a
\* rejected insert from one whose answer was lost.
ExecuteInsert(i, r) ==
  /\ r \in sent[i] \ stored[i]
  /\ stored' = [stored EXCEPT ![i] = @ \cup {r}]
  /\ UNCHANGED <<dbVars, request, sent, performed>>

\* Mutant: createCounter is not awaited.
InsertAcknowledgedAtOnce(r) ==
  /\ In(r, "writing")
  /\ IF request[r].at = N
       THEN Respond(r, 200)
       ELSE Becomes(r, [request[r] EXCEPT !.phase = "next", !.at = @ + 1])

InsertAcknowledged(r) ==
  /\ In(r, "writing") /\ r \in stored[Target(r)]
  /\ IF request[r].at = N
       THEN Respond(r, 200)
       ELSE Becomes(r, [request[r] EXCEPT !.phase = "next", !.at = @ + 1])

\* Mutant: the handler skips a database that fails.
InsertFailsAndGoesOn(r) ==
  /\ In(r, "writing")
  /\ IF request[r].at = N
       THEN Respond(r, 500)
       ELSE Becomes(r, [request[r] EXCEPT !.phase = "next", !.at = @ + 1])

\* createCounter returns a failed Result and the handler gives up; whatever
\* earlier databases hold stays there.
InsertFails(r) == In(r, "writing") /\ Respond(r, 500)

-----------------------------------------------------------------------------
(* GET /internal/test_2/:counterId                                          *)

\* The ids a client can ask for: those it was told in a response, or a guess.
ToldIds == {q \in Request : request[q].kind = "create" /\ request[q].status = 200}

GetCounter(r, id, i) ==
  /\ In(r, "idle")
  /\ LET q == [NoRequest EXCEPT !.kind = "read", !.id = id, !.db = i, !.phase = "reading"]
     IN Becomes(r, IF HasInstance(i) THEN q ELSE Answered(q, 500))

ReadFinds(r) ==
  LET q == request[r] IN
  /\ In(r, "reading") /\ q.id \in stored[q.db]
  /\ LET n == request[q.id].counter IN
     Becomes(r, IF n = 0 THEN Answered(q, 200)
                ELSE [q EXCEPT !.phase = "performing", !.left = n])

ReadMisses(r) ==
  LET q == request[r] IN
  /\ In(r, "reading") /\ (q.id \notin stored[q.db] \/ q.db \in WeakReads)
  /\ Respond(r, 409)

\* Mutant: every getById catches.
ReadFailsCaught(r) == In(r, "reading") /\ Respond(r, 409)

\* Only a caught error is a failed Result; the others are exceptions.
ReadFails(r) ==
  /\ In(r, "reading")
  /\ Respond(r, IF request[r].db \in CaughtReads THEN 409 ELSE 500)

\* Mutant: only the last Result is looked at.
PerformResolvesByTheLast(r, ok) ==
  LET q == [request[r] EXCEPT !.left = @ - 1] IN
  /\ In(r, "performing")
  /\ request' = [request EXCEPT ![r] = IF q.left > 0 THEN q
                                       ELSE Answered(q, IF ok THEN 200 ELSE 500)]
  /\ performed' = [performed EXCEPT ![r] = IF ok THEN @ + 1 ELSE @]
  /\ UNCHANGED <<dbVars, sent, stored>>

\* One of the parallel performTest2 calls resolves, with a Result that says
\* whether its status code was 200; the last one decides the response.
PerformResolves(r, ok) ==
  LET q == [request[r] EXCEPT !.left = @ - 1, !.refused = @ \/ ~ok] IN
  /\ In(r, "performing")
  /\ request' = [request EXCEPT ![r] = IF q.left > 0 THEN q
                                       ELSE Answered(q, IF q.refused THEN 500 ELSE 200)]
  /\ performed' = [performed EXCEPT ![r] = IF ok THEN @ + 1 ELSE @]
  /\ UNCHANGED <<dbVars, sent, stored>>

\* One of them throws: Promise.all rejects at once, the others run on unheeded.
PerformThrows(r) == In(r, "performing") /\ Respond(r, 500)

-----------------------------------------------------------------------------

RequestProgress(r) ==
  \/ GoogleAnswers(r) \/ GoogleFails(r)
  \/ RepositoryThrows(r) \/ SendInsert(r)
  \/ InsertAcknowledged(r) \/ InsertFails(r)
  \/ ReadFinds(r) \/ ReadMisses(r) \/ ReadFails(r)
  \/ \E ok \in BOOLEAN : PerformResolves(r, ok)
  \/ PerformThrows(r)

\* The lifecycle underneath: connect and disconnect passes and their failures.
DatabasesMove ==
  /\ \E c \in Caller :
       \/ \E op \in LifecycleOperation : BeginPass(c, op)
       \/ PassStep(c) \/ Collect(c)
  /\ UNCHANGED requestVars

RequestNext ==
  \/ \E r \in Request :
       \/ \E n \in Counter : PostCounter(r, n)
       \/ \E id \in ToldIds \cup {UnknownId}, i \in Db : GetCounter(r, id, i)
       \/ RequestProgress(r)
       \/ \E i \in Db : ExecuteInsert(i, r)
  \/ DatabasesMove

\* Every await of a request in progress settles: the driver or the remote
\* endpoint answers or errs.
RequestFairness == \A r \in Request : WF_allVars(RequestProgress(r))

RequestSpec == RequestInit /\ [][RequestNext]_allVars /\ RequestFairness

-----------------------------------------------------------------------------
(* Properties                                                               *)

Holders(r) == {i \in Db : r \in stored[i]}
Reached(r) == IF In(r, "writing") \/ In(r, "answered")
                THEN request[r].at ELSE request[r].at - 1

\* The five inserts are not a transaction; what they leave behind, whenever a
\* failure or a disconnect cuts them short, is a front part of the write order:
\* every database before the one the request stopped at holds the counter, none
\* after it does.
StoredIsPrefix ==
  \A r \in Request : request[r].kind = "create" /\ ~In(r, "idle") =>
    /\ {WriteOrder[k] : k \in 1..(request[r].at - 1)} \subseteq Holders(r)
    /\ Holders(r) \subseteq {WriteOrder[k] : k \in 1..Reached(r)}

\* A counterId is only ever handed out once all five databases hold the
\* counter.
ToldMeansStoredEverywhere == \A r \in ToldIds : Holders(r) = Db

\* Reading a counter back that the client was told of is answered with a
\* conflict only where reads are weak or errors are caught; elsewhere a failure
\* is reported as a failure and never as "no such counter".
ToldCounterIsFound ==
  \A r \in Request :
    request[r].kind = "read" /\ request[r].status = 409 /\ request[r].id # UnknownId
      => request[r].db \in WeakReads \cup CaughtReads

\* A read succeeds only after exactly as many performTest2 calls as the counter
\* says have succeeded.
SuccessMeansAllPerformed ==
  \A r \in Request : request[r].kind = "read" /\ request[r].status = 200 =>
    performed[r] = request[request[r].id].counter

\* Every request is answered.
EveryRequestIsAnswered ==
  \A r \in Request : request[r].kind # "none" ~> In(r, "answered")
=============================================================================
