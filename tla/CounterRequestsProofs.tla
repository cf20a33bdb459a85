------------------------ MODULE CounterRequestsProofs ------------------------
(***************************************************************************)
(* CounterRequests proved for every sequence of databases, every write      *)
(* order, every set of requests and every counter, and for every behaviour  *)
(* of the database manager underneath.                                      *)
(***************************************************************************)
EXTENDS CounterRequests, DbManagerProofs

RequestTypes ==
  /\ request \in [Request -> RequestState]
  /\ sent \in [Db -> SUBSET Request] /\ stored \in [Db -> SUBSET Request]
  /\ performed \in [Request -> Nat]

\* How far a request of a kind can have come.
Shape(q) ==
  /\ q.kind = "none" <=> q.phase = "idle"
  /\ q.status # 0 <=> q.phase = "answered"
  /\ q.kind = "create" => q.phase \in {"google", "next", "writing", "answered"}
  /\ q.kind = "read" => q.phase \in {"reading", "performing", "answered"}
  /\ q.kind = "create" /\ q.status # 409 => q.counter \in Nat
  /\ q.phase = "google" => q.at = 1

\* Reached(r) of a request that has become q.
ReachedBy(q) == IF q.phase \in {"writing", "answered"} THEN q.at ELSE q.at - 1

\* Where the inserts of r are when it has become q: acknowledged by every
\* database before the one it is at, and not sent to any after it.
Written(r, q, toDb, inDb) ==
  /\ q.kind = "create" =>
       /\ \A k \in 1..(q.at - 1) : r \in inDb[WriteOrder[k]]
       /\ \A k \in Db : r \in toDb[WriteOrder[k]] => k <= ReachedBy(q)
       /\ q.status = 200 => q.at = N /\ r \in inDb[WriteOrder[N]]
  /\ q.kind # "create" => \A i \in Db : r \notin toDb[i]

\* What a read that has become q has found, after n successful calls: while it
\* performs, the calls made and the calls left add up to the counter.
ReadSoFar(q, n) ==
  /\ q.kind = "read" /\ q.id # UnknownId => q.id \in ToldIds
  /\ q.phase = "performing" =>
       /\ q.id \in ToldIds /\ q.left # 0
       /\ ~q.refused => n + q.left = request[q.id].counter
  /\ q.phase \notin {"performing", "answered"} => n = 0
  /\ q.kind = "read" /\ q.status = 200 => q.id \in ToldIds /\ n = request[q.id].counter
  /\ q.kind = "read" /\ q.status = 409 /\ q.id # UnknownId =>
       q.db \in WeakReads \cup CaughtReads

CounterInv ==
  /\ RequestTypes
  /\ \A i \in Db : stored[i] \subseteq sent[i]
  /\ \A r \in Request : /\ Shape(request[r])
                        /\ Written(r, request[r], sent, stored)
                        /\ ReadSoFar(request[r], performed[r])

LEMMA RequestFields ==
  ASSUME RequestTypes, NEW r \in Request
  PROVE  /\ request[r] \in RequestState /\ performed[r] \in Nat
         /\ request[r].at \in Db /\ request[r].db \in Db /\ request[r].left \in Nat
         /\ request[r].counter \in Int /\ request[r].refused \in BOOLEAN
         /\ request[r].id \in Request \cup {UnknownId}
<1>1. request[r] \in RequestState /\ performed[r] \in Nat
  BY DEF RequestTypes
<1>2. Counter \cup {0} \subseteq Int
  BY RequestAssumption
<1>3. request[r].counter \in Counter \cup {0}
  BY <1>1 DEF RequestState
<1>. QED
  BY <1>1, <1>2, <1>3 DEF RequestState

LEMMA DbNumbers == N \in Nat /\ N \in Db /\ 1 \in Db /\ \A i \in Db : i \in Nat /\ i <= N /\ i >= 1
BY NIsPositive DEF Db

LEMMA OrderIsOneToOne ==
  /\ \A k \in Db : WriteOrder[k] \in Db
  /\ \A j, k \in Db : WriteOrder[j] = WriteOrder[k] => j = k
  /\ \A i \in Db : \E k \in Db : WriteOrder[k] = i
<1>1. \A k \in Db : WriteOrder[k] \in Db
  BY WriteOrderAssumption
<1>2. \A i \in Db : \E k \in Db : \A j \in Db : WriteOrder[j] = i <=> j = k
  BY WriteOrderAssumption
<1>. QED
  BY <1>1, <1>2

-----------------------------------------------------------------------------
(* Steps of one request                                                     *)

\* Whoever was told of a counter has been answered for good: a step of another
\* request leaves the told counters as they are.
LEMMA ToldStay ==
  ASSUME CounterInv, NEW r \in Request, request[r].phase # "answered",
         NEW q, request' = [request EXCEPT ![r] = q]
  PROVE  /\ \A p \in Request : p # r => request'[p] = request[p]
         /\ request'[r] = q
         /\ \A p \in ToldIds : p \in ToldIds' /\ request'[p].counter = request[p].counter
<1>1. /\ \A p \in Request : p # r => request'[p] = request[p]
      /\ request'[r] = q
  BY DEF CounterInv, RequestTypes
<1>2. r \notin ToldIds
  BY DEF CounterInv, Shape, ToldIds
<1>. QED
  BY <1>1, <1>2 DEF ToldIds

LEMMA ReadSoFarStays ==
  ASSUME CounterInv, NEW q, NEW n, ReadSoFar(q, n),
         \A p \in ToldIds : p \in ToldIds' /\ request'[p].counter = request[p].counter
  PROVE  /\ q.kind = "read" /\ q.id # UnknownId => q.id \in ToldIds'
         /\ q.phase = "performing" =>
              /\ q.id \in ToldIds' /\ q.left # 0
              /\ ~q.refused => n + q.left = request'[q.id].counter
         /\ q.phase \notin {"performing", "answered"} => n = 0
         /\ q.kind = "read" /\ q.status = 200 =>
              q.id \in ToldIds' /\ n = request'[q.id].counter
         /\ q.kind = "read" /\ q.status = 409 /\ q.id # UnknownId =>
              q.db \in WeakReads \cup CaughtReads
BY DEF ReadSoFar

\* A request that is not answered yet becomes q; the others keep what they have.
LEMMA RequestMoves ==
  ASSUME CounterInv, NEW r \in Request, request[r].phase # "answered",
         NEW q \in RequestState, request' = [request EXCEPT ![r] = q],
         sent' \in [Db -> SUBSET Request], performed' \in [Request -> Nat],
         UNCHANGED stored,
         \A i \in Db : stored[i] \subseteq sent'[i],
         \A p \in Request : p # r =>
           performed'[p] = performed[p] /\ \A i \in Db : p \in sent'[i] <=> p \in sent[i],
         Shape(q), Written(r, q, sent', stored), ReadSoFar(q, performed'[r])
  PROVE  CounterInv'
<1>1. /\ \A p \in Request : p # r => request'[p] = request[p]
      /\ request'[r] = q
      /\ \A p \in ToldIds : p \in ToldIds' /\ request'[p].counter = request[p].counter
  BY ToldStay
<1>2. RequestTypes'
  BY DEF CounterInv, RequestTypes
<1>3. ASSUME NEW p \in Request PROVE Shape(request'[p])
  BY <1>1 DEF CounterInv
<1>4. ASSUME NEW p \in Request PROVE Written(p, request'[p], sent', stored')
  <2>1. CASE p = r
    BY <1>1, <2>1
  <2>2. CASE p # r
    <3>1. Written(p, request[p], sent, stored) /\ request'[p] = request[p] /\ stored' = stored
      BY <1>1, <2>2 DEF CounterInv
    <3>2. \A i \in Db : p \in sent'[i] <=> p \in sent[i]
      BY <2>2
    <3>. QED
      BY <3>1, <3>2, OrderIsOneToOne DEF Written
  <2>. QED
    BY <2>1, <2>2
<1>5. ASSUME NEW p \in Request PROVE ReadSoFar(request[p], performed[p])'
  <2>1. ReadSoFar(request'[p], performed'[p])
    BY <1>1 DEF CounterInv
  <2>. QED
    BY <1>1, <2>1, ReadSoFarStays DEF ReadSoFar
<1>. QED
  BY <1>2, <1>3, <1>4, <1>5 DEF CounterInv

LEMMA RequestBecomes ==
  ASSUME CounterInv, NEW r \in Request, request[r].phase # "answered",
         NEW q \in RequestState, Becomes(r, q),
         Shape(q), Written(r, q, sent, stored), ReadSoFar(q, performed[r])
  PROVE  CounterInv'
<1>1. /\ request' = [request EXCEPT ![r] = q]
      /\ sent' = sent /\ stored' = stored /\ performed' = performed
  BY DEF Becomes
<1>2. sent \in [Db -> SUBSET Request] /\ performed \in [Request -> Nat]
  BY DEF CounterInv, RequestTypes
<1>. QED
  BY <1>1, <1>2, RequestMoves DEF CounterInv

\* A record stays a request when one of its fields takes another value.
LEMMA OneField ==
  ASSUME NEW q \in RequestState
  PROVE  /\ \A x \in {"create", "read"} : [q EXCEPT !.kind = x] \in RequestState
         /\ \A x \in {"google", "next", "writing", "reading", "performing", "answered"} :
              [q EXCEPT !.phase = x] \in RequestState
         /\ \A x \in Counter : [q EXCEPT !.counter = x] \in RequestState
         /\ \A x \in Db : [q EXCEPT !.at = x] \in RequestState
         /\ \A x \in Request \cup {UnknownId} : [q EXCEPT !.id = x] \in RequestState
         /\ \A x \in Db : [q EXCEPT !.db = x] \in RequestState
         /\ \A x \in Nat : [q EXCEPT !.left = x] \in RequestState
         /\ \A x \in BOOLEAN : [q EXCEPT !.refused = x] \in RequestState
         /\ \A x \in {200, 409, 500} : [q EXCEPT !.status = x] \in RequestState
<1>1. \A x \in {"create", "read"} : [q EXCEPT !.kind = x] \in RequestState
  BY DEF RequestState
<1>2. \A x \in {"google", "next", "writing", "reading", "performing", "answered"} :
        [q EXCEPT !.phase = x] \in RequestState
  BY DEF RequestState
<1>3. \A x \in Counter : [q EXCEPT !.counter = x] \in RequestState
  BY DEF RequestState
<1>4. \A x \in Db : [q EXCEPT !.at = x] \in RequestState /\ [q EXCEPT !.db = x] \in RequestState
  BY DEF RequestState
<1>5. \A x \in Request \cup {UnknownId} : [q EXCEPT !.id = x] \in RequestState
  BY DEF RequestState
<1>6. \A x \in Nat : [q EXCEPT !.left = x] \in RequestState
  BY DEF RequestState
<1>7. \A x \in BOOLEAN : [q EXCEPT !.refused = x] \in RequestState
  BY DEF RequestState
<1>8. \A x \in {200, 409, 500} : [q EXCEPT !.status = x] \in RequestState
  BY DEF RequestState
<1>. QED
  BY <1>1, <1>2, <1>3, <1>4, <1>5, <1>6, <1>7, <1>8

LEMMA AnsweredIs ==
  ASSUME NEW q \in RequestState, NEW code \in {200, 409, 500}
  PROVE  LET a == Answered(q, code) IN
         /\ a \in RequestState /\ a.phase = "answered" /\ a.status = code
         /\ a.kind = q.kind /\ a.at = q.at /\ a.id = q.id /\ a.counter = q.counter
         /\ a.db = q.db /\ a.left = q.left /\ a.refused = q.refused
<1>. DEFINE a == Answered(q, code)
            b == [q EXCEPT !.phase = "answered"]
<1>1. a = [b EXCEPT !.status = code]
  BY DEF Answered
<1>2. b \in RequestState
  BY OneField
<1>3. /\ a.phase = "answered" /\ a.status = code
      /\ a.kind = q.kind /\ a.at = q.at /\ a.id = q.id /\ a.counter = q.counter
      /\ a.db = q.db /\ a.left = q.left /\ a.refused = q.refused
  BY DEF Answered, RequestState
<1>. HIDE DEF b
<1>4. [b EXCEPT !.status = code] \in RequestState
  BY <1>2 DEF RequestState
<1>. HIDE DEF a
<1>5. a \in RequestState
  BY <1>1, <1>4
<1>. QED
  BY <1>3, <1>5 DEF a

LEMMA NoRequestIs == NoRequest \in RequestState
BY DbNumbers DEF NoRequest, RequestState

LEMMA PostStep ==
  ASSUME CounterInv, NEW r \in Request, NEW n \in Counter, PostCounter(r, n)
  PROVE  CounterInv'
<1>. DEFINE google == [NoRequest EXCEPT !.kind = "create", !.counter = n, !.phase = "google"]
            q == IF n < 0 THEN Answered(google, 409) ELSE google
<1>1. /\ n \in Int /\ request[r].phase = "idle" /\ request[r].kind = "none"
      /\ Shape(request[r]) /\ Written(r, request[r], sent, stored)
      /\ ReadSoFar(request[r], performed[r]) /\ Becomes(r, q)
  BY RequestAssumption DEF PostCounter, In, CounterInv, Shape
<1>2. q \in RequestState
  <2>. DEFINE b == [NoRequest EXCEPT !.kind = "create"]
              c == [b EXCEPT !.counter = n]
  <2>1. google = [c EXCEPT !.phase = "google"]
    BY DEF NoRequest
  <2>2. b \in RequestState
    BY NoRequestIs, OneField
  <2>. HIDE DEF b
  <2>3. c \in RequestState
    BY <2>2, OneField
  <2>. HIDE DEF c
  <2>4. [c EXCEPT !.phase = "google"] \in RequestState
    BY <2>3, OneField
  <2>. HIDE DEF google
  <2>5. google \in RequestState
    BY <2>1, <2>4
  <2>. QED
    BY <2>5, AnsweredIs
<1>3. /\ q.kind = "create" /\ q.counter = n /\ q.at = 1
      /\ \/ n >= 0 /\ q.phase = "google" /\ q.status = 0
         \/ n < 0 /\ q.phase = "answered" /\ q.status = 409
  BY <1>1 DEF NoRequest, Answered
<1>. HIDE DEF q
<1>4. Shape(q)
  BY <1>1, <1>3 DEF Shape
<1>5. Written(r, q, sent, stored)
  <2>1. \A i \in Db : r \notin sent[i]
    BY <1>1 DEF Written
  <2>2. \A k \in Db : r \notin sent[WriteOrder[k]]
    BY <2>1, OrderIsOneToOne
  <2>. QED
    BY <1>3, <2>2 DEF Written
<1>6. ReadSoFar(q, performed[r])
  BY <1>1, <1>3 DEF ReadSoFar
<1>. QED
  BY <1>1, <1>2, <1>4, <1>5, <1>6, RequestBecomes

LEMMA GetStep ==
  ASSUME CounterInv, NEW r \in Request, NEW id \in ToldIds \cup {UnknownId}, NEW i \in Db,
         GetCounter(r, id, i)
  PROVE  CounterInv'
<1>. DEFINE read == [NoRequest EXCEPT !.kind = "read", !.id = id, !.db = i, !.phase = "reading"]
            q == IF HasInstance(i) THEN read ELSE Answered(read, 500)
<1>1. /\ request[r].phase = "idle" /\ request[r].kind = "none"
      /\ Written(r, request[r], sent, stored)
      /\ ReadSoFar(request[r], performed[r]) /\ Becomes(r, q)
  BY DEF GetCounter, In, CounterInv, Shape
<1>2. q \in RequestState
  <2>. DEFINE b == [NoRequest EXCEPT !.kind = "read"]
              c == [b EXCEPT !.id = id]
              d == [c EXCEPT !.db = i]
  <2>1. read = [d EXCEPT !.phase = "reading"]
    BY DEF NoRequest
  <2>2. b \in RequestState
    BY NoRequestIs, OneField
  <2>. HIDE DEF b
  <2>. id \in Request \cup {UnknownId}
    BY DEF ToldIds
  <2>3. c \in RequestState
    BY <2>2, OneField
  <2>. HIDE DEF c
  <2>4. d \in RequestState
    BY <2>3, OneField
  <2>. HIDE DEF d
  <2>5. [d EXCEPT !.phase = "reading"] \in RequestState
    BY <2>4, OneField
  <2>. HIDE DEF read
  <2>6. read \in RequestState
    BY <2>1, <2>5
  <2>. QED
    BY <2>6, AnsweredIs
<1>3. /\ q.kind = "read" /\ q.id = id
      /\ \/ q.phase = "reading" /\ q.status = 0
         \/ q.phase = "answered" /\ q.status = 500
  BY <1>1 DEF NoRequest, Answered
<1>. HIDE DEF q
<1>4. Shape(q)
  BY <1>1, <1>3 DEF Shape
<1>5. Written(r, q, sent, stored)
  BY <1>1, <1>3 DEF Written
<1>6. ReadSoFar(q, performed[r])
  BY <1>1, <1>3 DEF ReadSoFar
<1>. QED
  BY <1>1, <1>2, <1>4, <1>5, <1>6, RequestBecomes

\* A failure is answered with 500, wherever it happens.
LEMMA FailureStep ==
  ASSUME CounterInv, NEW r \in Request,
         \/ GoogleFails(r) \/ RepositoryThrows(r) \/ InsertFails(r) \/ PerformThrows(r)
         \/ ReadFails(r) /\ (request[r].db \notin CaughtReads)
  PROVE  CounterInv'
<1>. DEFINE q == Answered(request[r], 500)
<1>1. /\ request[r].phase \in {"google", "next", "writing", "performing", "reading"}
      /\ Becomes(r, q) /\ request[r] \in RequestState
  BY DEF GoogleFails, RepositoryThrows, InsertFails, PerformThrows, ReadFails, Respond, In,
         CounterInv, RequestTypes
<1>2. /\ q \in RequestState /\ q.phase = "answered" /\ q.status = 500
      /\ q.kind = request[r].kind /\ q.at = request[r].at /\ q.id = request[r].id
      /\ q.counter = request[r].counter
  BY <1>1, AnsweredIs
<1>. HIDE DEF q
<1>3. Shape(q)
  BY <1>1, <1>2 DEF Shape, CounterInv
<1>4. Written(r, q, sent, stored)
  <2>1. Written(r, request[r], sent, stored) /\ request[r].at \in Nat
    BY RequestFields, DbNumbers DEF CounterInv
  <2>2. \A k \in Nat : k <= ReachedBy(request[r]) => k <= ReachedBy(q)
    BY <1>2, <2>1 DEF ReachedBy
  <2>. QED
    BY <1>2, <2>1, <2>2, DbNumbers DEF Written
<1>5. ReadSoFar(q, performed[r])
  BY <1>1, <1>2 DEF ReadSoFar, CounterInv
<1>. QED
  BY <1>1, <1>2, <1>3, <1>4, <1>5, RequestBecomes

-----------------------------------------------------------------------------
(* POST /base                                                               *)

LEMMA CreatesOrReads ==
  ASSUME CounterInv, NEW r \in Request
  PROVE  /\ request[r].phase \in {"google", "next", "writing"} =>
              request[r].kind = "create" /\ request[r].status = 0
         /\ request[r].phase \in {"reading", "performing"} =>
              request[r].kind = "read" /\ request[r].status = 0
<1>1. request[r].kind \in {"none", "create", "read"} /\ Shape(request[r])
  BY RequestFields DEF CounterInv, RequestState
<1>. QED
  BY <1>1 DEF Shape

LEMMA GoogleStep ==
  ASSUME CounterInv, NEW r \in Request, GoogleAnswers(r) PROVE CounterInv'
<1>. DEFINE q == [request[r] EXCEPT !.phase = "next"]
<1>1. /\ request[r].phase = "google" /\ Becomes(r, q) /\ request[r] \in RequestState
      /\ Shape(request[r]) /\ Written(r, request[r], sent, stored)
      /\ ReadSoFar(request[r], performed[r]) /\ request[r].at \in Nat
  BY RequestFields, DbNumbers DEF GoogleAnswers, In, CounterInv
<1>2. q \in RequestState
  BY <1>1, OneField
<1>3. /\ q.phase = "next" /\ q.status = request[r].status /\ q.kind = request[r].kind
      /\ q.at = request[r].at /\ q.id = request[r].id /\ q.counter = request[r].counter
  BY <1>1 DEF RequestState
<1>. HIDE DEF q
<1>4. Shape(q) /\ Written(r, q, sent, stored) /\ ReadSoFar(q, performed[r])
  BY <1>1, <1>3 DEF Shape, Written, ReachedBy, ReadSoFar
<1>. QED
  BY <1>1, <1>2, <1>4, RequestBecomes

LEMMA InsertSent ==
  ASSUME CounterInv, NEW r \in Request, SendInsert(r) PROVE CounterInv'
<1>. DEFINE q == [request[r] EXCEPT !.phase = "writing"]
<1>1. /\ request[r].phase = "next" /\ request[r] \in RequestState
      /\ Shape(request[r]) /\ Written(r, request[r], sent, stored)
      /\ ReadSoFar(request[r], performed[r]) /\ request[r].at \in Nat /\ request[r].at \in Db
      /\ request' = [request EXCEPT ![r] = q]
      /\ sent' = [sent EXCEPT ![Target(r)] = @ \cup {r}]
      /\ stored' = stored /\ performed' = performed
  BY RequestFields, DbNumbers DEF SendInsert, In, CounterInv
<1>2. q \in RequestState
  BY <1>1, OneField
<1>3. /\ q.phase = "writing" /\ q.status = request[r].status /\ q.kind = request[r].kind
      /\ q.at = request[r].at /\ q.id = request[r].id /\ q.counter = request[r].counter
  BY <1>1 DEF RequestState
<1>4. /\ sent' \in [Db -> SUBSET Request] /\ performed' \in [Request -> Nat]
      /\ \A i \in Db : stored[i] \subseteq sent'[i]
      /\ \A i \in Db : sent'[i] = IF i = Target(r) THEN sent[i] \cup {r} ELSE sent[i]
  BY <1>1 DEF CounterInv, RequestTypes
<1>. HIDE DEF q
<1>5. Shape(q) /\ ReadSoFar(q, performed[r])
  BY <1>1, <1>3 DEF Shape, ReadSoFar
<1>6. Written(r, q, sent', stored)
  <2>1. q.kind = "create" /\ q.status # 200
    BY <1>1, <1>3, CreatesOrReads
  <2>2. ASSUME NEW k \in Db, r \in sent'[WriteOrder[k]] PROVE k <= q.at
    <3>1. CASE WriteOrder[k] = Target(r)
      BY <1>1, <1>3, <3>1, OrderIsOneToOne, DbNumbers DEF Target
    <3>2. CASE WriteOrder[k] # Target(r)
      <4>1. r \in sent[WriteOrder[k]]
        BY <1>4, <2>2, <3>2, OrderIsOneToOne
      <4>2. k <= request[r].at - 1
        BY <1>1, <1>3, <2>1, <4>1 DEF Written, ReachedBy
      <4>. QED
        BY <1>1, <1>3, <4>2, DbNumbers
    <3>. QED
      BY <3>1, <3>2
  <2>. QED
    BY <1>1, <1>3, <2>1, <2>2 DEF Written, ReachedBy
<1>. QED
  BY <1>1, <1>2, <1>4, <1>5, <1>6, RequestMoves

LEMMA InsertDone ==
  ASSUME CounterInv, NEW r \in Request, InsertAcknowledged(r) PROVE CounterInv'
<1>. USE DEF In
<1>1. /\ request[r].phase = "writing" /\ request[r].kind = "create"
      /\ r \in stored[Target(r)] /\ request[r] \in RequestState
      /\ Shape(request[r]) /\ Written(r, request[r], sent, stored)
      /\ ReadSoFar(request[r], performed[r]) /\ request[r].at \in Nat /\ request[r].at \in Db
  BY RequestFields, CreatesOrReads, DbNumbers DEF InsertAcknowledged, CounterInv
<1>2. CASE request[r].at = N
  <2>. DEFINE q == Answered(request[r], 200)
  <2>1. Becomes(r, q)
    BY <1>2 DEF InsertAcknowledged, Respond
  <2>2. /\ q \in RequestState /\ q.phase = "answered" /\ q.status = 200
        /\ q.kind = "create" /\ q.at = N /\ q.counter = request[r].counter
    BY <1>1, <1>2, AnsweredIs
  <2>. HIDE DEF q
  <2>3. Shape(q) /\ ReadSoFar(q, performed[r])
    BY <1>1, <2>2 DEF Shape, ReadSoFar
  <2>4. Written(r, q, sent, stored)
    BY <1>1, <1>2, <2>2 DEF Written, ReachedBy, Target
  <2>. QED
    BY <1>1, <2>1, <2>2, <2>3, <2>4, RequestBecomes
<1>3. CASE request[r].at # N
  <2>. DEFINE b == [request[r] EXCEPT !.phase = "next"]
              q == [request[r] EXCEPT !.phase = "next", !.at = @ + 1]
  <2>1. Becomes(r, q)
    BY <1>3 DEF InsertAcknowledged
  <2>2. q = [b EXCEPT !.at = request[r].at + 1] /\ b \in RequestState
    <3>1. b \in RequestState
      BY <1>1, OneField
    <3>2. q = [b EXCEPT !.at = request[r].at + 1]
      BY <1>1 DEF RequestState
    <3>. QED
      BY <3>1, <3>2
  <2>3. request[r].at + 1 \in Db /\ request[r].at + 1 \in Nat
    BY <1>1, <1>3, DbNumbers DEF Db
  <2>4. /\ q.phase = "next" /\ q.status = request[r].status /\ q.kind = "create"
        /\ q.at = request[r].at + 1 /\ q.counter = request[r].counter
    BY <1>1 DEF RequestState
  <2>. HIDE DEF b
  <2>5. [b EXCEPT !.at = request[r].at + 1] \in RequestState
    BY <2>2, <2>3, OneField
  <2>6. q \in RequestState
    BY <2>2, <2>5
  <2>. HIDE DEF q
  <2>7. Shape(q) /\ ReadSoFar(q, performed[r])
    BY <1>1, <2>4 DEF Shape, ReadSoFar
  <2>8. Written(r, q, sent, stored)
    <3>1. \A k \in 1..(q.at - 1) : r \in stored[WriteOrder[k]]
      <4>1. \A k \in 1..(q.at - 1) : k \in 1..(request[r].at - 1) \/ k = request[r].at
        BY <1>1, <2>4
      <4>. QED
        BY <1>1, <4>1 DEF Written, Target
    <3>2. \A k \in Db : r \in sent[WriteOrder[k]] => k <= q.at - 1
      BY <1>1, <2>4, DbNumbers DEF Written, ReachedBy
    <3>. QED
      BY <1>1, <2>4, <3>1, <3>2 DEF Written, ReachedBy, Shape
  <2>. QED
    BY <1>1, <2>1, <2>6, <2>7, <2>8, RequestBecomes
<1>. QED
  BY <1>2, <1>3

LEMMA InsertExecuted ==
  ASSUME CounterInv, NEW r \in Request, NEW i \in Db, ExecuteInsert(i, r) PROVE CounterInv'
<1>1. /\ r \in sent[i] /\ request' = request /\ sent' = sent /\ performed' = performed
      /\ stored' = [stored EXCEPT ![i] = @ \cup {r}]
  BY DEF ExecuteInsert
<1>2. /\ RequestTypes' /\ \A k \in Db : stored'[k] \subseteq sent'[k]
      /\ \A k \in Db : stored[k] \subseteq stored'[k]
  BY <1>1 DEF CounterInv, RequestTypes
<1>3. ASSUME NEW p \in Request PROVE Written(p, request'[p], sent', stored')
  <2>1. Written(p, request[p], sent, stored) /\ request[p].at \in Db
    BY RequestFields DEF CounterInv
  <2>2. \A k \in 1..(request[p].at - 1) : k \in Db
    BY <2>1, DbNumbers DEF Db
  <2>. QED
    BY <1>1, <1>2, <2>1, <2>2, OrderIsOneToOne, DbNumbers DEF Written
<1>4. ASSUME NEW p \in Request PROVE ReadSoFar(request[p], performed[p])'
  <2>1. ReadSoFar(request[p], performed[p]) /\ ToldIds' = ToldIds
    BY <1>1 DEF CounterInv, ToldIds
  <2>. QED
    BY <1>1, <2>1 DEF ReadSoFar
<1>. QED
  BY <1>1, <1>2, <1>3, <1>4 DEF CounterInv

-----------------------------------------------------------------------------
(* GET /internal/test_2/:counterId                                          *)

LEMMA ToldAreStored ==
  ASSUME CounterInv, NEW p \in ToldIds
  PROVE  \A i \in Db : p \in stored[i]
<1>1. /\ p \in Request /\ request[p].kind = "create" /\ request[p].status = 200
      /\ Written(p, request[p], sent, stored)
  BY DEF ToldIds, CounterInv
<1>2. \A k \in Db : p \in stored[WriteOrder[k]]
  <2>1. \A k \in Db : k \in 1..(N - 1) \/ k = N
    BY DbNumbers DEF Db
  <2>. QED
    BY <1>1, <2>1 DEF Written
<1>. QED
  BY <1>2, OrderIsOneToOne

\* A read is answered, after n successful calls.
LEMMA ReadAnswered ==
  ASSUME CounterInv, NEW r \in Request, request[r].kind = "read",
         request[r].phase # "answered", NEW code \in {200, 409, 500},
         Becomes(r, Answered(request[r], code)),
         code = 200 => request[r].id \in ToldIds
                       /\ performed[r] = request[request[r].id].counter,
         code = 409 /\ request[r].id # UnknownId => request[r].db \in WeakReads \cup CaughtReads
  PROVE  CounterInv'
<1>. DEFINE q == Answered(request[r], code)
<1>1. /\ request[r] \in RequestState /\ Written(r, request[r], sent, stored)
      /\ ReadSoFar(request[r], performed[r])
  BY RequestFields DEF CounterInv
<1>2. /\ q \in RequestState /\ q.phase = "answered" /\ q.status = code /\ q.kind = "read"
      /\ q.id = request[r].id /\ q.db = request[r].db
  BY <1>1, AnsweredIs
<1>. HIDE DEF q
<1>3. Shape(q) /\ Written(r, q, sent, stored)
  BY <1>1, <1>2 DEF Shape, Written
<1>4. ReadSoFar(q, performed[r])
  BY <1>1, <1>2 DEF ReadSoFar
<1>. QED
  BY <1>2, <1>3, <1>4, RequestBecomes DEF q

LEMMA FindStep ==
  ASSUME CounterInv, NEW r \in Request, ReadFinds(r) PROVE CounterInv'
<1>. DEFINE n == request[request[r].id].counter
<1>1. /\ request[r].phase = "reading" /\ request[r].kind = "read"
      /\ request[r] \in RequestState /\ request[r].db \in Db
      /\ Written(r, request[r], sent, stored) /\ ReadSoFar(request[r], performed[r])
      /\ request[r].id \in stored[request[r].db]
  BY RequestFields, CreatesOrReads DEF ReadFinds, In, CounterInv
<1>2. request[r].id \in ToldIds /\ performed[r] = 0
  <2>1. request[r].id \in Request /\ request[r].id # UnknownId
    BY <1>1, RequestAssumption DEF CounterInv, RequestTypes
  <2>. QED
    BY <1>1, <2>1 DEF ReadSoFar
<1>3. n \in Nat
  BY <1>2 DEF ToldIds, CounterInv, Shape
<1>4. CASE n = 0
  BY <1>1, <1>2, <1>4, ReadAnswered DEF ReadFinds
<1>5. CASE n # 0
  <2>. DEFINE b == [request[r] EXCEPT !.phase = "performing"]
              q == [request[r] EXCEPT !.phase = "performing", !.left = n]
  <2>1. Becomes(r, q)
    BY <1>5 DEF ReadFinds
  <2>2. b \in RequestState
    <3>1. request[r] \in RequestState
      BY <1>1
    <3>. QED
      BY <3>1, OneField
  <2>3. q = [b EXCEPT !.left = n]
    BY <1>1 DEF RequestState
  <2>4. /\ q.phase = "performing" /\ q.status = request[r].status /\ q.kind = "read"
        /\ q.id = request[r].id /\ q.left = n
    BY <1>1 DEF RequestState
  <2>. HIDE DEF b, n
  <2>5. [b EXCEPT !.left = n] \in RequestState
    BY <1>3, <2>2, OneField
  <2>6. q \in RequestState
    BY <2>3, <2>5
  <2>. HIDE DEF q
  <2>7. request[r].status = 0
    BY <1>1, CreatesOrReads
  <2>8. Shape(q) /\ Written(r, q, sent, stored)
    BY <1>1, <2>4, <2>7 DEF Shape, Written
  <2>9. ReadSoFar(q, performed[r])
    <3>1. performed[r] + q.left = n
      BY <1>2, <1>3, <2>4
    <3>. QED
      BY <1>2, <1>5, <2>4, <2>7, <3>1 DEF ReadSoFar, n
  <2>. QED
    BY <1>1, <2>1, <2>6, <2>8, <2>9, RequestBecomes
<1>. QED
  BY <1>4, <1>5

LEMMA MissStep ==
  ASSUME CounterInv, NEW r \in Request,
         ReadMisses(r) \/ (ReadFails(r) /\ request[r].db \in CaughtReads)
  PROVE  CounterInv'
<1>1. /\ request[r].phase = "reading" /\ request[r].kind = "read" /\ request[r].db \in Db
      /\ ReadSoFar(request[r], performed[r])
      /\ Becomes(r, Answered(request[r], 409))
  BY RequestFields, CreatesOrReads DEF ReadMisses, ReadFails, Respond, In, CounterInv
<1>2. request[r].id # UnknownId => request[r].db \in WeakReads \cup CaughtReads
  <2>1. request[r].id # UnknownId => request[r].id \in stored[request[r].db]
    BY <1>1, ToldAreStored DEF ReadSoFar
  <2>. QED
    BY <2>1 DEF ReadMisses
<1>. QED
  BY <1>1, <1>2, ReadAnswered

LEMMA PerformStep ==
  ASSUME CounterInv, NEW r \in Request, NEW ok \in BOOLEAN, PerformResolves(r, ok)
  PROVE  CounterInv'
<1>. DEFINE q == [request[r] EXCEPT !.left = @ - 1, !.refused = @ \/ ~ok]
            code == IF q.refused THEN 500 ELSE 200
            next == IF q.left > 0 THEN q ELSE Answered(q, code)
            n == IF ok THEN performed[r] + 1 ELSE performed[r]
<1>1. /\ request[r].phase = "performing" /\ request[r] \in RequestState
      /\ request[r].left \in Nat /\ request[r].refused \in BOOLEAN /\ performed[r] \in Nat
      /\ Shape(request[r]) /\ Written(r, request[r], sent, stored)
      /\ ReadSoFar(request[r], performed[r])
      /\ request' = [request EXCEPT ![r] = next]
      /\ performed' = [performed EXCEPT ![r] = n] /\ sent' = sent /\ stored' = stored
  BY RequestFields DEF PerformResolves, In, CounterInv
<1>2. request[r].kind = "read" /\ request[r].status = 0 /\ request[r].left - 1 \in Nat
  BY <1>1, CreatesOrReads DEF ReadSoFar
<1>3. /\ q.left = request[r].left - 1 /\ q.refused = (request[r].refused \/ ~ok)
      /\ q.phase = "performing" /\ q.status = 0 /\ q.kind = "read" /\ q.id = request[r].id
  BY <1>1, <1>2 DEF RequestState
<1>4. q \in RequestState
  <2>. DEFINE left == request[r].left - 1
              b == [request[r] EXCEPT !.left = left]
              refused == request[r].refused \/ ~ok
  <2>1. q = [b EXCEPT !.refused = refused]
    BY <1>1 DEF RequestState
  <2>2. request[r] \in RequestState /\ left \in Nat /\ refused \in BOOLEAN
    BY <1>1, <1>2
  <2>. HIDE DEF left, refused
  <2>3. b \in RequestState
    BY <2>2 DEF RequestState
  <2>. HIDE DEF b
  <2>4. [b EXCEPT !.refused = refused] \in RequestState
    BY <2>2, <2>3 DEF RequestState
  <2>. QED
    BY <2>1, <2>4
<1>. HIDE DEF q
<1>5. n \in Nat /\ (~q.refused => n + q.left = request[q.id].counter) /\ q.id \in ToldIds
  <2>1. ~q.refused => ok /\ ~request[r].refused
    BY <1>1, <1>3
  <2>. QED
    BY <1>1, <1>2, <1>3, <2>1 DEF ReadSoFar
<1>6. code \in {500, 200}
  OBVIOUS
<1>. HIDE DEF n
<1>7. /\ next \in RequestState /\ Shape(next) /\ Written(r, next, sent, stored)
      /\ ReadSoFar(next, n)
  <2>1. CASE q.left > 0
    <3>1. next = q /\ q.left # 0
      BY <1>2, <1>3, <2>1
    <3>2. Shape(q) /\ Written(r, q, sent, stored)
      BY <1>1, <1>3 DEF Shape, Written
    <3>3. ReadSoFar(q, n)
      BY <1>3, <1>5, <3>1 DEF ReadSoFar
    <3>. HIDE DEF next
    <3>. QED
      BY <1>4, <3>1, <3>2, <3>3
  <2>2. CASE ~(q.left > 0)
    <3>1. next = Answered(q, code)
      BY <2>2
    <3>. q.left = 0
      <4>1. q.left \in Nat
        BY <1>2, <1>3
      <4>. HIDE DEF next, code
      <4>. QED
        BY <2>2, <4>1
    <3>2. /\ next \in RequestState /\ next.phase = "answered" /\ next.status = code
          /\ next.kind = "read" /\ next.id = q.id
      BY <1>3, <1>4, <1>6, <3>1, AnsweredIs
    <3>3. code = 200 => n = request[q.id].counter
      BY <1>5
    <3>. HIDE DEF next
    <3>4. Shape(next) /\ Written(r, next, sent, stored)
      BY <1>1, <1>2, <1>6, <3>2 DEF Shape, Written
    <3>5. ReadSoFar(next, n)
      BY <1>3, <1>5, <1>6, <3>2, <3>3, <1>1 DEF ReadSoFar
    <3>. QED
      BY <3>2, <3>4, <3>5
  <2>. QED
    BY <2>1, <2>2
<1>. HIDE DEF next
<1>8. /\ performed' \in [Request -> Nat] /\ performed'[r] = n
      /\ \A p \in Request : p # r => performed'[p] = performed[p]
      /\ sent' \in [Db -> SUBSET Request]
      /\ \A i \in Db : stored[i] \subseteq sent'[i]
  BY <1>1, <1>5 DEF CounterInv, RequestTypes
<1>. QED
  BY <1>1, <1>7, <1>8, RequestMoves

-----------------------------------------------------------------------------
(* The invariant and the properties                                         *)

LEMMA DatabaseStep ==
  ASSUME CounterInv, UNCHANGED requestVars PROVE CounterInv'
<1>1. request' = request /\ sent' = sent /\ stored' = stored /\ performed' = performed
  BY DEF requestVars
<1>. QED
  BY <1>1 DEF CounterInv, RequestTypes, Shape, Written, ReachedBy, ReadSoFar, ToldIds

LEMMA ProgressStep ==
  ASSUME CounterInv, NEW r \in Request, RequestProgress(r) PROVE CounterInv'
<1>1. CASE ReadFails(r)
  BY <1>1, FailureStep, MissStep
<1>2. CASE \E ok \in BOOLEAN : PerformResolves(r, ok)
  BY <1>2, PerformStep
<1>3. CASE \/ GoogleFails(r) \/ RepositoryThrows(r) \/ InsertFails(r) \/ PerformThrows(r)
  BY <1>3, FailureStep
<1>4. CASE \/ GoogleAnswers(r) \/ SendInsert(r) \/ InsertAcknowledged(r)
            \/ ReadFinds(r) \/ ReadMisses(r)
  BY <1>4, GoogleStep, InsertSent, InsertDone, FindStep, MissStep
<1>. QED
  BY <1>1, <1>2, <1>3, <1>4 DEF RequestProgress

LEMMA CounterInvPreserved == CounterInv /\ [RequestNext]_allVars => CounterInv'
<1>. SUFFICES ASSUME CounterInv, [RequestNext]_allVars PROVE CounterInv'
  OBVIOUS
<1>1. CASE UNCHANGED allVars
  BY <1>1, DatabaseStep DEF allVars
<1>2. CASE DatabasesMove
  BY <1>2, DatabaseStep DEF DatabasesMove
<1>. QED
  BY <1>1, <1>2, PostStep, GetStep, ProgressStep, InsertExecuted DEF RequestNext

LEMMA CounterInvInitially == RequestInit => CounterInv
<1>. SUFFICES ASSUME RequestInit PROVE CounterInv
  OBVIOUS
<1>1. /\ request \in [Request -> RequestState]
      /\ \A r \in Request : request[r] = NoRequest /\ performed[r] = 0
      /\ \A i \in Db : sent[i] = {} /\ stored[i] = {}
  BY NoRequestIs DEF RequestInit
<1>2. RequestTypes
  BY <1>1 DEF RequestInit, RequestTypes
<1>3. /\ NoRequest.kind = "none" /\ NoRequest.phase = "idle" /\ NoRequest.status = 0
      /\ NoRequest.id = UnknownId
  BY DEF NoRequest
<1>4. \A r \in Request : /\ Shape(request[r]) /\ Written(r, request[r], sent, stored)
                         /\ ReadSoFar(request[r], performed[r])
  BY <1>1, <1>3 DEF Shape, Written, ReadSoFar
<1>. QED
  BY <1>1, <1>2, <1>4 DEF CounterInv

\* What the properties of the requests rest on.
THEOREM CounterInvHolds == RequestSpec => []CounterInv
BY CounterInvInitially, CounterInvPreserved, PTL DEF RequestSpec

\* Requests and databases keep the types of their state.
THEOREM RequestsTypeCorrect == RequestSpec => []RequestTypeOK
<1>1. RequestInit => DbTypeInv
  BY DbTypeInvInitially DEF RequestInit
<1>2. ASSUME DbTypeInv, [RequestNext]_allVars PROVE DbTypeInv'
  <2>1. UNCHANGED dbVars => DbTypeInv'
    BY <1>2, DbTypeInvPreserved
  <2>2. CASE DatabasesMove
    BY <1>2, <2>2, DbTypeInvPreserved DEF DatabasesMove, DbNext, Operation, LifecycleOperation
  <2>3. ASSUME NEW r \in Request, RequestProgress(r) PROVE UNCHANGED dbVars
    BY <2>3 DEF RequestProgress, GoogleAnswers, GoogleFails, RepositoryThrows, SendInsert,
                InsertAcknowledged, InsertFails, ReadFinds, ReadMisses, ReadFails,
                PerformResolves, PerformThrows, Respond, Becomes
  <2>4. CASE \E r \in Request :
               \/ \E n \in Counter : PostCounter(r, n)
               \/ \E id \in ToldIds \cup {UnknownId}, i \in Db : GetCounter(r, id, i)
               \/ \E i \in Db : ExecuteInsert(i, r)
    BY <2>1, <2>4 DEF PostCounter, GetCounter, ExecuteInsert, Becomes
  <2>5. CASE UNCHANGED allVars
    BY <2>1, <2>5 DEF allVars
  <2>. QED
    BY <1>2, <2>1, <2>2, <2>3, <2>4, <2>5 DEF RequestNext
<1>3. DbTypeInv /\ CounterInv => RequestTypeOK
  BY DEF DbTypeInv, CounterInv, RequestTypes, RequestTypeOK
<1>. QED
  BY <1>1, <1>2, <1>3, CounterInvHolds, PTL DEF RequestSpec

\* Whatever cuts the five inserts short, and whatever the database manager does
\* meanwhile, the databases that hold a counter are a front part of the order.
THEOREM InsertsArePrefix == RequestSpec => []StoredIsPrefix
<1>1. ASSUME CounterInv, NEW r \in Request, request[r].kind = "create", ~In(r, "idle")
      PROVE  /\ {WriteOrder[k] : k \in 1..(request[r].at - 1)} \subseteq Holders(r)
             /\ Holders(r) \subseteq {WriteOrder[k] : k \in 1..Reached(r)}
  <2>1. /\ Written(r, request[r], sent, stored) /\ request[r].at \in Db
        /\ \A i \in Db : stored[i] \subseteq sent[i]
    BY <1>1, RequestFields DEF CounterInv
  <2>2. ReachedBy(request[r]) = Reached(r)
    BY DEF ReachedBy, Reached, In
  <2>3. \A k \in 1..(request[r].at - 1) : WriteOrder[k] \in Holders(r)
    <3>1. \A k \in 1..(request[r].at - 1) : k \in Db
      BY <2>1, DbNumbers DEF Db
    <3>. QED
      BY <1>1, <2>1, <3>1, OrderIsOneToOne DEF Written, Holders
  <2>4. ASSUME NEW i \in Holders(r) PROVE \E k \in 1..Reached(r) : i = WriteOrder[k]
    <3>1. PICK k \in Db : WriteOrder[k] = i
      BY OrderIsOneToOne DEF Holders
    <3>2. k <= Reached(r)
      BY <1>1, <2>1, <2>2, <3>1 DEF Written, Holders
    <3>3. k \in 1..Reached(r)
      BY <2>1, <3>2, DbNumbers DEF Reached
    <3>. QED
      BY <3>1, <3>3
  <2>. QED
    BY <2>3, <2>4
<1>2. CounterInv => StoredIsPrefix
  BY <1>1 DEF StoredIsPrefix
<1>. QED
  BY <1>2, CounterInvHolds, PTL

\* A client is told of a counter only once every database holds it.
THEOREM ToldAreStoredEverywhere == RequestSpec => []ToldMeansStoredEverywhere
<1>1. CounterInv => ToldMeansStoredEverywhere
  BY ToldAreStored DEF ToldMeansStoredEverywhere, Holders
<1>. QED
  BY <1>1, CounterInvHolds, PTL

\* Where reads are strong and errors are not caught, a counter that a client was
\* told of is never missed.
THEOREM ToldAreFound == RequestSpec => []ToldCounterIsFound
<1>1. CounterInv => ToldCounterIsFound
  BY DEF CounterInv, ReadSoFar, ToldCounterIsFound
<1>. QED
  BY <1>1, CounterInvHolds, PTL

\* A read succeeds with exactly as many performTest2 calls as the counter says.
THEOREM AllArePerformed == RequestSpec => []SuccessMeansAllPerformed
<1>1. CounterInv => SuccessMeansAllPerformed
  BY DEF CounterInv, ReadSoFar, SuccessMeansAllPerformed
<1>. QED
  BY <1>1, CounterInvHolds, PTL
=============================================================================
