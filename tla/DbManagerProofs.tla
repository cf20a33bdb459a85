--------------------------- MODULE DbManagerProofs ---------------------------
(***************************************************************************)
(* DbManager proved for every sequence of databases, every set of callers   *)
(* and every set of client identities.                                      *)
(***************************************************************************)
EXTENDS DbManager, TLAPS

LEMMA NIsPositive == N \in Nat /\ N >= 1 /\ (\A i \in Db : Databases[i] \in Trait)
<1>1. N \in Nat /\ (\A i \in Db : Databases[i] \in Trait)
  BY DatabasesAssumption DEF N, Db
<1>2. N # 0
  BY DatabasesAssumption, SMT DEF N
<1>. QED
  BY <1>1, <1>2

\* A pass that awaits a driver awaits one that exists, and holds a client.
AwaitsDriver ==
  \A c \in Caller : pass[c].phase = "await" =>
    pass[c].at \in Db /\ pass[c].client # NoClient

DbTypeInv == DbTypeOK /\ AwaitsDriver

LEMMA PassFields ==
  ASSUME DbTypeInv, NEW c \in Caller
  PROVE  /\ pass[c] \in Pass
         /\ pass[c].at \in 1..(N + 1)
         /\ pass[c].client \in Reference
         /\ pass[c].op \in Operation \cup {"none"}
         /\ pass[c].phase \in {"idle", "call", "await", "done"}
BY DEF DbTypeInv, DbTypeOK, Pass

LEMMA NoPassIsPass == NoPass \in Pass
BY NIsPositive, SMT DEF NoPass, Pass, Reference, Operation

\* What a step makes of the pass it moves.
LEMMA MovedPasses ==
  ASSUME NEW p \in Pass
  PROVE  /\ Failed(p) \in Pass
         /\ Failed(p).op = p.op /\ Failed(p).at = p.at
         /\ Failed(p).phase = "done" /\ Failed(p).ok = FALSE
         /\ p.at \in Db => Advanced(p) \in Pass
         /\ Advanced(p).op = p.op /\ Advanced(p).at = p.at + 1
         /\ Advanced(p).phase = "call" /\ Advanced(p).ok = p.ok
         /\ \A k \in Reference :
              /\ Suspend(p, k) \in Pass
              /\ Suspend(p, k).op = p.op /\ Suspend(p, k).at = p.at
              /\ Suspend(p, k).phase = "await" /\ Suspend(p, k).client = k
<1>1. Failed(p) \in Pass
  BY DEF Failed, Pass, Reference
<1>2. ASSUME p.at \in Db PROVE Advanced(p) \in Pass
  <2>1. p.at + 1 \in 1..(N + 1)
    BY <1>2, NIsPositive DEF Db
  <2>. QED
    BY <2>1 DEF Advanced, Pass, Reference
<1>3. /\ Failed(p).op = p.op /\ Failed(p).at = p.at
      /\ Failed(p).phase = "done" /\ Failed(p).ok = FALSE
  BY DEF Failed, Pass
<1>4. /\ Advanced(p).op = p.op /\ Advanced(p).at = p.at + 1
      /\ Advanced(p).phase = "call" /\ Advanced(p).ok = p.ok
  BY DEF Advanced, Pass
<1>5. ASSUME NEW k \in Reference
      PROVE  /\ Suspend(p, k) \in Pass
             /\ Suspend(p, k).op = p.op /\ Suspend(p, k).at = p.at
             /\ Suspend(p, k).phase = "await" /\ Suspend(p, k).client = k
  BY DEF Suspend, Pass
<1>. QED
  BY <1>1, <1>2, <1>3, <1>4, <1>5

\* What SetPass makes of the passes: c's becomes p, of the others at most the
\* client they hold changes, and then to a closed one.
LEMMA SetPassEffect ==
  ASSUME DbTypeInv, NEW c \in Caller, NEW p \in Pass, NEW i, NEW gone,
         SetPass(c, p, i, gone)
  PROVE  /\ pass' \in [Caller -> Pass]
         /\ pass'[c] = p
         /\ \A d \in Caller \ {c} :
              /\ pass'[d].op = pass[d].op /\ pass'[d].at = pass[d].at
              /\ pass'[d].phase = pass[d].phase /\ pass'[d].ok = pass[d].ok
              /\ pass'[d].client \in {pass[d].client, ClosedClient}
<1>1. pass' = [d \in Caller |->
                IF d = c THEN p
                ELSE IF Suspended(d, i) /\ pass[d].client \in gone
                       THEN [pass[d] EXCEPT !.client = ClosedClient]
                       ELSE pass[d]]
  BY DEF SetPass
<1>2. \A d \in Caller : [pass[d] EXCEPT !.client = ClosedClient] \in Pass
  BY DEF DbTypeInv, DbTypeOK, Pass, Reference
<1>3. pass' \in [Caller -> Pass]
  BY <1>1, <1>2 DEF DbTypeInv, DbTypeOK
<1>4. ASSUME NEW d \in Caller \ {c}
      PROVE  /\ pass'[d].op = pass[d].op /\ pass'[d].at = pass[d].at
             /\ pass'[d].phase = pass[d].phase /\ pass'[d].ok = pass[d].ok
             /\ pass'[d].client \in {pass[d].client, ClosedClient}
  <2>1. pass[d] \in Pass
    BY DEF DbTypeInv, DbTypeOK
  <2>2. pass'[d] = pass[d] \/ pass'[d] = [pass[d] EXCEPT !.client = ClosedClient]
    BY <1>1
  <2>. QED
    BY <2>1, <2>2 DEF Pass
<1>. QED
  BY <1>1, <1>3, <1>4

LEMMA SetPassKeepsType ==
  ASSUME DbTypeInv, NEW c \in Caller, NEW p \in Pass, NEW i, NEW gone,
         SetPass(c, p, i, gone), p.phase # "await"
  PROVE  pass' \in [Caller -> Pass] /\ AwaitsDriver'
BY SetPassEffect, ReferenceAssumption DEF AwaitsDriver, DbTypeInv

\* The passes after c's alone has changed.
LEMMA OnePassKeepsType ==
  ASSUME DbTypeInv, NEW c \in Caller, NEW p \in Pass,
         pass' = [pass EXCEPT ![c] = p],
         p.phase = "await" => p.at \in Db /\ p.client # NoClient
  PROVE  pass' \in [Caller -> Pass] /\ AwaitsDriver'
BY DEF DbTypeInv, DbTypeOK, AwaitsDriver

LEMMA TrackOrphansType ==
  ASSUME DbTypeInv, NEW how \in Loss, NEW gone, TrackOrphans(how, gone)
  PROVE  orphaned' \in SUBSET (Db \X Loss)
BY DEF DbTypeInv, DbTypeOK, TrackOrphans

-----------------------------------------------------------------------------
(* The type invariant, action by action                                     *)

LEMMA TypeBegin ==
  ASSUME DbTypeInv, NEW c \in Caller, NEW op \in Operation, StartPass(c, op)
  PROVE  DbTypeInv'
<1>. DEFINE p == [NoPass EXCEPT !.op = op, !.phase = "call"]
<1>1. p \in Pass /\ p.phase = "call"
  BY NoPassIsPass DEF Pass, NoPass
<1>2. pass' = [pass EXCEPT ![c] = p] /\ UNCHANGED <<client, connected, orphaned>>
  BY DEF StartPass
<1>3. pass' \in [Caller -> Pass] /\ AwaitsDriver'
  BY <1>1, <1>2, OnePassKeepsType
<1>. QED
  BY <1>2, <1>3 DEF DbTypeInv, DbTypeOK

LEMMA TypeRefuse ==
  ASSUME DbTypeInv, NEW c \in Caller, RefuseCall(c) \/ CloseNowFails(c) PROVE DbTypeInv'
<1>1. Failed(pass[c]) \in Pass /\ Failed(pass[c]).phase = "done"
  BY PassFields, MovedPasses
<1>2. pass' = [pass EXCEPT ![c] = Failed(pass[c])] /\ UNCHANGED <<client, connected, orphaned>>
  BY DEF RefuseCall, CloseNowFails, DbTypeInv, DbTypeOK
<1>3. pass' \in [Caller -> Pass] /\ AwaitsDriver'
  BY <1>1, <1>2, OnePassKeepsType
<1>. QED
  BY <1>2, <1>3 DEF DbTypeInv, DbTypeOK

LEMMA TypeSkip ==
  ASSUME DbTypeInv, NEW c \in Caller, SkipMigration(c) PROVE DbTypeInv'
<1>1. Advanced(pass[c]) \in Pass /\ Advanced(pass[c]).phase = "call"
  BY PassFields, MovedPasses DEF SkipMigration, Calling
<1>2. pass' = [pass EXCEPT ![c] = Advanced(pass[c])] /\ UNCHANGED <<client, connected, orphaned>>
  BY DEF SkipMigration, DbTypeInv, DbTypeOK
<1>3. pass' \in [Caller -> Pass] /\ AwaitsDriver'
  BY <1>1, <1>2, OnePassKeepsType
<1>. QED
  BY <1>2, <1>3 DEF DbTypeInv, DbTypeOK

LEMMA TypeEnd ==
  ASSUME DbTypeInv, NEW c \in Caller, EndPass(c) \/ Collect(c) PROVE DbTypeInv'
<1>1. CASE EndPass(c)
  <2>. DEFINE p == [pass[c] EXCEPT !.phase = "done", !.ok = TRUE]
  <2>1. p \in Pass /\ p.phase = "done"
    BY PassFields DEF Pass
  <2>2. pass' = [pass EXCEPT ![c] = p]
    BY <1>1 DEF EndPass, DbTypeInv, DbTypeOK
  <2>3. pass' \in [Caller -> Pass] /\ AwaitsDriver'
    BY <2>1, <2>2, OnePassKeepsType
  <2>4. connected' \in BOOLEAN /\ UNCHANGED <<client, orphaned>>
    BY <1>1 DEF EndPass
  <2>. QED
    BY <2>3, <2>4 DEF DbTypeInv, DbTypeOK
<1>2. CASE Collect(c)
  <2>1. pass' = [pass EXCEPT ![c] = NoPass] /\ UNCHANGED <<client, connected, orphaned>>
    BY <1>2 DEF Collect
  <2>2. pass' \in [Caller -> Pass] /\ AwaitsDriver'
    BY <2>1, NoPassIsPass, OnePassKeepsType DEF NoPass
  <2>. QED
    BY <2>1, <2>2 DEF DbTypeInv, DbTypeOK
<1>. QED
  BY <1>1, <1>2

LEMMA TypeSuspend ==
  ASSUME DbTypeInv, NEW c \in Caller, OpenClient(c) \/ IssueClose(c) \/ IssueQuery(c)
  PROVE  DbTypeInv'
<1>1. PICK k \in Reference :
        /\ pass' = [pass EXCEPT ![c] = Suspend(pass[c], k)]
        /\ k # NoClient
  <2>1. CASE OpenClient(c)
    <3>. DEFINE fresh == Client \ Referenced(pass[c].at)
                k == CHOOSE x \in fresh : TRUE
    <3>1. k \in Client
      BY <2>1 DEF OpenClient
    <3>2. pass' = [pass EXCEPT ![c] = Suspend(pass[c], k)]
      BY <2>1 DEF OpenClient, DbTypeInv, DbTypeOK
    <3>. QED
      BY <3>1, <3>2, ClientAssumption DEF Reference
  <2>2. CASE IssueClose(c) \/ IssueQuery(c)
    <3>1. client[pass[c].at] # NoClient /\ pass[c].at \in Db
      BY <2>2 DEF IssueClose, IssueQuery, Calling, Connected
    <3>2. client[pass[c].at] \in Reference
      BY <3>1 DEF DbTypeInv, DbTypeOK
    <3>3. pass' = [pass EXCEPT ![c] = Suspend(pass[c], client[pass[c].at])]
      BY <2>2 DEF IssueClose, IssueQuery, DbTypeInv, DbTypeOK
    <3>. QED
      BY <3>1, <3>2, <3>3
  <2>. QED
    BY <2>1, <2>2
<1>2. pass[c].at \in Db
  BY DEF OpenClient, IssueClose, IssueQuery, Calling
<1>3. /\ Suspend(pass[c], k) \in Pass
      /\ Suspend(pass[c], k).at = pass[c].at
      /\ Suspend(pass[c], k).op = pass[c].op
      /\ Suspend(pass[c], k).client = k
  BY PassFields, MovedPasses
<1>4. pass' \in [Caller -> Pass] /\ AwaitsDriver'
  BY <1>1, <1>2, <1>3, OnePassKeepsType
<1>5. UNCHANGED <<client, connected, orphaned>>
  BY DEF OpenClient, IssueClose, IssueQuery
<1>. QED
  BY <1>4, <1>5 DEF DbTypeInv, DbTypeOK

\* A step that settles a driver call: c's pass is advanced or failed, and
\* somebody's client may have been closed.
LEMMA SettledKeepsType ==
  ASSUME DbTypeInv, NEW c \in Caller, NEW how \in Loss, NEW gone,
         pass[c].at \in Db,
         SetPass(c, Advanced(pass[c]), pass[c].at, gone)
           \/ SetPass(c, Failed(pass[c]), pass[c].at, gone),
         client' \in [Db -> Reference], UNCHANGED connected, TrackOrphans(how, gone)
  PROVE  DbTypeInv'
<1>1. PICK p \in Pass : SetPass(c, p, pass[c].at, gone) /\ p.phase # "await"
  BY PassFields, MovedPasses
<1>2. pass' \in [Caller -> Pass] /\ AwaitsDriver'
  BY <1>1, SetPassKeepsType
<1>3. orphaned' \in SUBSET (Db \X Loss)
  BY TrackOrphansType
<1>. QED
  BY <1>2, <1>3 DEF DbTypeInv, DbTypeOK

LEMMA TypeConnect ==
  ASSUME DbTypeInv, NEW c \in Caller, ConnectSucceeds(c) \/ ConnectFails(c)
  PROVE  DbTypeInv'
<1>1. pass[c].at \in Db /\ pass[c].client \in Reference
  BY PassFields DEF ConnectSucceeds, ConnectFails, Awaiting, DbTypeInv, AwaitsDriver
<1>2. CASE ConnectSucceeds(c)
  <2>1. client' \in [Db -> Reference]
    BY <1>1, <1>2 DEF ConnectSucceeds, DbTypeInv, DbTypeOK
  <2>. QED
    BY <1>1, <1>2, <2>1, SettledKeepsType DEF ConnectSucceeds, Loss
<1>3. CASE ConnectFails(c)
  <2>1. client' \in [Db -> Reference]
    BY <1>3 DEF ConnectFails, DbTypeInv, DbTypeOK
  <2>. QED
    BY <1>1, <1>3, <2>1, SettledKeepsType DEF ConnectFails, Loss
<1>. QED
  BY <1>2, <1>3

LEMMA TypeClose ==
  ASSUME DbTypeInv, NEW c \in Caller, CloseNow(c) \/ CloseSucceeds(c) \/ CloseFails(c)
  PROVE  DbTypeInv'
<1>1. pass[c].at \in Db
  BY DEF CloseNow, Calling, CloseSucceeds, CloseFails, Awaiting, DbTypeInv, AwaitsDriver
<1>2. ASSUME NEW k \in Reference, client' = [client EXCEPT ![pass[c].at] = k]
      PROVE  client' \in [Db -> Reference]
  BY <1>1, <1>2 DEF DbTypeInv, DbTypeOK
<1>3. CASE CloseNow(c)
  <2>1. client' \in [Db -> Reference]
    BY <1>2, <1>3 DEF CloseNow, Reference
  <2>. QED
    BY <1>1, <1>3, <2>1, SettledKeepsType DEF CloseNow, Loss
<1>4. CASE CloseSucceeds(c)
  <2>1. client' \in [Db -> Reference]
    BY <1>2, <1>4 DEF CloseSucceeds, Reference
  <2>. QED
    BY <1>1, <1>4, <2>1, SettledKeepsType DEF CloseSucceeds, Loss
<1>5. CASE CloseFails(c)
  <2>1. PICK gone \in {{}, {pass[c].client}} :
          /\ client' = [client EXCEPT ![pass[c].at] = IF @ \in gone THEN ClosedClient ELSE @]
          /\ SetPass(c, Failed(pass[c]), pass[c].at, gone)
          /\ TrackOrphans("disconnected", gone)
    BY <1>5 DEF CloseFails
  <2>2. client' \in [Db -> Reference]
    BY <1>1, <2>1 DEF DbTypeInv, DbTypeOK, Reference
  <2>. QED
    BY <1>1, <1>5, <2>1, <2>2, SettledKeepsType DEF CloseFails, Loss
<1>. QED
  BY <1>3, <1>4, <1>5

LEMMA TypeQuery ==
  ASSUME DbTypeInv, NEW c \in Caller, QuerySucceeds(c) \/ QueryFails(c)
  PROVE  DbTypeInv'
<1>1. pass[c].at \in Db
  BY DEF QuerySucceeds, QueryFails, Awaiting, DbTypeInv, AwaitsDriver
<1>2. client' \in [Db -> Reference] /\ UNCHANGED connected /\ TrackOrphans("released", {})
  BY DEF QuerySucceeds, QueryFails, DbTypeInv, DbTypeOK
<1>3. \/ SetPass(c, Advanced(pass[c]), pass[c].at, {})
      \/ SetPass(c, Failed(pass[c]), pass[c].at, {})
  BY DEF QuerySucceeds, QueryFails
<1>. QED
  BY <1>1, <1>2, <1>3, SettledKeepsType DEF Loss

LEMMA DbTypeInvInitially == DbInit => DbTypeInv
<1>. SUFFICES ASSUME DbInit PROVE DbTypeInv
  OBVIOUS
<1>1. \A c \in Caller : pass[c] = NoPass /\ pass[c].phase = "idle"
  BY DEF DbInit, NoPass
<1>2. client \in [Db -> Reference] /\ connected \in BOOLEAN /\ orphaned \in SUBSET (Db \X Loss)
  BY DEF DbInit, Reference
<1>3. pass \in [Caller -> Pass]
  BY NoPassIsPass DEF DbInit
<1>. QED
  BY <1>1, <1>2, <1>3 DEF DbTypeInv, DbTypeOK, AwaitsDriver

LEMMA TypePassStep ==
  ASSUME DbTypeInv, NEW c \in Caller, PassStep(c) \/ Collect(c) PROVE DbTypeInv'
<1>1. CASE PassProceeds(c)
  BY <1>1, TypeRefuse, TypeSkip, TypeEnd, TypeSuspend, TypeConnect, TypeClose, TypeQuery
     DEF PassProceeds
<1>2. CASE DriverFails(c)
  BY <1>2, TypeRefuse, TypeConnect, TypeClose, TypeQuery DEF DriverFails
<1>3. CASE Collect(c)
  BY <1>3, TypeEnd
<1>. QED
  BY <1>1, <1>2, <1>3 DEF PassStep

LEMMA DbTypeInvPreserved == DbTypeInv /\ [DbNext]_dbVars => DbTypeInv'
<1>. SUFFICES ASSUME DbTypeInv, [DbNext]_dbVars PROVE DbTypeInv'
  OBVIOUS
<1>1. ASSUME NEW c \in Caller, NEW op \in Operation, BeginPass(c, op) PROVE DbTypeInv'
  BY <1>1, TypeBegin DEF BeginPass
<1>2. CASE UNCHANGED dbVars
  BY <1>2 DEF dbVars, DbTypeInv, DbTypeOK, AwaitsDriver
<1>. QED
  BY <1>1, <1>2, TypePassStep DEF DbNext

\* The manager, its drivers and its passes keep the types of their state, with
\* or without overlapping passes.
THEOREM DbTypeCorrect == DbSpec => []DbTypeOK
<1>1. DbTypeInv => DbTypeOK
  BY DEF DbTypeInv
<1>. QED
  BY <1>1, DbTypeInvInitially, DbTypeInvPreserved, PTL DEF DbSpec

-----------------------------------------------------------------------------
(* One connect or disconnect pass at a time                                 *)

AtMostOne ==
  \A c, d \in Caller :
    pass[c].op \in LifecycleOperation /\ pass[d].op \in LifecycleOperation => c = d

\* While a pass awaits a driver, nobody else changes what it found: a database
\* being connected is still down, one being disconnected still up.
FindingsHold ==
  \A c \in Caller :
    /\ Awaiting(c, "connect") => ~Connected(pass[c].at)
    /\ Awaiting(c, "disconnect") => Connected(pass[c].at)

SerialInv == DbTypeInv /\ AtMostOne /\ FindingsHold /\ PassOwnsItsPrefix

SamePlace(c) ==
  pass'[c].op = pass[c].op /\ pass'[c].at = pass[c].at /\ pass'[c].phase = pass[c].phase

\* A step that connects and disconnects nothing.
LEMMA QuietStep ==
  ASSUME SerialInv, DbTypeInv', NEW c \in Caller, UNCHANGED client,
         \A d \in Caller \ {c} : SamePlace(d),
         pass'[c].op \in LifecycleOperation =>
           \/ pass'[c].op = pass[c].op /\ pass'[c].at = pass[c].at
           \/ pass'[c].at = 1 /\ LifecycleIdle,
         pass'[c].phase = "await" =>
           /\ pass'[c].op = "connect" => ~Connected(pass'[c].at)
           /\ pass'[c].op = "disconnect" => Connected(pass'[c].at)
  PROVE  SerialInv'
<1>. USE DEF SerialInv, SamePlace
<1>1. AtMostOne'
  BY DEF AtMostOne, LifecycleIdle
<1>2. FindingsHold'
  BY DEF FindingsHold, Awaiting, Connected
<1>3. PassOwnsItsPrefix'
  <2>. SUFFICES ASSUME NEW d \in Caller, NEW i \in Db, i < pass'[d].at
                PROVE  /\ pass'[d].op = "connect" => Connected(i)
                       /\ pass'[d].op = "disconnect" => ~Connected(i)
    BY DEF PassOwnsItsPrefix, Connected
  <2>1. ~(pass'[d].at = 1)
    BY NIsPositive DEF Db
  <2>. QED
    BY <2>1 DEF PassOwnsItsPrefix, LifecycleOperation
<1>. QED
  BY <1>1, <1>2, <1>3

\* A step that ends c's call of the driver of the database c is at.
LEMMA LoudStep ==
  ASSUME SerialInv, DbTypeInv', NEW c \in Caller,
         pass[c].op \in LifecycleOperation, pass[c].at \in Db,
         \A j \in Db \ {pass[c].at} : client'[j] = client[j],
         \A d \in Caller \ {c} : SamePlace(d),
         pass'[c].op = pass[c].op, pass'[c].phase # "await",
         \/ pass'[c].at = pass[c].at
         \/ /\ pass'[c].at = pass[c].at + 1
            /\ pass[c].op = "connect" <=> client'[pass[c].at] # NoClient
  PROVE  SerialInv'
<1>. USE DEF SerialInv, SamePlace
<1>1. AtMostOne'
  BY DEF AtMostOne
<1>2. \A d \in Caller \ {c} : pass'[d].op \notin LifecycleOperation
  BY DEF AtMostOne
<1>3. FindingsHold'
  BY <1>2 DEF FindingsHold, Awaiting, LifecycleOperation
<1>4. PassOwnsItsPrefix'
  <2>. SUFFICES ASSUME NEW i \in Db, i < pass'[c].at
                PROVE  /\ pass[c].op = "connect" => client'[i] # NoClient
                       /\ pass[c].op = "disconnect" => client'[i] = NoClient
    BY <1>2 DEF PassOwnsItsPrefix, Connected, LifecycleOperation
  <2>0. i \in Nat /\ pass[c].at \in Nat
    BY NIsPositive DEF Db
  <2>1. CASE i = pass[c].at
    BY <2>0, <2>1 DEF LifecycleOperation
  <2>2. CASE i # pass[c].at
    <3>1. i < pass[c].at
      BY <2>0, <2>2
    <3>. QED
      BY <3>1, <2>2 DEF PassOwnsItsPrefix, Connected
  <2>. QED
    BY <2>1, <2>2
<1>. QED
  BY <1>1, <1>3, <1>4

\* Where the passes are after c's call has ended one way or the other.
LEMMA AdvancedPlaces ==
  ASSUME DbTypeInv, NEW c \in Caller, pass[c].at \in Db, NEW gone,
         SetPass(c, Advanced(pass[c]), pass[c].at, gone)
  PROVE  /\ pass'[c].op = pass[c].op /\ pass'[c].phase = "call"
         /\ pass'[c].at = pass[c].at + 1
         /\ \A d \in Caller \ {c} : SamePlace(d)
<1>1. pass[c] \in Pass /\ Advanced(pass[c]) \in Pass
  BY PassFields, MovedPasses
<1>2. pass'[c] = Advanced(pass[c]) /\ \A d \in Caller \ {c} : SamePlace(d)
  BY <1>1, SetPassEffect DEF SamePlace
<1>3. /\ Advanced(pass[c]).op = pass[c].op /\ Advanced(pass[c]).phase = "call"
      /\ Advanced(pass[c]).at = pass[c].at + 1
  BY <1>1, MovedPasses
<1>. QED
  BY <1>2, <1>3

LEMMA FailedPlaces ==
  ASSUME DbTypeInv, NEW c \in Caller, NEW i, NEW gone,
         SetPass(c, Failed(pass[c]), i, gone)
  PROVE  /\ pass'[c].op = pass[c].op /\ pass'[c].phase = "done"
         /\ pass'[c].at = pass[c].at
         /\ \A d \in Caller \ {c} : SamePlace(d)
<1>1. pass[c] \in Pass /\ Failed(pass[c]) \in Pass
  BY PassFields, MovedPasses
<1>2. pass'[c] = Failed(pass[c]) /\ \A d \in Caller \ {c} : SamePlace(d)
  BY <1>1, SetPassEffect DEF SamePlace
<1>3. /\ Failed(pass[c]).op = pass[c].op /\ Failed(pass[c]).phase = "done"
      /\ Failed(pass[c]).at = pass[c].at
  BY <1>1, MovedPasses
<1>. QED
  BY <1>2, <1>3

LEMMA SerialConnect ==
  ASSUME SerialInv, NEW c \in Caller, ConnectSucceeds(c) PROVE SerialInv'
<1>. DEFINE i == pass[c].at
<1>1. i \in Db /\ pass[c].op = "connect" /\ pass[c].client # NoClient
  BY DEF ConnectSucceeds, Awaiting, SerialInv, DbTypeInv, AwaitsDriver
<1>2. client'[i] # NoClient /\ \A j \in Db \ {i} : client'[j] = client[j]
  BY <1>1 DEF ConnectSucceeds, SerialInv, DbTypeInv, DbTypeOK
<1>3. /\ pass'[c].op = pass[c].op /\ pass'[c].phase # "await" /\ pass'[c].at = i + 1
      /\ \A d \in Caller \ {c} : SamePlace(d)
  BY <1>1, AdvancedPlaces DEF ConnectSucceeds, SerialInv
<1>4. DbTypeInv'
  BY TypeConnect DEF SerialInv
<1>. QED
  BY <1>1, <1>2, <1>3, <1>4, LoudStep DEF LifecycleOperation

LEMMA SerialClose ==
  ASSUME SerialInv, NEW c \in Caller, CloseNow(c) \/ CloseSucceeds(c) PROVE SerialInv'
<1>. DEFINE i == pass[c].at
<1>1. i \in Db /\ pass[c].op = "disconnect"
  BY DEF CloseNow, Calling, CloseSucceeds, Awaiting, SerialInv, DbTypeInv, AwaitsDriver
<1>2. client' = [client EXCEPT ![i] = NoClient]
  BY DEF CloseNow, CloseSucceeds
<1>3. client'[i] = NoClient /\ \A j \in Db \ {i} : client'[j] = client[j]
  BY <1>1, <1>2 DEF SerialInv, DbTypeInv, DbTypeOK
<1>4. PICK gone : SetPass(c, Advanced(pass[c]), i, gone)
  BY DEF CloseNow, CloseSucceeds
<1>5. /\ pass'[c].op = pass[c].op /\ pass'[c].phase # "await" /\ pass'[c].at = i + 1
      /\ \A d \in Caller \ {c} : SamePlace(d)
  BY <1>1, <1>4, AdvancedPlaces DEF SerialInv
<1>6. DbTypeInv'
  BY TypeClose DEF SerialInv
<1>. QED
  BY <1>1, <1>3, <1>5, <1>6, LoudStep DEF LifecycleOperation

LEMMA SerialCloseFails ==
  ASSUME SerialInv, NEW c \in Caller, CloseFails(c) PROVE SerialInv'
<1>. DEFINE i == pass[c].at
<1>1. i \in Db /\ pass[c].op = "disconnect"
  BY DEF CloseFails, Awaiting, SerialInv, DbTypeInv, AwaitsDriver
<1>2. PICK gone : /\ client' = [client EXCEPT ![i] = IF @ \in gone THEN ClosedClient ELSE @]
                  /\ SetPass(c, Failed(pass[c]), i, gone)
  BY DEF CloseFails
<1>3. \A j \in Db \ {i} : client'[j] = client[j]
  BY <1>2 DEF SerialInv, DbTypeInv, DbTypeOK
<1>4. /\ pass'[c].op = pass[c].op /\ pass'[c].phase # "await" /\ pass'[c].at = i
      /\ \A d \in Caller \ {c} : SamePlace(d)
  BY <1>2, FailedPlaces DEF SerialInv
<1>5. DbTypeInv'
  BY TypeClose DEF SerialInv
<1>. QED
  BY <1>1, <1>3, <1>4, <1>5, LoudStep DEF LifecycleOperation

LEMMA SerialBegin ==
  ASSUME SerialInv, NEW c \in Caller, NEW op \in Operation, StartPass(c, op),
         op \in LifecycleOperation => LifecycleIdle
  PROVE  SerialInv'
<1>1. pass' = [pass EXCEPT ![c] = [NoPass EXCEPT !.op = op, !.phase = "call"]]
      /\ UNCHANGED client
  BY DEF StartPass
<1>2. /\ pass'[c].op = op /\ pass'[c].at = 1 /\ pass'[c].phase = "call"
      /\ \A d \in Caller \ {c} : SamePlace(d)
  BY <1>1 DEF NoPass, SerialInv, DbTypeInv, DbTypeOK, SamePlace
<1>3. DbTypeInv'
  BY TypeBegin DEF SerialInv
<1>. QED
  BY <1>1, <1>2, <1>3, QuietStep

\* Steps that change nothing but c's own pass.
LEMMA SerialOwn ==
  ASSUME SerialInv, NEW c \in Caller,
         \/ RefuseCall(c) \/ CloseNowFails(c) \/ SkipMigration(c)
         \/ EndPass(c) \/ Collect(c)
         \/ OpenClient(c) \/ IssueClose(c) \/ IssueQuery(c)
  PROVE  SerialInv'
<1>1. pass[c] \in Pass /\ pass \in [Caller -> Pass]
  BY PassFields DEF SerialInv, DbTypeInv, DbTypeOK
<1>2. UNCHANGED client
  BY DEF RefuseCall, CloseNowFails, SkipMigration, EndPass, Collect,
         OpenClient, IssueClose, IssueQuery
<1>3. PICK p : pass' = [pass EXCEPT ![c] = p]
  <2>1. CASE EndPass(c)
    <3>1. pass' = [pass EXCEPT ![c] = [pass[c] EXCEPT !.phase = "done", !.ok = TRUE]]
      BY <1>1, <2>1 DEF EndPass
    <3>. QED
      BY <3>1
  <2>2. CASE ~EndPass(c)
    BY <2>2 DEF RefuseCall, CloseNowFails, SkipMigration, Collect,
                OpenClient, IssueClose, IssueQuery
  <2>. QED
    BY <2>1, <2>2
<1>4. \A d \in Caller \ {c} : SamePlace(d)
  BY <1>1, <1>3 DEF SamePlace
<1>5. DbTypeInv'
  BY TypeRefuse, TypeSkip, TypeEnd, TypeSuspend DEF SerialInv
<1>6. CASE RefuseCall(c) \/ CloseNowFails(c)
  <2>1. pass'[c] = Failed(pass[c])
    BY <1>1, <1>6 DEF RefuseCall, CloseNowFails
  <2>2. /\ Failed(pass[c]).op = pass[c].op /\ Failed(pass[c]).at = pass[c].at
        /\ Failed(pass[c]).phase = "done"
    BY <1>1, MovedPasses
  <2>. QED
    BY <1>2, <1>4, <1>5, <2>1, <2>2, QuietStep
<1>7. CASE SkipMigration(c)
  <2>1. pass'[c] = Advanced(pass[c]) /\ pass[c].op = "migrate"
    BY <1>1, <1>7 DEF SkipMigration, Calling
  <2>2. Advanced(pass[c]).op = pass[c].op
    BY <1>1, MovedPasses
  <2>. QED
    BY <1>2, <1>4, <1>5, <2>1, <2>2, QuietStep DEF LifecycleOperation
<1>8. CASE EndPass(c)
  <2>1. pass'[c].op = pass[c].op /\ pass'[c].at = pass[c].at /\ pass'[c].phase = "done"
    BY <1>1, <1>8 DEF EndPass, Pass
  <2>. QED
    BY <1>2, <1>4, <1>5, <2>1, QuietStep
<1>9. CASE Collect(c)
  <2>1. pass'[c].op = "none"
    BY <1>1, <1>9 DEF Collect, NoPass
  <2>. QED
    BY <1>2, <1>4, <1>5, <2>1, QuietStep DEF LifecycleOperation
<1>10. CASE OpenClient(c) \/ IssueClose(c) \/ IssueQuery(c)
  <2>1. PICK k : pass'[c] = Suspend(pass[c], k)
    BY <1>1, <1>10 DEF OpenClient, IssueClose, IssueQuery
  <2>2. pass'[c].op = pass[c].op /\ pass'[c].at = pass[c].at
    BY <1>1, <2>1 DEF Suspend, Pass
  <2>3. /\ pass[c].op = "connect" => ~Connected(pass[c].at)
        /\ pass[c].op = "disconnect" => Connected(pass[c].at)
    BY <1>10 DEF OpenClient, IssueClose, IssueQuery, Calling
  <2>. QED
    BY <1>2, <1>4, <1>5, <2>2, <2>3, QuietStep
<1>. QED
  BY <1>6, <1>7, <1>8, <1>9, <1>10

LEMMA SerialAnswers ==
  ASSUME SerialInv, NEW c \in Caller, ConnectFails(c) \/ QuerySucceeds(c) \/ QueryFails(c)
  PROVE  SerialInv'
<1>1. UNCHANGED client /\ pass[c].at \in Db
  BY DEF ConnectFails, QuerySucceeds, QueryFails, Awaiting, SerialInv, DbTypeInv, AwaitsDriver
<1>2. DbTypeInv'
  BY TypeConnect, TypeQuery DEF SerialInv
<1>3. CASE ConnectFails(c) \/ QueryFails(c)
  <2>1. PICK gone : SetPass(c, Failed(pass[c]), pass[c].at, gone)
    BY <1>3 DEF ConnectFails, QueryFails
  <2>2. /\ pass'[c].op = pass[c].op /\ pass'[c].phase = "done"
        /\ pass'[c].at = pass[c].at
        /\ \A d \in Caller \ {c} : SamePlace(d)
    BY <2>1, FailedPlaces DEF SerialInv
  <2>. QED
    BY <1>1, <1>2, <2>2, QuietStep
<1>4. CASE QuerySucceeds(c)
  <2>1. SetPass(c, Advanced(pass[c]), pass[c].at, {}) /\ pass[c].op \notin LifecycleOperation
    BY <1>4 DEF QuerySucceeds, Awaiting, LifecycleOperation
  <2>2. /\ pass'[c].op = pass[c].op /\ pass'[c].phase = "call"
        /\ \A d \in Caller \ {c} : SamePlace(d)
    BY <1>1, <2>1, AdvancedPlaces DEF SerialInv
  <2>. QED
    BY <1>1, <1>2, <2>1, <2>2, QuietStep
<1>. QED
  BY <1>3, <1>4

LEMMA SerialInvInitially == DbInit => SerialInv
<1>. SUFFICES ASSUME DbInit PROVE SerialInv
  OBVIOUS
<1>1. \A c \in Caller : pass[c] = NoPass
  BY DEF DbInit
<1>2. \A c \in Caller : pass[c].op = "none"
  BY <1>1 DEF NoPass
<1>3. AtMostOne /\ FindingsHold /\ PassOwnsItsPrefix
  BY <1>2 DEF AtMostOne, FindingsHold, PassOwnsItsPrefix, Awaiting, LifecycleOperation
<1>. QED
  BY <1>3, DbTypeInvInitially DEF SerialInv

LEMMA SerialPassStep ==
  ASSUME SerialInv, NEW c \in Caller, PassStep(c) \/ Collect(c) PROVE SerialInv'
BY SerialOwn, SerialAnswers, SerialConnect, SerialClose, SerialCloseFails
   DEF PassStep, PassProceeds, DriverFails

LEMMA SerialInvPreserved ==
  ASSUME ~Overlap PROVE SerialInv /\ [DbNext]_dbVars => SerialInv'
<1>. SUFFICES ASSUME SerialInv, [DbNext]_dbVars PROVE SerialInv'
  OBVIOUS
<1>1. CASE DbNext
  BY <1>1, SerialBegin, SerialPassStep DEF DbNext, BeginPass
<1>2. CASE UNCHANGED dbVars
  BY <1>2 DEF dbVars, SerialInv, DbTypeInv, DbTypeOK, AwaitsDriver, AtMostOne,
              FindingsHold, PassOwnsItsPrefix, Awaiting, Connected
<1>. QED
  BY <1>1, <1>2

\* As long as connect and disconnect passes do not overlap, every pass has the
\* databases it has been through in the state it put them in, whatever empties
\* or migrates them meanwhile and whatever fails.
THEOREM PrefixIsOwned == ASSUME ~Overlap PROVE DbSpec => []PassOwnsItsPrefix
<1>1. SerialInv => PassOwnsItsPrefix
  BY DEF SerialInv
<1>2. SerialInv /\ [DbNext]_dbVars => SerialInv'
  BY SerialInvPreserved
<1>. QED
  BY <1>1, <1>2, SerialInvInitially, PTL DEF DbSpec

-----------------------------------------------------------------------------
(* No connect replaces a client                                             *)

LEMMA PassStepKeepsClients ==
  ASSUME SerialInv, NEW c \in Caller, PassStep(c) PROVE KeepsClients
<1>. USE DEF KeepsClients
<1>1. CASE ConnectSucceeds(c)
  <2>1. /\ client[pass[c].at] = NoClient
        /\ client' = [client EXCEPT ![pass[c].at] = pass[c].client]
    BY <1>1 DEF ConnectSucceeds, SerialInv, FindingsHold, Connected
  <2>. QED
    BY <2>1, ClientAssumption DEF SerialInv, DbTypeInv, DbTypeOK
<1>2. CASE CloseNow(c) \/ CloseSucceeds(c)
  <2>1. client' = [client EXCEPT ![pass[c].at] = NoClient]
    BY <1>2 DEF CloseNow, CloseSucceeds
  <2>. QED
    BY <2>1, ClientAssumption DEF SerialInv, DbTypeInv, DbTypeOK
<1>3. CASE CloseFails(c)
  <2>1. PICK gone :
          client' = [client EXCEPT ![pass[c].at] = IF @ \in gone THEN ClosedClient ELSE @]
    BY <1>3 DEF CloseFails
  <2>. QED
    BY <2>1, ClientAssumption DEF SerialInv, DbTypeInv, DbTypeOK
<1>4. CASE \/ RefuseCall(c) \/ SkipMigration(c) \/ EndPass(c) \/ OpenClient(c)
           \/ IssueClose(c) \/ IssueQuery(c) \/ QuerySucceeds(c)
           \/ ConnectFails(c) \/ CloseNowFails(c) \/ QueryFails(c)
  BY <1>4 DEF RefuseCall, SkipMigration, EndPass, OpenClient, IssueClose, IssueQuery,
              QuerySucceeds, ConnectFails, CloseNowFails, QueryFails
<1>. QED
  BY <1>1, <1>2, <1>3, <1>4 DEF PassStep, PassProceeds, DriverFails

LEMMA NextKeepsClients == SerialInv /\ [DbNext]_dbVars => [KeepsClients]_dbVars
<1>. SUFFICES ASSUME SerialInv, DbNext PROVE KeepsClients
  BY DEF dbVars
<1>1. ASSUME NEW c \in Caller, NEW op \in Operation, BeginPass(c, op) PROVE KeepsClients
  BY <1>1 DEF BeginPass, StartPass, KeepsClients
<1>2. ASSUME NEW c \in Caller, Collect(c) PROVE KeepsClients
  BY <1>2 DEF Collect, KeepsClients
<1>. QED
  BY <1>1, <1>2, PassStepKeepsClients DEF DbNext

\* The guard of each driver's connect holds until its client is in place, as
\* long as connect and disconnect passes do not overlap: the check before the
\* await is then as good as one after it.
THEOREM NeverReplaced == ASSUME ~Overlap PROVE DbSpec => ConnectNeverReplaces
<1>1. SerialInv /\ [DbNext]_dbVars => SerialInv'
  BY SerialInvPreserved
<1>. QED
  BY <1>1, NextKeepsClients, SerialInvInitially, PTL DEF DbSpec, ConnectNeverReplaces

-----------------------------------------------------------------------------
(* The manager's flag                                                       *)

\* Between the last driver's answer and the flag there is a connect pass that
\* has nothing left to do but set it.
FlagIsComing ==
  Connected(N) /\ ~connected =>
    \E c \in Caller : pass[c].op = "connect" /\ pass[c].phase = "call" /\ pass[c].at = N + 1

FlagInv == DbTypeInv /\ FlagIsComing

\* A step that leaves the last database and the flag alone, and does not move
\* a pass that is about to set the flag.
LEMMA FlagQuiet ==
  ASSUME FlagInv, DbTypeInv', NEW c \in Caller,
         Connected(N)' => Connected(N), UNCHANGED connected,
         ~(pass[c].op = "connect" /\ pass[c].phase = "call" /\ pass[c].at = N + 1),
         \A d \in Caller \ {c} : SamePlace(d)
  PROVE  FlagInv'
BY DEF FlagInv, FlagIsComing, SamePlace

LEMMA FlagPassStep ==
  ASSUME FlagInv, NEW c \in Caller, PassStep(c) PROVE FlagInv'
<1>1. N \in Db /\ N + 1 \notin Db
  BY NIsPositive DEF Db
<1>2. DbTypeInv' /\ pass \in [Caller -> Pass] /\ pass[c] \in Pass /\ client \in [Db -> Reference]
  BY PassFields, TypePassStep DEF FlagInv, DbTypeInv, DbTypeOK
<1>3. CASE EndPass(c)
  <2>1. CASE pass[c].op = "connect"
    BY <1>2, <1>3, <2>1 DEF EndPass, FlagInv, FlagIsComing
  <2>2. CASE pass[c].op # "connect"
    <3>1. UNCHANGED <<client, connected>> /\ \A d \in Caller \ {c} : SamePlace(d)
      BY <1>2, <1>3, <2>2 DEF EndPass, SamePlace, FlagInv, DbTypeInv, DbTypeOK
    <3>. QED
      BY <1>2, <2>2, <3>1, FlagQuiet DEF Connected
  <2>. QED
    BY <2>1, <2>2
<1>4. CASE \/ RefuseCall(c) \/ SkipMigration(c) \/ OpenClient(c) \/ IssueClose(c)
           \/ IssueQuery(c) \/ CloseNowFails(c)
  <2>1. pass[c].at \in Db /\ UNCHANGED <<client, connected>>
    BY <1>4 DEF RefuseCall, SkipMigration, OpenClient, IssueClose, IssueQuery, CloseNowFails, Calling
  <2>2. \A d \in Caller \ {c} : SamePlace(d)
    BY <1>2, <1>4 DEF RefuseCall, SkipMigration, OpenClient, IssueClose, IssueQuery,
                      CloseNowFails, SamePlace
  <2>. QED
    BY <1>1, <1>2, <2>1, <2>2, FlagQuiet DEF Connected
<1>5. CASE ConnectSucceeds(c)
  <2>1. pass[c].at \in Db /\ pass[c].op = "connect" /\ pass[c].phase = "await"
    BY <1>5 DEF ConnectSucceeds, Awaiting, FlagInv, DbTypeInv, AwaitsDriver
  <2>2. /\ pass'[c].op = "connect" /\ pass'[c].phase = "call"
        /\ pass'[c].at = pass[c].at + 1
        /\ \A d \in Caller \ {c} : SamePlace(d)
    BY <1>5, <2>1, AdvancedPlaces DEF ConnectSucceeds, FlagInv
  <2>3. CASE pass[c].at = N
    BY <1>2, <2>2, <2>3 DEF FlagInv, FlagIsComing
  <2>4. CASE pass[c].at # N
    BY <1>1, <1>2, <1>5, <2>1, <2>2, <2>4, FlagQuiet DEF ConnectSucceeds, Connected
  <2>. QED
    BY <2>3, <2>4
<1>6. CASE CloseNow(c) \/ CloseSucceeds(c)
  <2>1. pass[c].at \in Db /\ pass[c].op = "disconnect"
    BY <1>6 DEF CloseNow, Calling, CloseSucceeds, Awaiting, FlagInv, DbTypeInv, AwaitsDriver
  <2>2. PICK gone : SetPass(c, Advanced(pass[c]), pass[c].at, gone)
    BY <1>6 DEF CloseNow, CloseSucceeds
  <2>3. \A d \in Caller \ {c} : SamePlace(d)
    BY <2>1, <2>2, AdvancedPlaces DEF FlagInv
  <2>4. UNCHANGED connected /\ (Connected(N)' => Connected(N))
    BY <1>1, <1>2, <1>6, <2>1 DEF CloseNow, CloseSucceeds, Connected
  <2>. QED
    BY <1>2, <2>1, <2>3, <2>4, FlagQuiet
<1>7. CASE CloseFails(c)
  <2>1. /\ pass[c].at \in Db /\ pass[c].op = "disconnect" /\ pass[c].client # NoClient
    BY <1>7 DEF CloseFails, Awaiting, FlagInv, DbTypeInv, AwaitsDriver
  <2>2. PICK gone \in {{}, {pass[c].client}} :
          /\ client' = [client EXCEPT ![pass[c].at] = IF @ \in gone THEN ClosedClient ELSE @]
          /\ SetPass(c, Failed(pass[c]), pass[c].at, gone)
    BY <1>7 DEF CloseFails
  <2>3. \A d \in Caller \ {c} : SamePlace(d)
    BY <2>2, FailedPlaces DEF FlagInv
  <2>4. UNCHANGED connected /\ (Connected(N)' => Connected(N))
    BY <1>1, <1>2, <1>7, <2>1, <2>2 DEF CloseFails, Connected
  <2>. QED
    BY <1>2, <2>1, <2>3, <2>4, FlagQuiet
<1>8. CASE ConnectFails(c) \/ QueryFails(c) \/ QuerySucceeds(c)
  <2>1. pass[c].at \in Db /\ pass[c].phase = "await" /\ UNCHANGED <<client, connected>>
    BY <1>8 DEF ConnectFails, QueryFails, QuerySucceeds, Awaiting, FlagInv, DbTypeInv, AwaitsDriver
  <2>2. \A d \in Caller \ {c} : SamePlace(d)
    BY <1>8, <2>1, AdvancedPlaces, FailedPlaces
       DEF ConnectFails, QueryFails, QuerySucceeds, FlagInv
  <2>. QED
    BY <1>2, <2>1, <2>2, FlagQuiet DEF Connected
<1>. QED
  BY <1>3, <1>4, <1>5, <1>6, <1>7, <1>8 DEF PassStep, PassProceeds, DriverFails

LEMMA FlagInvPreserved == FlagInv /\ [DbNext]_dbVars => FlagInv'
<1>. SUFFICES ASSUME FlagInv, [DbNext]_dbVars PROVE FlagInv'
  OBVIOUS
<1>1. ASSUME NEW c \in Caller, NEW op \in Operation, BeginPass(c, op) PROVE FlagInv'
  <2>1. /\ UNCHANGED <<client, connected>> /\ pass[c].phase = "idle"
        /\ \A d \in Caller \ {c} : SamePlace(d)
    BY <1>1 DEF BeginPass, StartPass, SamePlace, FlagInv, DbTypeInv, DbTypeOK
  <2>. QED
    BY <1>1, <2>1, TypeBegin, FlagQuiet DEF FlagInv, Connected, BeginPass
<1>2. ASSUME NEW c \in Caller, Collect(c) PROVE FlagInv'
  <2>1. /\ UNCHANGED <<client, connected>> /\ pass[c].phase = "done"
        /\ \A d \in Caller \ {c} : SamePlace(d)
    BY <1>2 DEF Collect, SamePlace, FlagInv, DbTypeInv, DbTypeOK
  <2>. QED
    BY <1>2, <2>1, TypeEnd, FlagQuiet DEF FlagInv, Connected
<1>3. CASE UNCHANGED dbVars
  BY <1>3 DEF dbVars, FlagInv, FlagIsComing, DbTypeInv, DbTypeOK, AwaitsDriver, Connected
<1>. QED
  BY <1>1, <1>2, <1>3, FlagPassStep DEF DbNext

LEMMA FlagInvInitially == DbInit => FlagInv
<1>. SUFFICES ASSUME DbInit PROVE FlagInv
  OBVIOUS
<1>1. ~Connected(N)
  BY NIsPositive DEF DbInit, Connected, Db
<1>. QED
  BY <1>1, DbTypeInvInitially DEF FlagInv, FlagIsComing

LEMMA FlagInvFollows == FlagInv => FlagFollowsLastDb
BY DEF FlagInv, FlagIsComing, FlagFollowsLastDb, LifecycleIdle, LifecycleOperation

\* No set of connected databases stays hidden behind the manager's own flag,
\* even when passes overlap.
THEOREM FlagFollows == DbSpec => []FlagFollowsLastDb
BY FlagInvInitially, FlagInvPreserved, FlagInvFollows, PTL DEF DbSpec

-----------------------------------------------------------------------------
(* What a step of a connect or disconnect pass does, for those who call it  *)

\* The pass goes on to the next database exactly when it has changed the one it
\* was at, and it ends well exactly when there is no next one.
Step(c) ==
  \/ pass'[c].at = pass[c].at /\ \A i \in Db : client'[i] # NoClient <=> Connected(i)
  \/ /\ pass[c].at \in Db /\ pass'[c].at = pass[c].at + 1 /\ pass'[c].phase = "call"
     /\ Connected(pass[c].at) <=> pass[c].op = "disconnect"
     /\ client'[pass[c].at] # NoClient <=> pass[c].op = "connect"
     /\ \A i \in Db \ {pass[c].at} : client'[i] = client[i]

Outcome(p, flag) ==
  p.phase = "done" => /\ p.ok <=> p.at = N + 1
                      /\ p.ok /\ p.op = "connect" => flag

\* A step that leaves every client, and c's own place but for its phase.
LEMMA StepInPlace ==
  ASSUME SerialInv, NEW c \in Caller,
         \/ RefuseCall(c) \/ CloseNowFails(c) \/ EndPass(c)
         \/ OpenClient(c) \/ IssueClose(c) \/ IssueQuery(c)
  PROVE  /\ Step(c) /\ Outcome(pass'[c], connected')
         /\ pass'[c].op = pass[c].op /\ pass[c].phase = "call"
         /\ \A d \in Caller \ {c} : pass'[d] = pass[d]
<1>1. pass[c] \in Pass /\ pass \in [Caller -> Pass] /\ N + 1 \notin Db
  BY PassFields, NIsPositive DEF SerialInv, DbTypeInv, DbTypeOK, Db
<1>2. UNCHANGED client /\ pass[c].phase = "call"
  BY DEF RefuseCall, CloseNowFails, EndPass, OpenClient, IssueClose, IssueQuery, Calling
<1>3. CASE RefuseCall(c) \/ CloseNowFails(c)
  <2>1. pass' = [pass EXCEPT ![c] = Failed(pass[c])] /\ pass[c].at \in Db
    BY <1>1, <1>3 DEF RefuseCall, CloseNowFails, Calling
  <2>2. /\ Failed(pass[c]).op = pass[c].op /\ Failed(pass[c]).at = pass[c].at
        /\ Failed(pass[c]).ok = FALSE
    BY <1>1, MovedPasses
  <2>. QED
    BY <1>1, <1>2, <2>1, <2>2 DEF Step, Outcome, Connected
<1>4. CASE EndPass(c)
  <2>1. /\ pass' = [pass EXCEPT ![c] = [pass[c] EXCEPT !.phase = "done", !.ok = TRUE]]
        /\ pass[c].at = N + 1 /\ connected' = (connected \/ pass[c].op = "connect")
    BY <1>1, <1>4 DEF EndPass
  <2>2. /\ pass'[c].op = pass[c].op /\ pass'[c].at = N + 1 /\ pass'[c].ok = TRUE
    BY <1>1, <2>1 DEF Pass
  <2>. QED
    BY <1>1, <1>2, <2>1, <2>2 DEF Step, Outcome, Connected
<1>5. CASE OpenClient(c) \/ IssueClose(c) \/ IssueQuery(c)
  <2>1. PICK k : pass' = [pass EXCEPT ![c] = Suspend(pass[c], k)]
    BY <1>1, <1>5 DEF OpenClient, IssueClose, IssueQuery
  <2>2. pass'[c].op = pass[c].op /\ pass'[c].at = pass[c].at /\ pass'[c].phase = "await"
    BY <1>1, <2>1 DEF Suspend, Pass
  <2>. QED
    BY <1>1, <1>2, <2>1, <2>2 DEF Step, Outcome, Connected
<1>. QED
  BY <1>3, <1>4, <1>5

LEMMA StepToNext ==
  ASSUME SerialInv, NEW c \in Caller,
         ConnectSucceeds(c) \/ CloseNow(c) \/ CloseSucceeds(c)
  PROVE  /\ Step(c) /\ Outcome(pass'[c], connected')
         /\ pass'[c].op = pass[c].op /\ pass[c].phase \in {"call", "await"}
         /\ \A d \in Caller \ {c} : SamePlace(d)
<1>. DEFINE i == pass[c].at
<1>1. i \in Db \/ CloseNow(c)
  BY DEF ConnectSucceeds, CloseSucceeds, Awaiting, SerialInv, DbTypeInv, AwaitsDriver
<1>2. i \in Db /\ pass[c].phase \in {"call", "await"}
  BY <1>1 DEF CloseNow, Calling, ConnectSucceeds, CloseSucceeds, Awaiting
<1>3. PICK gone : SetPass(c, Advanced(pass[c]), i, gone)
  BY DEF ConnectSucceeds, CloseNow, CloseSucceeds
<1>4. /\ pass'[c].op = pass[c].op /\ pass'[c].phase = "call" /\ pass'[c].at = i + 1
      /\ \A d \in Caller \ {c} : SamePlace(d)
  BY <1>2, <1>3, AdvancedPlaces DEF SerialInv
<1>5. CASE ConnectSucceeds(c)
  <2>1. client' = [client EXCEPT ![i] = pass[c].client] /\ pass[c].op = "connect"
    BY <1>5 DEF ConnectSucceeds, Awaiting
  <2>2. ~Connected(i) /\ pass[c].client # NoClient
    BY <1>5 DEF ConnectSucceeds, SerialInv, FindingsHold, DbTypeInv, AwaitsDriver, Awaiting
  <2>. QED
    BY <1>2, <1>4, <2>1, <2>2 DEF Step, Outcome, SerialInv, DbTypeInv, DbTypeOK
<1>6. CASE CloseNow(c) \/ CloseSucceeds(c)
  <2>1. client' = [client EXCEPT ![i] = NoClient] /\ pass[c].op = "disconnect"
    BY <1>6 DEF CloseNow, CloseSucceeds, Awaiting, Calling
  <2>2. Connected(i)
    BY <1>6 DEF CloseNow, CloseSucceeds, SerialInv, FindingsHold
  <2>. QED
    BY <1>2, <1>4, <2>1, <2>2 DEF Step, Outcome, SerialInv, DbTypeInv, DbTypeOK
<1>. QED
  BY <1>5, <1>6

LEMMA StepFails ==
  ASSUME SerialInv, NEW c \in Caller,
         ConnectFails(c) \/ CloseFails(c)
  PROVE  /\ Step(c) /\ Outcome(pass'[c], connected')
         /\ pass'[c].op = pass[c].op /\ pass[c].phase \in {"call", "await"}
         /\ \A d \in Caller \ {c} : SamePlace(d)
<1>. DEFINE i == pass[c].at
<1>1. i \in Db /\ pass[c].client # NoClient /\ pass[c].phase = "await"
  BY DEF ConnectFails, CloseFails, Awaiting, SerialInv, DbTypeInv, AwaitsDriver
<1>2. PICK gone : /\ SetPass(c, Failed(pass[c]), i, gone)
                  /\ \/ UNCHANGED client
                     \/ /\ client' = [client EXCEPT ![i] = IF @ \in gone THEN ClosedClient ELSE @]
                        /\ gone \in {{}, {pass[c].client}}
  BY DEF ConnectFails, CloseFails
<1>3. /\ pass'[c].op = pass[c].op /\ pass'[c].at = i /\ pass'[c].phase = "done"
      /\ \A d \in Caller \ {c} : SamePlace(d)
  BY <1>2, FailedPlaces DEF SerialInv
<1>4. pass'[c].ok = FALSE /\ i # N + 1
  <2>1. pass[c] \in Pass /\ Failed(pass[c]) \in Pass /\ Failed(pass[c]).ok = FALSE
    BY PassFields, MovedPasses DEF SerialInv
  <2>2. pass'[c] = Failed(pass[c])
    BY <1>2, <2>1, SetPassEffect DEF SerialInv
  <2>3. i # N + 1
    BY <1>1, NIsPositive DEF Db
  <2>. QED
    BY <2>1, <2>2, <2>3
<1>5. \A j \in Db : client'[j] # NoClient <=> Connected(j)
  BY <1>1, <1>2, ReferenceAssumption DEF Connected, SerialInv, DbTypeInv, DbTypeOK
<1>. QED
  BY <1>1, <1>3, <1>4, <1>5 DEF Step, Outcome

LEMMA LifecycleStep ==
  ASSUME SerialInv, NEW c \in Caller, PassStep(c), pass[c].op \in LifecycleOperation
  PROVE  /\ Step(c) /\ Outcome(pass'[c], connected')
         /\ pass'[c].op = pass[c].op /\ pass[c].phase \in {"call", "await"}
         /\ \A d \in Caller \ {c} : SamePlace(d)
<1>1. ~(SkipMigration(c) \/ QuerySucceeds(c) \/ QueryFails(c))
  BY DEF SkipMigration, QuerySucceeds, QueryFails, Calling, Awaiting, LifecycleOperation
<1>2. (\A d \in Caller \ {c} : pass'[d] = pass[d]) => \A d \in Caller \ {c} : SamePlace(d)
  BY DEF SamePlace
<1>. QED
  BY <1>1, <1>2, StepInPlace, StepToNext, StepFails DEF PassStep, PassProceeds, DriverFails
-----------------------------------------------------------------------------
(* No client is lost                                                        *)

\* A disconnect awaits the client that state.data refers to; so does whoever else
\* awaits an open client of a driver that closes what it disconnects.
HoldsCurrent(c) ==
  /\ pass[c].phase = "await" /\ pass[c].op # "connect"
  /\ \/ pass[c].op = "disconnect"
     \/ pass[c].client \in Client /\ Databases[pass[c].at].closes = "always"
  => pass[c].client = client[pass[c].at]

OrphanInv == SerialInv /\ (\A c \in Caller : HoldsCurrent(c)) /\ NoOrphanedClient

\* SetPass as seen by the passes that it does not move.
LEMMA OtherPasses ==
  ASSUME DbTypeInv, NEW c \in Caller, NEW p \in Pass, NEW i, NEW gone,
         SetPass(c, p, i, gone), NEW d \in Caller \ {c}
  PROVE  /\ SamePlace(d)
         /\ Suspended(d, i) /\ pass[d].client \in gone => pass'[d].client = ClosedClient
         /\ ~(Suspended(d, i) /\ pass[d].client \in gone) => pass'[d] = pass[d]
BY SetPassEffect DEF SetPass, SamePlace, DbTypeInv, DbTypeOK, Pass

\* When c's call of database i ends, a client of j keeps a reference unless the
\* step closes it or c held the only one.
LEMMA NothingLost ==
  ASSUME DbTypeInv, NEW c \in Caller, NEW p \in Pass, NEW i \in Db, NEW gone,
         SetPass(c, p, i, gone), pass[c].phase = "await" => pass[c].at = i,
         NEW j \in Db,
         j # i => client'[j] = client[j],
         j = i => \A x \in Client :
                    x = client[i] \/ (pass[c].phase = "await" /\ x = pass[c].client) =>
                      x \in gone \/ x = client'[i]
  PROVE  Referenced(j) \ (gone \cup Referenced(j)') = {}
<1>. SUFFICES ASSUME NEW x \in Referenced(j), x \notin gone PROVE x \in Referenced(j)'
  OBVIOUS
<1>1. x \in Client
  BY DEF Referenced
<1>2. CASE x = client[j]
  BY <1>1, <1>2 DEF Referenced
<1>3. ASSUME NEW d \in Caller, Suspended(d, j), x = pass[d].client PROVE x \in Referenced(j)'
  <2>1. CASE d = c
    <3>1. j = i
      BY <1>3, <2>1 DEF Suspended
    <3>. QED
      BY <1>1, <1>3, <2>1, <3>1 DEF Referenced, Suspended
  <2>2. CASE d # c
    <3>1. pass'[d] = pass[d]
      BY <1>3, <2>2, OtherPasses
    <3>. QED
      BY <1>1, <1>3, <3>1 DEF Referenced, Suspended
  <2>. QED
    BY <2>1, <2>2
<1>. QED
  BY <1>2, <1>3 DEF Referenced

\* A step that moves c's pass alone and leaves every client and history alone.
LEMMA OrphanQuiet ==
  ASSUME OrphanInv, SerialInv', NEW c \in Caller, UNCHANGED <<client, orphaned>>,
         \A d \in Caller \ {c} : pass'[d] = pass[d],
         pass'[c].phase = "await" =>
           pass'[c].op = "connect" \/ pass'[c].client = client[pass'[c].at]
  PROVE  OrphanInv'
BY DEF OrphanInv, HoldsCurrent, NoOrphanedClient

\* The losses of database i that NoOrphanedClient admits, or that do not count.
Admitted(i, how) ==
  \/ how = "refused" /\ Databases[i].leaksOnFailedConnect
  \/ how \in {"disconnected", "released"} /\ Databases[i].closes # "always"

\* A step that ends c's call of a driver and closes the clients in gone.
Settles(c, p, how, gone) ==
  /\ pass[c].at \in Db /\ SetPass(c, p, pass[c].at, gone) /\ p.phase # "await"
  /\ \/ pass[c].op \in LifecycleOperation
     \/ gone = {} /\ UNCHANGED client
  /\ \A j \in Db \ {pass[c].at} : client'[j] = client[j]
  /\ Databases[pass[c].at].closes = "always" /\ client[pass[c].at] \in Client \ gone =>
       client'[pass[c].at] = client[pass[c].at]
  /\ \/ Admitted(pass[c].at, how)
     \/ \A x \in Client :
          x = client[pass[c].at] \/ (pass[c].phase = "await" /\ x = pass[c].client) =>
            x \in gone \/ x = client'[pass[c].at]
  /\ TrackOrphans(how, gone)

LEMMA OrphanSettled ==
  ASSUME OrphanInv, SerialInv', NEW c \in Caller, NEW p \in Pass, NEW how \in Loss, NEW gone,
         Settles(c, p, how, gone)
  PROVE  OrphanInv'
<1>. DEFINE i == pass[c].at
<1>. USE DEF Settles
<1>1. DbTypeInv /\ pass'[c] = p /\ AtMostOne
  BY SetPassEffect DEF OrphanInv, SerialInv
<1>2. ASSUME NEW d \in Caller PROVE HoldsCurrent(d)'
  <2>1. CASE d = c
    BY <1>1, <2>1 DEF HoldsCurrent
  <2>2. CASE d # c
    <3>. SUFFICES ASSUME pass'[d].phase = "await", pass'[d].op # "connect",
                         \/ pass'[d].op = "disconnect"
                         \/ /\ pass'[d].client \in Client
                            /\ Databases[pass'[d].at].closes = "always"
                  PROVE  pass'[d].client = client'[pass'[d].at]
      BY DEF HoldsCurrent
    <3>1. SamePlace(d) /\ HoldsCurrent(d) /\ pass[d].at \in Db
      BY <1>1, <2>2, OtherPasses DEF OrphanInv, SamePlace, DbTypeInv, AwaitsDriver
    <3>2. pass[d].op = "disconnect" => gone = {} /\ UNCHANGED client
      BY <1>1, <2>2 DEF AtMostOne, LifecycleOperation
    <3>3. pass'[d] = pass[d]
      <4>1. ~(Suspended(d, i) /\ pass[d].client \in gone)
        BY <1>1, <2>2, <3>1, <3>2, OtherPasses, ClientAssumption DEF SamePlace
      <4>. QED
        BY <1>1, <2>2, <4>1, OtherPasses
    <3>4. pass[d].client = client[pass[d].at]
      BY <3>1, <3>3 DEF HoldsCurrent
    <3>5. CASE pass[d].at = i
      <4>1. pass[d].op # "disconnect" => pass[d].client \in Client \ gone
        BY <1>1, <2>2, <3>1, <3>3, <3>5, OtherPasses, ClientAssumption DEF Suspended
      <4>. QED
        BY <3>2, <3>3, <3>4, <3>5, <4>1
    <3>6. CASE pass[d].at # i
      BY <3>1, <3>3, <3>4, <3>6
    <3>. QED
      BY <3>5, <3>6
  <2>. QED
    BY <2>1, <2>2
<1>3. ASSUME NEW j \in Db, j = i => ~Admitted(i, how)
      PROVE  Referenced(j) \ (gone \cup Referenced(j)') = {}
  <2>1. j = i => \A x \in Client :
          x = client[i] \/ (pass[c].phase = "await" /\ x = pass[c].client) =>
            x \in gone \/ x = client'[i]
    BY <1>3
  <2>. QED
    BY <1>1, <2>1, NothingLost
<1>4. ASSUME NEW j \in Db, NEW h, <<j, h>> \in orphaned'
      PROVE  h = how /\ ~Drains(j, how) /\ j = i /\ Admitted(i, how)
  <2>1. h = how /\ ~Drains(j, how) /\ Referenced(j) \ (gone \cup Referenced(j)') # {}
    BY <1>4 DEF TrackOrphans
  <2>. QED
    BY <1>3, <2>1
<1>5. Databases[i] \in Trait
  BY DatabasesAssumption DEF Db, N
<1>6. NoOrphanedClient'
  BY <1>4, <1>5 DEF NoOrphanedClient, Admitted, Drains, Trait
<1>. QED
  BY <1>2, <1>6 DEF OrphanInv

LEMMA OrphanPassStep ==
  ASSUME OrphanInv, NEW c \in Caller, PassStep(c) \/ Collect(c) PROVE OrphanInv'
<1>. DEFINE i == pass[c].at
<1>1. SerialInv' /\ SerialInv /\ DbTypeInv /\ HoldsCurrent(c) /\ pass[c] \in Pass
  BY SerialPassStep, PassFields DEF OrphanInv, SerialInv
<1>2. pass \in [Caller -> Pass] /\ client \in [Db -> Reference]
  BY <1>1 DEF DbTypeInv, DbTypeOK
<1>3. Failed(pass[c]) \in Pass /\ Failed(pass[c]).phase # "await"
  BY <1>1, MovedPasses
<1>4. i \in Db => Advanced(pass[c]) \in Pass /\ Advanced(pass[c]).phase # "await"
  BY <1>1, MovedPasses
<1>5. CASE \/ RefuseCall(c) \/ CloseNowFails(c) \/ SkipMigration(c)
           \/ EndPass(c) \/ Collect(c)
  <2>1. /\ UNCHANGED <<client, orphaned>> /\ \A d \in Caller \ {c} : pass'[d] = pass[d]
    BY <1>2, <1>5 DEF RefuseCall, CloseNowFails, SkipMigration, EndPass, Collect
  <2>2. pass'[c].phase # "await"
    <3>1. CASE RefuseCall(c) \/ CloseNowFails(c)
      BY <1>2, <1>3, <3>1 DEF RefuseCall, CloseNowFails
    <3>2. CASE SkipMigration(c)
      BY <1>2, <1>4, <3>2 DEF SkipMigration, Calling
    <3>3. CASE EndPass(c) \/ Collect(c)
      BY <1>1, <1>2, <3>3 DEF EndPass, Collect, NoPass, Pass
    <3>. QED
      BY <1>5, <3>1, <3>2, <3>3
  <2>. QED
    BY <1>1, <2>1, <2>2, OrphanQuiet
<1>6. CASE OpenClient(c) \/ IssueClose(c) \/ IssueQuery(c)
  <2>1. /\ UNCHANGED <<client, orphaned>> /\ \A d \in Caller \ {c} : pass'[d] = pass[d]
    BY <1>2, <1>6 DEF OpenClient, IssueClose, IssueQuery
  <2>2. PICK k : /\ pass'[c] = Suspend(pass[c], k)
                 /\ pass[c].op = "connect" \/ k = client[i]
    BY <1>2, <1>6 DEF OpenClient, IssueClose, IssueQuery, Calling
  <2>3. pass'[c].op = pass[c].op /\ pass'[c].at = i /\ pass'[c].client = k
    BY <1>1, <2>2 DEF Suspend, Pass
  <2>. QED
    BY <1>1, <2>1, <2>2, <2>3, OrphanQuiet
<1>7. CASE ConnectSucceeds(c)
  <2>1. i \in Db /\ pass[c].op \in LifecycleOperation /\ client[i] = NoClient
    BY <1>1, <1>7 DEF ConnectSucceeds, Awaiting, SerialInv, DbTypeInv, AwaitsDriver,
                      FindingsHold, Connected, LifecycleOperation
  <2>2. client' = [client EXCEPT ![i] = pass[c].client]
        /\ SetPass(c, Advanced(pass[c]), i, {}) /\ TrackOrphans("replaced", {})
    BY <1>7 DEF ConnectSucceeds
  <2>3. client'[i] = pass[c].client /\ \A j \in Db \ {i} : client'[j] = client[j]
    BY <1>2, <2>1, <2>2
  <2>4. PICK p \in Pass : SetPass(c, p, i, {}) /\ p.phase # "await"
    BY <1>4, <2>1, <2>2
  <2>5. client[i] \notin Client
    BY <2>1, ClientAssumption
  <2>6. Settles(c, p, "replaced", {})
    BY <2>1, <2>2, <2>3, <2>4, <2>5 DEF Settles
  <2>. QED
    BY <1>1, <2>4, <2>6, OrphanSettled DEF Loss
<1>8. CASE ConnectFails(c)
  <2>1. i \in Db /\ pass[c].op \in LifecycleOperation /\ UNCHANGED client
    BY <1>1, <1>8 DEF ConnectFails, Awaiting, DbTypeInv, AwaitsDriver, LifecycleOperation
  <2>2. PICK gone :
          /\ SetPass(c, Failed(pass[c]), i, gone) /\ TrackOrphans("refused", gone)
          /\ Databases[i].leaksOnFailedConnect \/ gone = {pass[c].client}
    BY <1>8 DEF ConnectFails
  <2>3. PICK p \in Pass : SetPass(c, p, i, gone) /\ p.phase # "await"
    BY <1>3, <2>2
  <2>4. Settles(c, p, "refused", gone)
    BY <2>1, <2>2, <2>3 DEF Settles, Admitted
  <2>. QED
    BY <1>1, <2>3, <2>4, OrphanSettled DEF Loss
<1>9. CASE CloseNow(c) \/ CloseSucceeds(c)
  <2>1. /\ i \in Db /\ pass[c].op \in LifecycleOperation
        /\ pass[c].phase = "await" => pass[c].client = client[i]
    BY <1>1, <1>9 DEF CloseNow, Calling, CloseSucceeds, Awaiting, DbTypeInv, AwaitsDriver,
                      LifecycleOperation, HoldsCurrent
  <2>2. PICK gone \in MayClose(i, client[i]) :
          SetPass(c, Advanced(pass[c]), i, gone) /\ TrackOrphans("disconnected", gone)
    <3>1. CASE CloseNow(c)
      BY <3>1 DEF CloseNow
    <3>2. CASE CloseSucceeds(c)
      BY <1>1, <2>1, <3>2 DEF CloseSucceeds, Awaiting
    <3>. QED
      BY <1>9, <3>1, <3>2
  <2>3. \A j \in Db \ {i} : client'[j] = client[j]
    BY <1>2, <1>9, <2>1 DEF CloseNow, CloseSucceeds
  <2>4. PICK p \in Pass : SetPass(c, p, i, gone) /\ p.phase # "await"
    BY <1>4, <2>1, <2>2
  <2>5. Databases[i].closes = "always" => gone = {client[i]}
    BY <2>2 DEF MayClose
  <2>6. \/ Admitted(i, "disconnected")
        \/ \A x \in Client :
             x = client[i] \/ (pass[c].phase = "await" /\ x = pass[c].client) => x \in gone
    BY <2>1, <2>5 DEF Admitted
  <2>7. Settles(c, p, "disconnected", gone)
    BY <2>1, <2>2, <2>3, <2>4, <2>5, <2>6 DEF Settles
  <2>. QED
    BY <1>1, <2>4, <2>7, OrphanSettled DEF Loss
<1>10. CASE CloseFails(c)
  <2>1. /\ i \in Db /\ pass[c].op \in LifecycleOperation /\ pass[c].client = client[i]
    BY <1>1, <1>10 DEF CloseFails, Awaiting, DbTypeInv, AwaitsDriver, LifecycleOperation,
                       HoldsCurrent
  <2>2. PICK gone :
          /\ client' = [client EXCEPT ![i] = IF @ \in gone THEN ClosedClient ELSE @]
          /\ SetPass(c, Failed(pass[c]), i, gone) /\ TrackOrphans("disconnected", gone)
    BY <1>10 DEF CloseFails
  <2>3. /\ \A j \in Db \ {i} : client'[j] = client[j]
        /\ client[i] \notin gone => client'[i] = client[i]
    BY <1>2, <2>1, <2>2
  <2>4. PICK p \in Pass : SetPass(c, p, i, gone) /\ p.phase # "await"
    BY <1>3, <2>2
  <2>5. Settles(c, p, "disconnected", gone)
    BY <2>1, <2>2, <2>3, <2>4 DEF Settles
  <2>. QED
    BY <1>1, <2>4, <2>5, OrphanSettled DEF Loss
<1>11. CASE QuerySucceeds(c) \/ QueryFails(c)
  <2>1. i \in Db /\ UNCHANGED client /\ TrackOrphans("released", {})
    BY <1>1, <1>11 DEF QuerySucceeds, QueryFails, Awaiting, DbTypeInv, AwaitsDriver
  <2>2. pass[c].client \in Client /\ Databases[i].closes = "always" =>
          pass[c].client = client[i]
    BY <1>1, <1>11 DEF QuerySucceeds, QueryFails, Awaiting, HoldsCurrent
  <2>3. PICK p \in Pass : SetPass(c, p, i, {}) /\ p.phase # "await"
    BY <1>3, <1>4, <1>11, <2>1 DEF QuerySucceeds, QueryFails
  <2>4. Settles(c, p, "released", {})
    BY <2>1, <2>2, <2>3 DEF Settles, Admitted
  <2>. QED
    BY <1>1, <2>3, <2>4, OrphanSettled DEF Loss
<1>. QED
  BY <1>5, <1>6, <1>7, <1>8, <1>9, <1>10, <1>11 DEF PassStep, PassProceeds, DriverFails

LEMMA OrphanInvPreserved == ASSUME ~Overlap PROVE OrphanInv /\ [DbNext]_dbVars => OrphanInv'
<1>. SUFFICES ASSUME OrphanInv, [DbNext]_dbVars PROVE OrphanInv'
  OBVIOUS
<1>1. SerialInv'
  BY SerialInvPreserved DEF OrphanInv
<1>2. ASSUME NEW c \in Caller, NEW op \in Operation, BeginPass(c, op) PROVE OrphanInv'
  <2>1. pass' = [pass EXCEPT ![c] = [NoPass EXCEPT !.op = op, !.phase = "call"]]
        /\ UNCHANGED <<client, orphaned>>
    BY <1>2 DEF BeginPass, StartPass
  <2>2. pass'[c].phase = "call" /\ \A d \in Caller \ {c} : pass'[d] = pass[d]
    BY <2>1 DEF NoPass, OrphanInv, SerialInv, DbTypeInv, DbTypeOK
  <2>. QED
    BY <1>1, <2>1, <2>2, OrphanQuiet
<1>3. CASE UNCHANGED dbVars
  BY <1>1, <1>3 DEF dbVars, OrphanInv, HoldsCurrent, NoOrphanedClient
<1>. QED
  BY <1>2, <1>3, OrphanPassStep DEF DbNext

LEMMA OrphanInvInitially == DbInit => OrphanInv
<1>. SUFFICES ASSUME DbInit PROVE OrphanInv
  OBVIOUS
<1>1. \A c \in Caller : pass[c].phase = "idle"
  BY DEF DbInit, NoPass
<1>. QED
  BY <1>1, SerialInvInitially DEF DbInit, OrphanInv, HoldsCurrent, NoOrphanedClient

\* What holds of the manager holds of whoever uses it as DbNext allows.
LEMMA SafeInUse ==
  ASSUME ~Overlap PROVE DbInit /\ [][DbNext]_dbVars => []OrphanInv
<1>1. OrphanInv /\ [DbNext]_dbVars => OrphanInv'
  BY OrphanInvPreserved
<1>. QED
  BY <1>1, OrphanInvInitially, PTL

\* As long as connect and disconnect passes do not overlap, no connect replaces an
\* open client, and one is lost only by a connect or a disconnect of a driver that
\* leaves it open, whatever empties or migrates meanwhile.
THEOREM NoClientIsLost == ASSUME ~Overlap PROVE DbSpec => []NoOrphanedClient
<1>1. OrphanInv => NoOrphanedClient
  BY DEF OrphanInv
<1>. QED
  BY <1>1, SafeInUse, PTL DEF DbSpec

-----------------------------------------------------------------------------
(* A client that died in its own disconnect                                 *)

\* Only drivers that await the close lose a client in it.
Closable == \A i \in Db : client[i] = ClosedClient => Databases[i].awaitsClose

\* A connect pass has not come past a dead client and awaits a live one.
Clean(c) ==
  /\ pass[c].op = "connect" => \A i \in Db : i < pass[c].at => client[i] # ClosedClient
  /\ Awaiting(c, "connect") => pass[c].client # ClosedClient
  /\ Awaiting(c, "disconnect") => Databases[pass[c].at].awaitsClose

DeadInv == Closable /\ \A c \in Caller : Clean(c)

\* Dead clients that cannot be closed again.
Dead(i) == client[i] = ClosedClient /\ Databases[i].rejectsSecondClose

DeadStay == \A i \in Db : Dead(i) => Dead(i)'

\* A step that moves c's pass alone, without a client changing.
LEMMA DeadUnmoved ==
  ASSUME DeadInv, UNCHANGED client, NEW c \in Caller, Clean(c)',
         \A d \in Caller \ {c} : pass'[d] = pass[d]
  PROVE  DeadInv' /\ DeadStay
<1>1. \A d \in Caller \ {c} : Clean(d)'
  BY DEF DeadInv, Clean, Awaiting
<1>2. Closable'
  BY DEF DeadInv, Closable
<1>. QED
  BY <1>1, <1>2 DEF DeadInv, DeadStay, Dead

\* A step of a connect or disconnect pass, whatever it does to the passes of
\* others: theirs do not concern the clients.
LEMMA DeadAfterOwn ==
  ASSUME SerialInv, SerialInv', DeadInv, NEW c \in Caller,
         pass[c].op \in LifecycleOperation, pass'[c].op = pass[c].op,
         \A d \in Caller \ {c} : SamePlace(d)
  PROVE  \A d \in Caller \ {c} : Clean(d)'
<1>1. \A d \in Caller \ {c} : pass'[d].op \notin LifecycleOperation
  BY DEF SerialInv, AtMostOne
<1>. QED
  BY <1>1 DEF Clean, Awaiting, LifecycleOperation

LEMMA DeadInCall ==
  ASSUME SerialInv, DeadInv, NEW c \in Caller,
         \/ RefuseCall(c) \/ SkipMigration(c) \/ EndPass(c)
         \/ OpenClient(c) \/ IssueClose(c) \/ IssueQuery(c) \/ CloseNowFails(c)
  PROVE  DeadInv' /\ DeadStay
<1>1. pass[c] \in Pass /\ pass \in [Caller -> Pass] /\ UNCHANGED client /\ Clean(c)
  BY DEF SerialInv, DbTypeInv, DbTypeOK, DeadInv, RefuseCall, SkipMigration, EndPass,
         OpenClient, IssueClose, IssueQuery, CloseNowFails
<1>2. CASE RefuseCall(c) \/ CloseNowFails(c)
  <2>1. pass' = [pass EXCEPT ![c] = Failed(pass[c])]
    BY <1>1, <1>2 DEF RefuseCall, CloseNowFails
  <2>2. Clean(c)'
    BY <1>1, <2>1, MovedPasses DEF Clean, Awaiting
  <2>. QED
    BY <1>1, <2>1, <2>2, DeadUnmoved
<1>3. CASE SkipMigration(c)
  <2>1. pass' = [pass EXCEPT ![c] = Advanced(pass[c])] /\ pass[c].op = "migrate"
    BY <1>1, <1>3 DEF SkipMigration, Calling
  <2>2. Clean(c)'
    BY <1>1, <2>1, MovedPasses DEF Clean, Awaiting
  <2>. QED
    BY <1>1, <2>1, <2>2, DeadUnmoved
<1>4. CASE EndPass(c)
  <2>1. pass' = [pass EXCEPT ![c].phase = "done", ![c].ok = TRUE]
    BY <1>4 DEF EndPass
  <2>2. /\ pass'[c].op = pass[c].op /\ pass'[c].at = pass[c].at /\ pass'[c].phase = "done"
        /\ \A d \in Caller \ {c} : pass'[d] = pass[d]
    BY <1>1, <2>1 DEF Pass
  <2>3. Clean(c)'
    BY <1>1, <2>2 DEF Clean, Awaiting
  <2>. QED
    BY <1>1, <2>2, <2>3, DeadUnmoved
<1>5. CASE OpenClient(c)
  <2>1. PICK k \in Client : pass' = [pass EXCEPT ![c] = Suspend(pass[c], k)]
    BY <1>1, <1>5 DEF OpenClient
  <2>2. k # ClosedClient /\ k \in Reference /\ pass[c].op = "connect"
    BY <1>5, ClientAssumption DEF Reference, OpenClient, Calling
  <2>3. /\ pass'[c].op = pass[c].op /\ pass'[c].at = pass[c].at /\ pass'[c].client = k
        /\ \A d \in Caller \ {c} : pass'[d] = pass[d]
    BY <1>1, <2>1, <2>2 DEF Suspend, Pass
  <2>4. Clean(c)'
    BY <1>1, <2>2, <2>3 DEF Clean, Awaiting
  <2>. QED
    BY <1>1, <2>3, <2>4, DeadUnmoved
<1>6. CASE IssueClose(c) \/ IssueQuery(c)
  <2>1. PICK k \in Reference : pass' = [pass EXCEPT ![c] = Suspend(pass[c], k)]
    BY <1>1, <1>6 DEF IssueClose, IssueQuery, Calling, SerialInv, DbTypeInv, DbTypeOK
  <2>2. /\ pass[c].op # "connect"
        /\ pass[c].op = "disconnect" => Databases[pass[c].at].awaitsClose
    BY <1>6 DEF IssueClose, IssueQuery, Calling
  <2>3. /\ pass'[c].op = pass[c].op /\ pass'[c].at = pass[c].at /\ pass'[c].client = k
        /\ \A d \in Caller \ {c} : pass'[d] = pass[d]
    BY <1>1, <2>1, <2>2 DEF Suspend, Pass
  <2>4. Clean(c)'
    BY <1>1, <2>2, <2>3 DEF Clean, Awaiting
  <2>. QED
    BY <1>1, <2>3, <2>4, DeadUnmoved
<1>. QED
  BY <1>2, <1>3, <1>4, <1>5, <1>6

LEMMA DeadInQuery ==
  ASSUME SerialInv, DeadInv, NEW c \in Caller, QuerySucceeds(c) \/ QueryFails(c)
  PROVE  DeadInv' /\ DeadStay
<1>1. UNCHANGED client /\ pass[c].op \in {"empty", "migrate"} /\ pass[c] \in Pass
      /\ pass[c].at \in Db
  BY DEF SerialInv, DbTypeInv, DbTypeOK, AwaitsDriver, QuerySucceeds, QueryFails, Awaiting
<1>2. PICK p \in Pass : p.op = pass[c].op /\ SetPass(c, p, pass[c].at, {})
  BY <1>1, MovedPasses DEF QuerySucceeds, QueryFails
<1>3. pass'[c] = p /\ \A d \in Caller \ {c} : pass'[d] = pass[d]
  BY <1>2 DEF SetPass
<1>4. Clean(c)'
  BY <1>1, <1>2, <1>3 DEF Clean, Awaiting
<1>. QED
  BY <1>1, <1>3, <1>4, DeadUnmoved

LEMMA DeadInAnswer ==
  ASSUME OrphanInv, SerialInv', DeadInv, NEW c \in Caller,
         \/ ConnectSucceeds(c) \/ ConnectFails(c)
         \/ CloseNow(c) \/ CloseSucceeds(c) \/ CloseFails(c)
  PROVE  DeadInv' /\ DeadStay
<1>. DEFINE i == pass[c].at
<1>1. /\ pass[c].op \in LifecycleOperation /\ i \in Db /\ Clean(c) /\ Closable
      /\ client \in [Db -> Reference] /\ i \in Nat
  BY DEF OrphanInv, SerialInv, DbTypeInv, DbTypeOK, AwaitsDriver, DeadInv, ConnectSucceeds,
         ConnectFails, CloseNow, CloseSucceeds, CloseFails, Awaiting, Calling,
         LifecycleOperation, Db
<1>2. /\ pass'[c].op = pass[c].op /\ \A d \in Caller \ {c} : SamePlace(d)
  BY <1>1, LifecycleStep DEF OrphanInv, PassStep, PassProceeds, DriverFails
<1>3. \A d \in Caller \ {c} : Clean(d)'
  BY <1>1, <1>2, DeadAfterOwn DEF OrphanInv
<1>4. CASE ConnectSucceeds(c)
  <2>1. /\ client' = [client EXCEPT ![i] = pass[c].client] /\ pass[c].op = "connect"
        /\ pass[c].client # ClosedClient /\ client[i] = NoClient
    BY <1>1, <1>4 DEF ConnectSucceeds, Clean, Awaiting, OrphanInv, SerialInv, FindingsHold,
                      Connected
  <2>2. pass'[c].at = i + 1 /\ pass'[c].phase = "call"
    BY <1>1, <1>4, AdvancedPlaces DEF ConnectSucceeds, OrphanInv, SerialInv
  <2>3. Clean(c)' /\ Closable'
    BY <1>1, <1>2, <2>1, <2>2 DEF Clean, Awaiting, Closable, Db
  <2>4. DeadStay
    BY <1>1, <2>1, ReferenceAssumption DEF DeadStay, Dead
  <2>. QED
    BY <1>3, <2>3, <2>4 DEF DeadInv
<1>5. CASE ConnectFails(c)
  <2>1. UNCHANGED client /\ pass'[c].at = i /\ pass'[c].phase = "done"
    BY <1>1, <1>5, FailedPlaces DEF ConnectFails, OrphanInv, SerialInv
  <2>2. Clean(c)' /\ Closable'
    BY <1>1, <1>2, <2>1 DEF Clean, Awaiting, Closable
  <2>. QED
    BY <1>3, <2>1, <2>2 DEF DeadInv, DeadStay, Dead
<1>6. CASE CloseNow(c) \/ CloseSucceeds(c)
  <2>1. /\ client' = [client EXCEPT ![i] = NoClient] /\ pass[c].op = "disconnect"
    BY <1>6 DEF CloseNow, CloseSucceeds, Awaiting, Calling
  <2>2. pass'[c].phase = "call"
    BY <1>1, <1>6, AdvancedPlaces DEF CloseNow, CloseSucceeds, OrphanInv, SerialInv
  <2>3. Clean(c)' /\ Closable'
    BY <1>1, <1>2, <2>1, <2>2, ReferenceAssumption DEF Clean, Awaiting, Closable
  <2>4. ~Dead(i)
    <3>1. CASE CloseNow(c)
      BY <1>1, <3>1 DEF CloseNow, Closable, Dead
    <3>2. CASE CloseSucceeds(c)
      BY <1>1, <3>2 DEF CloseSucceeds, OrphanInv, HoldsCurrent, Awaiting, Dead
    <3>. QED
      BY <1>6, <3>1, <3>2
  <2>. QED
    BY <1>1, <1>3, <2>1, <2>3, <2>4 DEF DeadInv, DeadStay, Dead
<1>7. CASE CloseFails(c)
  <2>1. PICK gone : /\ client' = [client EXCEPT ![i] = IF @ \in gone THEN ClosedClient ELSE @]
                    /\ SetPass(c, Failed(pass[c]), i, gone)
    BY <1>7 DEF CloseFails
  <2>2. pass[c].op = "disconnect" /\ Databases[i].awaitsClose
    BY <1>1, <1>7 DEF CloseFails, Awaiting, Clean
  <2>3. pass'[c].phase = "done"
    BY <1>1, <2>1, FailedPlaces DEF OrphanInv, SerialInv
  <2>4. Clean(c)'
    BY <1>2, <2>2, <2>3 DEF Clean, Awaiting
  <2>5. Closable' /\ DeadStay
    BY <1>1, <2>1, <2>2 DEF Closable, DeadStay, Dead
  <2>. QED
    BY <1>3, <2>4, <2>5 DEF DeadInv
<1>. QED
  BY <1>4, <1>5, <1>6, <1>7

\* A database whose client died in a disconnect that rejected, and rejects to be
\* closed again, stays as it is whatever the manager is asked to do.
LEMMA DeadInvPreserved ==
  ASSUME ~Overlap PROVE OrphanInv /\ DeadInv /\ [DbNext]_dbVars => DeadInv' /\ DeadStay
<1>. SUFFICES ASSUME OrphanInv, DeadInv, [DbNext]_dbVars PROVE DeadInv' /\ DeadStay
  OBVIOUS
<1>1. SerialInv /\ SerialInv' /\ pass \in [Caller -> Pass]
  BY SerialInvPreserved DEF OrphanInv, SerialInv, DbTypeInv, DbTypeOK
<1>2. ASSUME NEW c \in Caller, NEW op \in Operation, BeginPass(c, op)
      PROVE  DeadInv' /\ DeadStay
  <2>1. /\ pass'[c].phase = "call" /\ pass'[c].at = 1 /\ UNCHANGED client
        /\ \A d \in Caller \ {c} : pass'[d] = pass[d]
    BY <1>1, <1>2 DEF BeginPass, StartPass, NoPass
  <2>2. Clean(c)'
    BY <2>1 DEF Clean, Awaiting, Db
  <2>. QED
    BY <2>1, <2>2, DeadUnmoved
<1>3. ASSUME NEW c \in Caller, Collect(c) PROVE DeadInv' /\ DeadStay
  <2>1. /\ pass'[c].op = "none" /\ UNCHANGED client
        /\ \A d \in Caller \ {c} : pass'[d] = pass[d]
    BY <1>1, <1>3 DEF Collect, NoPass
  <2>2. Clean(c)'
    BY <2>1 DEF Clean, Awaiting
  <2>. QED
    BY <2>1, <2>2, DeadUnmoved
<1>4. CASE UNCHANGED dbVars
  BY <1>4 DEF dbVars, DeadInv, Closable, Clean, Awaiting, DeadStay, Dead
<1>. QED
  BY <1>1, <1>2, <1>3, <1>4, DeadInCall, DeadInQuery, DeadInAnswer
     DEF DbNext, PassStep, PassProceeds, DriverFails

LEMMA DeadInvInitially == DbInit => DeadInv
BY ReferenceAssumption DEF DbInit, DeadInv, Closable, Clean, Awaiting, NoPass

=============================================================================
