------------------------- MODULE TestHarnessProofs -------------------------
(***************************************************************************)
(* TestHarness proved for every number of databases and tests, every       *)
(* enumeration and every kind of request.                                  *)
(***************************************************************************)
EXTENDS TestHarness, TLAPS

LEMMA Assumed ==
  /\ N \in Nat \ {0} /\ ValidText \subseteq Text
  /\ Unset \notin Text /\ Unset \notin BOOLEAN /\ Unset # "true" /\ Unset # "false"
BY TestsAssumption, TextAssumption

Phase == {"beforeAll", "beforeEach", "prepare", "reloading", "starting", "executing",
          "afterAll", "closed", "exited"}
Asking == {"reloading", "starting", "executing"}
Outcome == {"hookFailed", "configRejected", "reloadFailed", "passed", "failed"}
Env == [flag : {Unset, "true", "false"}, text : Text]
LoadedConfig == [flag : BOOLEAN, text : Text]

HarnessTypes ==
  /\ phase \in Phase /\ test \in Nat \ {0}
  /\ asked \in Seq(Override) /\ outcome \in Seq(Outcome)
  /\ env \in Env /\ config \in LoadedConfig

\* Every test that has ended has an outcome, and an entry among the asked.
Lengths ==
  /\ Len(outcome) = test - 1
  /\ Len(asked) = test - 1 \/ Len(asked) = test
  /\ phase \in Asking => Len(asked) = test
  /\ phase \notin Asking \cup {"exited"} => Len(asked) = test - 1

\* The last test that gave the text one.
IsLatest(u) ==
  /\ asked[u].text # Unset
  /\ \A v \in DOMAIN asked : asked[v].text # Unset => v <= u

\* The environment has the text of the last test that gave one.
EnvFollows ==
  \/ \A u \in DOMAIN asked : asked[u].text = Unset
  \/ \E u \in DOMAIN asked : IsLatest(u) /\ env.text = asked[u].text

\* What the config has from the environment, and what from the current test.
ConfigFollows ==
  /\ config.flag \/ phase \in Asking \cup {"prepare"} => env.flag # Unset
  /\ phase \in {"starting", "executing"} =>
       /\ config.text = env.text
       /\ asked[test].flag # Unset => config.flag = asked[test].flag

Spoils(t) ==
  outcome[t] = "configRejected" \/ (outcome[t] = "passed" /\ asked[t].flag = FALSE)

\* After a test that spoils the rest no other one gets past its hook.
SpoiledIsOver ==
  (\E t \in DOMAIN outcome : Spoils(t)) =>
    /\ phase \notin Asking \cup {"beforeAll", "prepare"}
    /\ phase = "beforeEach" => ~MayEmpty

HarnessInv ==
  /\ HarnessTypes /\ Lengths /\ EnvFollows /\ ConfigFollows
  /\ SpoiledIsOver /\ OneTestSpoilsTheRest

\* What HarnessInv is about.
hookVars == <<up, env, config, phase, test, asked, outcome>>

LEMMA HarnessInvStutters == ASSUME HarnessInv, UNCHANGED hookVars PROVE HarnessInv'
BY DEF hookVars, HarnessInv, HarnessTypes, Lengths, EnvFollows, IsLatest, ConfigFollows,
       SpoiledIsOver, Spoils, MayEmpty, OneTestSpoilsTheRest

LEMMA HarnessInvInitially == Init => HarnessInv
<1>. SUFFICES ASSUME Init PROVE HarnessInv
  OBVIOUS
<1>1. env \in Env /\ config \in LoadedConfig /\ (config.flag => env.flag # Unset)
  BY Assumed DEF Init, Env, LoadedConfig, loadConfig, NoOverride, coerce
<1>2. phase = "beforeAll" /\ test = 1 /\ asked = <<>> /\ outcome = <<>>
  BY DEF Init
<1>3. HarnessTypes /\ Lengths
  BY <1>1, <1>2 DEF HarnessTypes, Lengths, Phase, Asking
<1>. QED
  BY <1>1, <1>2, <1>3 DEF HarnessInv, EnvFollows, ConfigFollows, SpoiledIsOver,
                          OneTestSpoilsTheRest, Asking

\* A step that changes neither what was asked nor how tests ended.
LEMMA PhaseMoves ==
  ASSUME HarnessInv, UNCHANGED <<env, test, asked, outcome>>, phase' \in Phase,
         config' \in LoadedConfig, Lengths', ConfigFollows', SpoiledIsOver'
  PROVE  HarnessInv'
<1>1. HarnessTypes' /\ EnvFollows' /\ OneTestSpoilsTheRest'
  BY DEF HarnessInv, HarnessTypes, EnvFollows, IsLatest, OneTestSpoilsTheRest
<1>. QED
  BY <1>1 DEF HarnessInv

\* A test that none before has spoiled ends.
LEMMA TestIsOver ==
  ASSUME HarnessInv, NEW how \in Outcome, Ends(how), phase \in Asking,
         UNCHANGED <<env, config, asked>>,
         how = "configRejected" \/ (how = "passed" /\ asked[test].flag = FALSE)
           => ~MayEmpty'
  PROVE  HarnessInv'
<1>1. /\ phase' = "beforeEach" /\ test' = test + 1 /\ outcome' = Append(outcome, how)
      /\ Len(asked) = test /\ Len(outcome) = test - 1 /\ test \in Nat \ {0}
      /\ outcome \in Seq(Outcome) /\ asked \in Seq(Override)
  BY DEF HarnessInv, HarnessTypes, Lengths, Ends
<1>2. /\ DOMAIN outcome = 1..(test - 1) /\ DOMAIN outcome' = 1..test
      /\ outcome'[test] = how /\ outcome' \in Seq(Outcome) /\ Len(outcome') = test
      /\ \A t \in 1..(test - 1) : outcome'[t] = outcome[t]
  BY <1>1
<1>3. \A t \in DOMAIN outcome : ~Spoils(t)
  BY DEF HarnessInv, SpoiledIsOver
<1>4. \A t \in 1..(test - 1) : ~Spoils(t)'
  BY <1>2, <1>3 DEF Spoils
<1>5. \A t \in {test} : Spoils(t)' => ~MayEmpty'
  BY <1>2 DEF Spoils
<1>6. \A t \in 1..test : t = test \/ t \in 1..(test - 1)
  BY <1>1
<1>7. SpoiledIsOver'
  BY <1>1, <1>2, <1>4, <1>5, <1>6 DEF SpoiledIsOver, Asking
<1>8. OneTestSpoilsTheRest'
  BY <1>1, <1>2, <1>4, <1>6 DEF OneTestSpoilsTheRest, Spoils
<1>9. HarnessTypes' /\ Lengths' /\ EnvFollows' /\ ConfigFollows'
  BY <1>1, <1>2 DEF HarnessInv, HarnessTypes, Lengths, EnvFollows, IsLatest, ConfigFollows,
                    Phase, Asking
<1>. QED
  BY <1>7, <1>8, <1>9 DEF HarnessInv

\* An entry is added to what was asked, and the environment follows it.
LEMMA AskingFollows ==
  ASSUME HarnessInv, NEW override \in Override, asked' = Append(asked, override),
         Len(asked) = test - 1,
         env'.text = IF override.text = Unset THEN env.text ELSE override.text
  PROVE  /\ asked' \in Seq(Override) /\ Len(asked') = test /\ EnvFollows'
         /\ asked'[test] = override
         /\ \A u \in 1..(test - 1) : asked'[u] = asked[u]
<1>1. /\ asked \in Seq(Override) /\ test \in Nat \ {0}
      /\ DOMAIN asked = 1..(test - 1)
  BY DEF HarnessInv, HarnessTypes
<1>2. /\ asked' \in Seq(Override) /\ Len(asked') = test /\ DOMAIN asked' = 1..test
      /\ asked'[test] = override
      /\ \A u \in 1..(test - 1) : asked'[u] = asked[u]
  BY <1>1
<1>3. \A u \in 1..test : u = test \/ u \in 1..(test - 1)
  BY <1>1
<1>4. test \in DOMAIN asked' /\ \A v \in DOMAIN asked' : v <= test
  BY <1>1, <1>2
<1>5. ASSUME override.text # Unset PROVE EnvFollows'
  BY <1>2, <1>4, <1>5 DEF EnvFollows, IsLatest
<1>6. ASSUME override.text = Unset PROVE EnvFollows'
  <2>1. CASE \A u \in DOMAIN asked : asked[u].text = Unset
    BY <1>1, <1>2, <1>3, <1>6, <2>1 DEF EnvFollows
  <2>2. CASE \E u \in DOMAIN asked : IsLatest(u) /\ env.text = asked[u].text
    <3>1. PICK u \in DOMAIN asked : IsLatest(u) /\ env.text = asked[u].text
      BY <2>2
    <3>2. u \in DOMAIN asked' /\ asked'[u] = asked[u]
      BY <1>1, <1>2, <3>1
    <3>3. \A v \in DOMAIN asked' : asked'[v].text # Unset => v <= u
      BY <1>1, <1>2, <1>3, <1>6, <3>1 DEF IsLatest
    <3>. QED
      BY <1>6, <3>1, <3>2, <3>3 DEF EnvFollows, IsLatest
  <2>3. EnvFollows
    BY DEF HarnessInv
  <2>. QED
    BY <2>1, <2>2, <2>3 DEF EnvFollows
<1>7. EnvFollows'
  BY <1>5, <1>6
<1>. QED
  BY <1>2, <1>7

-----------------------------------------------------------------------------
(* The actions                                                              *)

\* The hooks, which change the phase only.
LEMMA HooksKeep ==
  ASSUME HarnessInv, beforeAll \/ beforeEach \/ TestsOver \/ afterAll \/ WorkerExits \/ Reloaded
  PROVE  HarnessInv'
<1>1. UNCHANGED <<env, config, test, asked, outcome>> /\ phase' \in Phase
  BY DEF beforeAll, beforeEach, TestsOver, afterAll, WorkerExits, Reloaded, Phase
<1>2. Lengths'
  BY <1>1 DEF HarnessInv, Lengths, Asking, beforeAll, beforeEach, TestsOver, afterAll,
              WorkerExits, Reloaded
<1>3. config.flag => env.flag # Unset
  BY DEF HarnessInv, ConfigFollows
<1>4. ConfigFollows'
  BY <1>1, <1>3 DEF HarnessInv, ConfigFollows, MayEmpty, Asking, beforeAll, beforeEach,
                    TestsOver, afterAll, WorkerExits, Reloaded
<1>5. SpoiledIsOver'
  BY <1>1 DEF HarnessInv, SpoiledIsOver, Spoils, Asking, beforeAll, beforeEach, TestsOver,
              afterAll, WorkerExits, Reloaded
<1>. QED
  BY <1>1, <1>2, <1>4, <1>5, PhaseMoves DEF HarnessInv, HarnessTypes

LEMMA HookFailureKeeps == ASSUME HarnessInv, beforeEachFails PROVE HarnessInv'
<1>1. /\ asked' = Append(asked, NoOverride) /\ outcome' = Append(outcome, "hookFailed")
      /\ phase = "beforeEach" /\ phase' = "beforeEach" /\ test' = test + 1
      /\ UNCHANGED <<up, env, config>>
      /\ Len(asked) = test - 1 /\ Len(outcome) = test - 1
      /\ test \in Nat \ {0} /\ outcome \in Seq(Outcome)
  BY DEF HarnessInv, HarnessTypes, Lengths, Asking, beforeEachFails, Ends, lifecycleVars
<1>2. NoOverride \in Override
  BY DEF NoOverride, Override
<1>3. /\ asked' \in Seq(Override) /\ Len(asked') = test /\ EnvFollows'
      /\ \A u \in 1..(test - 1) : asked'[u] = asked[u]
  BY <1>1, <1>2, AskingFollows DEF NoOverride
<1>4. /\ DOMAIN outcome = 1..(test - 1) /\ DOMAIN outcome' = 1..test
      /\ outcome'[test] = "hookFailed" /\ outcome' \in Seq(Outcome) /\ Len(outcome') = test
      /\ \A t \in 1..(test - 1) : outcome'[t] = outcome[t]
  BY <1>1 DEF Outcome
<1>5. \A t \in 1..test : t = test \/ t \in 1..(test - 1)
  BY <1>1
<1>6. /\ \A t \in {test} : ~Spoils(t)'
      /\ \A t \in 1..(test - 1) : Spoils(t)' => Spoils(t)
  BY <1>3, <1>4 DEF Spoils
<1>7. SpoiledIsOver'
  BY <1>1, <1>4, <1>5, <1>6 DEF HarnessInv, SpoiledIsOver, MayEmpty, Asking
<1>8. OneTestSpoilsTheRest'
  BY <1>3, <1>4, <1>5, <1>6 DEF HarnessInv, OneTestSpoilsTheRest, Spoils
<1>9. HarnessTypes' /\ Lengths' /\ ConfigFollows'
  BY <1>1, <1>3, <1>4 DEF HarnessInv, HarnessTypes, Lengths, ConfigFollows, Phase, Asking
<1>. QED
  BY <1>3, <1>7, <1>8, <1>9 DEF HarnessInv

LEMMA AssureConfigKeeps ==
  ASSUME HarnessInv, NEW override \in Override, assureConfig(override) PROVE HarnessInv'
<1>1. /\ asked' = Append(asked, override) /\ phase = "prepare" /\ phase' = "reloading"
      /\ UNCHANGED <<up, config, test, outcome>>
      /\ Len(asked) = test - 1 /\ Len(outcome) = test - 1
      /\ test \in Nat \ {0} /\ outcome \in Seq(Outcome) /\ env \in Env /\ env.flag # Unset
  BY DEF HarnessInv, HarnessTypes, Lengths, ConfigFollows, Asking, assureConfig, lifecycleVars
<1>2. /\ env' \in Env /\ env'.flag # Unset
      /\ env'.text = IF override.text = Unset THEN env.text ELSE override.text
  BY <1>1, Assumed DEF assureConfig, setEnvVariables, stringified, Env, Override
<1>3. /\ asked' \in Seq(Override) /\ Len(asked') = test /\ EnvFollows'
      /\ \A u \in 1..(test - 1) : asked'[u] = asked[u]
  BY <1>1, <1>2, AskingFollows
<1>4. DOMAIN outcome = 1..(test - 1)
  BY <1>1
<1>5. \A t \in DOMAIN outcome : ~Spoils(t)
  BY <1>1 DEF HarnessInv, SpoiledIsOver
<1>6. \A t \in DOMAIN outcome : ~Spoils(t)'
  BY <1>1, <1>3, <1>4, <1>5 DEF Spoils
<1>7. SpoiledIsOver' /\ OneTestSpoilsTheRest'
  BY <1>1, <1>6 DEF SpoiledIsOver, OneTestSpoilsTheRest, Spoils
<1>8. HarnessTypes' /\ Lengths' /\ ConfigFollows'
  BY <1>1, <1>2, <1>3 DEF HarnessInv, HarnessTypes, Lengths, ConfigFollows, Phase, Asking
<1>. QED
  BY <1>3, <1>7, <1>8 DEF HarnessInv

\* What loadConfig makes of the override of the test that reloads.
LEMMA LoadedFollows ==
  ASSUME HarnessInv, phase = "reloading"
  PROVE  /\ loadConfig(asked[test]) \in LoadedConfig
         /\ loadConfig(asked[test]).text = env.text
         /\ asked[test].flag # Unset => loadConfig(asked[test]).flag = asked[test].flag
<1>1. test \in DOMAIN asked /\ asked[test] \in Override /\ env \in Env
      /\ \A v \in DOMAIN asked : v <= test
  BY DEF HarnessInv, HarnessTypes, Lengths, Asking
<1>2. asked[test].text # Unset => env.text = asked[test].text
  <2>1. ASSUME asked[test].text # Unset, NEW u \in DOMAIN asked, IsLatest(u) PROVE u = test
    BY <1>1, <2>1 DEF IsLatest, HarnessInv, HarnessTypes
  <2>. QED
    BY <1>1, <2>1 DEF HarnessInv, EnvFollows
<1>. QED
  BY <1>1, <1>2, Assumed DEF loadConfig, LoadedConfig, Override, Env, coerce

LEMMA ReloadKeeps ==
  ASSUME HarnessInv, ReloadCloses \/ ConfigRejected \/ ReloadFails \/ TestEnds
  PROVE  HarnessInv'
<1>1. CASE ReloadCloses
  <2>1. /\ UNCHANGED <<env, test, asked, outcome>> /\ phase = "reloading"
        /\ phase' = "starting" /\ config' = loadConfig(asked[test])
    BY <1>1 DEF ReloadCloses
  <2>2. Lengths' /\ ConfigFollows' /\ SpoiledIsOver'
    BY <2>1, LoadedFollows DEF HarnessInv, Lengths, ConfigFollows, SpoiledIsOver, Spoils, Asking
  <2>. QED
    BY <2>1, <2>2, LoadedFollows, PhaseMoves DEF Phase
<1>2. CASE ConfigRejected
  <2>1. up' = {} /\ 1 \in 1..N
    BY <1>2, Assumed DEF ConfigRejected, Lifecycle!CloseSucceeds
  <2>2. ~MayEmpty'
    BY <2>1 DEF MayEmpty
  <2>. QED
    BY <1>2, <2>2, TestIsOver DEF ConfigRejected, Outcome, Asking
<1>3. CASE ReloadFails
  BY <1>3, TestIsOver DEF ReloadFails, Outcome, Asking
<1>4. CASE TestEnds
  <2>1. PICK how \in {"passed", "failed"} : Ends(how)
    BY <1>4 DEF TestEnds
  <2>2. phase = "executing" /\ UNCHANGED <<env, config, asked>>
    BY <1>4 DEF TestEnds
  <2>3. asked[test].flag = FALSE => ~MayEmpty'
    BY <2>2, Assumed DEF HarnessInv, ConfigFollows, MayEmpty
  <2>. QED
    BY <2>1, <2>2, <2>3, TestIsOver DEF Outcome, Asking
<1>. QED
  BY <1>1, <1>2, <1>3, <1>4

LEMMA RecordingKeeps ==
  ASSUME HarnessInv,
         SendRequest \/ \E p \in pending : StoreWrites(p) \/ StoreFails(p)
  PROVE  HarnessInv'
<1>1. CASE UNCHANGED hookVars
  BY <1>1, HarnessInvStutters
<1>2. CASE \E p \in pending : StoreFails(p)
  <2>1. phase' = "exited" /\ UNCHANGED <<env, config, test, asked, outcome>>
    BY <1>2 DEF StoreFails
  <2>2. Lengths' /\ ConfigFollows' /\ SpoiledIsOver'
    BY <2>1 DEF HarnessInv, Lengths, ConfigFollows, SpoiledIsOver, Asking
  <2>. QED
    BY <2>1, <2>2, PhaseMoves DEF HarnessInv, HarnessTypes, Phase
<1>3. SendRequest \/ (\E p \in pending : StoreWrites(p)) => UNCHANGED hookVars
  BY DEF SendRequest, StoreWrites, hookVars, lifecycleVars
<1>. QED
  BY <1>1, <1>2, <1>3

LEMMA HarnessInvPreserved == HarnessInv /\ [Next]_vars => HarnessInv'
<1>1. UNCHANGED vars => UNCHANGED hookVars
  BY DEF vars, hookVars, lifecycleVars
<1>. QED
  BY <1>1, HarnessInvStutters, HooksKeep, HookFailureKeeps, AssureConfigKeeps, ReloadKeeps,
     RecordingKeeps DEF Next

\* What the two theorems below rest on.
THEOREM HarnessInvHolds == Spec => []HarnessInv
BY HarnessInvInitially, HarnessInvPreserved, PTL DEF Spec

\* The tests inherit every override from those before them, for any number of
\* tests: assureConfig is never undone.
THEOREM OverridesLeak == Spec => []OverridesOutliveTheirTest
<1>1. ASSUME HarnessInv, phase = "executing", LastAsked(test) # Unset
      PROVE  config.text = LastAsked(test)
  <2>1. test \in Nat \ {0} /\ DOMAIN asked = 1..test /\ config.text = env.text
    BY <1>1 DEF HarnessInv, HarnessTypes, Lengths, ConfigFollows, Asking
  <2>. DEFINE given == {u \in 1..test : asked[u].text # Unset}
  <2>2. given # {}
    BY <1>1 DEF LastAsked
  <2>3. PICK u \in DOMAIN asked : IsLatest(u) /\ env.text = asked[u].text
    BY <1>1, <2>1, <2>2 DEF HarnessInv, EnvFollows
  <2>4. u \in given /\ \A v \in given : v <= u
    BY <2>1, <2>3 DEF IsLatest
  <2>5. \A w \in given : (\A v \in given : v <= w) => w = u
    BY <2>1, <2>4
  <2>6. (CHOOSE w \in given : \A v \in given : v <= w) = u
    BY <2>4, <2>5
  <2>7. LastAsked(test) = asked[CHOOSE w \in given : \A v \in given : v <= w].text
    BY <2>2 DEF LastAsked
  <2>. QED
    BY <2>1, <2>3, <2>6, <2>7
<1>2. HarnessInv => OverridesOutliveTheirTest
  BY <1>1 DEF OverridesOutliveTheirTest, HarnessInv, ConfigFollows
<1>. QED
  BY <1>2, HarnessInvHolds, PTL

\* One test that asks for too much, and no other test of the file passes.
THEOREM RestIsSpoilt == Spec => []OneTestSpoilsTheRest
<1>1. HarnessInv => OneTestSpoilsTheRest
  BY DEF HarnessInv
<1>. QED
  BY <1>1, HarnessInvHolds, PTL

-----------------------------------------------------------------------------
(* Recording                                                                *)

Writing == [data : Data, sent : Nat, filed : Nat]

\* A name is never used twice, so what is written stays among the files.
RecordInv ==
  /\ test \in Nat /\ counter \in Nat
  /\ \A p \in pending : p.data \in Data /\ p.sent \in Nat /\ p.sent <= test
  /\ \A d \in Data, k \in Nat : k >= counter => <<d.url, k>> \notin DOMAIN files
  /\ written \in Seq(Writing)
  /\ \A i \in DOMAIN written : /\ written[i].data \in Stored
                               /\ written[i].filed >= written[i].sent

LEMMA RecordInvInitially == Init => RecordInv
BY DEF Init, RecordInv, NoFiles

\* The step of a test or of its hooks.
LEMMA TestsKeepRecords ==
  ASSUME RecordInv, UNCHANGED <<files, counter, written>>, test' \in {test, test + 1},
         pending' \subseteq pending
  PROVE  RecordInv'
<1>1. \A n \in Nat : n <= test => n <= test'
  BY DEF RecordInv
<1>2. test' \in Nat
  BY DEF RecordInv
<1>3. Stored' = Stored
  BY DEF Stored
<1>. QED
  BY <1>1, <1>2, <1>3 DEF RecordInv

LEMMA SendingKeepsRecords == ASSUME RecordInv, SendRequest PROVE RecordInv'
<1>1. PICK data \in Data : StoreData(data)
  BY DEF SendRequest
<1>2. /\ pending' = pending \cup {[data |-> data, sent |-> test, id |-> Sent]}
      /\ UNCHANGED <<test, files, counter, written>>
  BY <1>1 DEF SendRequest, StoreData
<1>3. Stored' = Stored
  BY <1>2 DEF Stored
<1>. QED
  BY <1>2, <1>3 DEF RecordInv

LEMMA WritingKeepsRecords ==
  ASSUME RecordInv, NEW p \in pending, StoreWrites(p) PROVE RecordInv'
<1>. DEFINE name == <<p.data.url, counter>>
            w == [data |-> p.data, sent |-> p.sent, filed |-> test]
<1>1. /\ files' = [n \in DOMAIN files \cup {name} |-> IF n = name THEN p.data ELSE files[n]]
      /\ written' = Append(written, w) /\ pending' = pending \ {p}
      /\ counter' = counter + 1 /\ UNCHANGED test
  BY DEF StoreWrites, Writes
<1>2. /\ p.data \in Data /\ p.sent \in Nat /\ p.sent <= test /\ test \in Nat
      /\ counter \in Nat /\ name \notin DOMAIN files /\ written \in Seq(Writing)
  BY DEF RecordInv
<1>3. p.data \in Stored' /\ Stored \subseteq Stored'
  <2>1. DOMAIN files' = DOMAIN files \cup {name} /\ files'[name] = p.data
    BY <1>1
  <2>2. \A n \in DOMAIN files : n # name /\ files'[n] = files[n]
    BY <1>1, <1>2
  <2>. QED
    BY <2>1, <2>2 DEF Stored
<1>4. \A d \in Data, k \in Nat : k >= counter + 1 => <<d.url, k>> \notin DOMAIN files'
  <2>1. ASSUME NEW d \in Data, NEW k \in Nat, k >= counter + 1
        PROVE  <<d.url, k>> # name /\ <<d.url, k>> \notin DOMAIN files
    BY <1>2, <2>1 DEF RecordInv
  <2>. QED
    BY <1>1, <2>1
<1>5. w \in Writing
  BY <1>2 DEF Writing
<1>6. /\ written' \in Seq(Writing) /\ DOMAIN written' = 1..(Len(written) + 1)
      /\ written'[Len(written) + 1] = w
      /\ \A i \in DOMAIN written : written'[i] = written[i]
  BY <1>1, <1>2, <1>5
<1>7. ASSUME NEW i \in DOMAIN written'
      PROVE  written'[i].data \in Stored' /\ written'[i].filed >= written'[i].sent
  <2>1. CASE i = Len(written) + 1
    BY <1>2, <1>3, <1>6, <2>1
  <2>2. CASE i # Len(written) + 1
    <3>1. i \in DOMAIN written
      BY <1>2, <1>6, <1>7, <2>2
    <3>. QED
      BY <1>3, <1>6, <3>1 DEF RecordInv
  <2>. QED
    BY <2>1, <2>2
<1>. QED
  BY <1>1, <1>2, <1>4, <1>6, <1>7 DEF RecordInv

LEMMA RecordInvPreserved == RecordInv /\ [Next]_vars => RecordInv'
<1>. SUFFICES ASSUME RecordInv, [Next]_vars PROVE RecordInv'
  OBVIOUS
<1>1. CASE UNCHANGED vars
  BY <1>1, TestsKeepRecords DEF vars, recording
<1>2. CASE beforeAll \/ beforeEach \/ TestsOver \/ afterAll \/ WorkerExits \/ Reloaded
           \/ ReloadCloses \/ (\E override \in Override : assureConfig(override))
  BY <1>2, TestsKeepRecords DEF beforeAll, beforeEach, TestsOver, afterAll, WorkerExits,
       Reloaded, ReloadCloses, assureConfig, recording
<1>3. CASE beforeEachFails \/ ConfigRejected \/ ReloadFails \/ TestEnds
  BY <1>3, TestsKeepRecords DEF beforeEachFails, ConfigRejected, ReloadFails, TestEnds, Ends,
       recording
<1>4. CASE \E p \in pending : StoreFails(p)
  BY <1>4, TestsKeepRecords DEF StoreFails
<1>. QED
  BY <1>1, <1>2, <1>3, <1>4, SendingKeepsRecords, WritingKeepsRecords DEF Next

\* One body for each set of keys is one for the keys of every body.
LEMMA KeysAreDocumented ==
  ASSUME NEW bodies, NEW body \in bodies
  PROVE  \E s \in Schemas(bodies) : NestedKeys(s) = NestedKeys(body)
<1>. DEFINE s == CHOOSE b \in bodies : NestedKeys(b) = NestedKeys(body)
<1>1. s \in bodies /\ NestedKeys(s) = NestedKeys(body)
  BY Zenon
<1>2. s \in Schemas(bodies)
  BY Zenon DEF Schemas
<1>. QED
  BY <1>1, <1>2, Zenon

\* Grouping loses no record: what is stored is documented under its url, its
\* method, its content type and its status.
LEMMA StoredIsDocumented ==
  ASSUME NEW stored, NEW d \in stored
  PROVE  LET document == openApiGeneratorGenerate(stored)
             operation == document[d.url][d.method]
         IN  /\ d.url \in DOMAIN document /\ d.method \in DOMAIN document[d.url]
             /\ d.contentType \in DOMAIN operation.requestBody
             /\ \E s \in operation.requestBody[d.contentType] :
                  NestedKeys(s) = NestedKeys(d.request)
             /\ d.status \in DOMAIN operation.responses
             /\ \E s \in operation.responses[d.status] :
                  NestedKeys(s) = NestedKeys(d.response)
<1>. DEFINE document == openApiGeneratorGenerate(stored)
            ofUrl == {e \in stored : e.url = d.url}
            group == {e \in ofUrl : e.method = d.method}
            operation == [requestBody |-> getRequestBodySchemaEntries(group),
                          responses |-> getOpenApiResponsesSchemaEntries(group)]
<1>1. d.url \in {e.url : e \in stored} /\ d.method \in {e.method : e \in ofUrl} /\ d \in group
  OBVIOUS
<1>2. /\ d.url \in DOMAIN document
      /\ document[d.url] = [method \in {e.method : e \in ofUrl} |->
           LET g == {e \in ofUrl : e.method = method}
           IN  [requestBody |-> getRequestBodySchemaEntries(g),
                responses |-> getOpenApiResponsesSchemaEntries(g)]]
  BY <1>1 DEF openApiGeneratorGenerate
<1>3. d.method \in DOMAIN document[d.url] /\ document[d.url][d.method] = operation
  BY <1>1, <1>2
<1>4. /\ operation.requestBody = getRequestBodySchemaEntries(group)
      /\ operation.responses = getOpenApiResponsesSchemaEntries(group)
  OBVIOUS
<1>5. /\ d.contentType \in DOMAIN getRequestBodySchemaEntries(group)
      /\ getRequestBodySchemaEntries(group)[d.contentType] =
           Schemas({e.request : e \in {f \in group : f.contentType = d.contentType}})
  BY <1>1 DEF getRequestBodySchemaEntries
<1>6. /\ d.status \in DOMAIN getOpenApiResponsesSchemaEntries(group)
      /\ getOpenApiResponsesSchemaEntries(group)[d.status] =
           Schemas({e.response : e \in {f \in group : f.status = d.status}})
  BY <1>1 DEF getOpenApiResponsesSchemaEntries
<1>7. /\ d.request \in {e.request : e \in {f \in group : f.contentType = d.contentType}}
      /\ d.response \in {e.response : e \in {f \in group : f.status = d.status}}
  BY <1>1
<1>8. /\ \E s \in getRequestBodySchemaEntries(group)[d.contentType] :
           NestedKeys(s) = NestedKeys(d.request)
      /\ \E s \in getOpenApiResponsesSchemaEntries(group)[d.status] :
           NestedKeys(s) = NestedKeys(d.response)
  <2>. DEFINE requests == {e.request : e \in {f \in group : f.contentType = d.contentType}}
              responses == {e.response : e \in {f \in group : f.status = d.status}}
  <2>1. \E s \in Schemas(requests) : NestedKeys(s) = NestedKeys(d.request)
    BY <1>7, KeysAreDocumented
  <2>2. \E s \in Schemas(responses) : NestedKeys(s) = NestedKeys(d.response)
    BY <1>7, KeysAreDocumented
  <2>. QED
    BY <1>5, <1>6, <2>1, <2>2, Zenon
<1>. QED
  BY <1>2, <1>3, <1>4, <1>5, <1>6, <1>8, Zenon

\* However the recordings overtake each other and the tests, each that was
\* written is in the document, under the test that sent it or a later one.
THEOREM RecordsAreDocumented == Spec => []WrittenIsDocumented
<1>1. RecordInv => WrittenIsDocumented
  BY StoredIsDocumented DEF RecordInv, WrittenIsDocumented
<1>. QED
  BY <1>1, RecordInvInitially, RecordInvPreserved, PTL DEF Spec

-----------------------------------------------------------------------------
(* The application manager inside the harness                               *)

CrashEndsWorker == report = "crashed" => phase = "exited"

LEMMA HarnessSteps ==
  CrashEndsWorker /\ [Next]_vars => CrashEndsWorker' /\ [Lifecycle!Next]_(Lifecycle!vars)
<1>. SUFFICES ASSUME CrashEndsWorker, [Next]_vars
              PROVE  CrashEndsWorker' /\ [Lifecycle!Next]_(Lifecycle!vars)
  OBVIOUS
<1>. USE DEF CrashEndsWorker
<1>1. CASE \/ beforeEach \/ beforeEachFails \/ TestsOver \/ WorkerExits \/ SendRequest \/ TestEnds
           \/ (\E override \in Override : assureConfig(override))
           \/ (\E p \in pending : StoreWrites(p) \/ StoreFails(p)) \/ UNCHANGED vars
  <2>1. UNCHANGED <<up, serving, report>> /\ (phase = "exited" => phase' = "exited")
    BY <1>1 DEF beforeEach, beforeEachFails, TestsOver, WorkerExits, SendRequest, TestEnds,
                assureConfig, StoreWrites, StoreFails, vars, lifecycleVars
  <2>. QED
    BY <2>1 DEF Lifecycle!vars
<1>2. CASE beforeAll \/ afterAll \/ ReloadCloses \/ ConfigRejected \/ ReloadFails \/ Reloaded
  <2>1. report # "crashed"
    BY <1>2 DEF beforeAll, afterAll, ReloadCloses, ConfigRejected, ReloadFails, Reloaded
  <2>2. \/ Lifecycle!StartSucceeds \/ Lifecycle!StartFails
        \/ Lifecycle!CloseSucceeds \/ Lifecycle!CloseFails
        \/ Lifecycle!Crash /\ phase' = "exited"
    BY <1>2 DEF beforeAll, afterAll, ReloadCloses, ConfigRejected, ReloadFails, Reloaded
  <2>. QED
    BY <2>1, <2>2 DEF Lifecycle!Next, Lifecycle!StartSucceeds, Lifecycle!StartFails,
                      Lifecycle!CloseSucceeds, Lifecycle!CloseFails
<1>. QED
  BY <1>1, <1>2 DEF Next

\* Hooks and tests ask the application manager for nothing that AppLifecycle
\* does not offer, and for nothing more once a port that could not be bound has
\* ended the worker.
THEOREM HarnessKeepsToLifecycle == Spec => Lifecycle!Spec
<1>1. Init => CrashEndsWorker /\ Lifecycle!Init
  BY DEF Init, Lifecycle!Init, CrashEndsWorker
<1>. QED
  BY <1>1, HarnessSteps, PTL DEF Spec, Lifecycle!Spec
=============================================================================
