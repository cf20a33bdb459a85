----------------------------- MODULE TestHarness -----------------------------
(***************************************************************************)
(* A file of integration tests: the hooks and the assureConfig of          *)
(* test/setup.ts around tests that override parts of the config and send   *)
(* requests, the recording of these requests by openApiGeneratorStoreData, *)
(* which nobody awaits, and the document that is generated from the        *)
(* records.  The application manager is module AppLifecycle.               *)
(***************************************************************************)
EXTENDS Naturals, Sequences, SequencesExt, FiniteSets

CONSTANTS
  N,           \* number of databases
  Tests,       \* tests of the file
  Text,        \* values of a setting that is an enumeration, say APP_STAGE
  ValidText,   \* those that the validator accepts
  Unset,       \* no value
  Data,        \* what a request may leave to record
  MaxRequests  \* bound: requests that the tests send

ASSUME TestsAssumption == N \in Nat \ {0} /\ Tests \in Nat /\ MaxRequests \in Nat
ASSUME TextAssumption ==
  /\ ValidText \subseteq Text
  /\ Unset \notin Text /\ Unset \notin BOOLEAN /\ Unset \notin {"", "true", "false"}

\* A body is the set of the paths of its keys.
Body == SUBSET Seq(STRING)
ASSUME DataAssumption ==
  \A d \in Data : d.request \in Body /\ d.response \in Body

VARIABLES
  up, serving, report,  \* as in AppLifecycle
  env,       \* process.env: strings, or Unset
  config,    \* config in the container
  phase,     \* what the worker is doing
  test,      \* number of the current test
  asked,     \* history: the overrides each test gave to assureConfig
  outcome,   \* history: how each test ended
  pending,   \* calls of openApiGeneratorStoreData that await vitest's import
  files,     \* the file written under each name
  counter,   \* state.counter of the generator
  written    \* history: what was written, and by which test it was sent

Lifecycle == INSTANCE AppLifecycle

lifecycleVars == <<up, serving, report>>
recording == <<pending, files, counter, written>>
vars == <<lifecycleVars, env, config, phase, test, asked, outcome, recording>>

Override == [flag : BOOLEAN \cup {Unset}, text : Text \cup {Unset}]

-----------------------------------------------------------------------------
(* Configuration: EMPTYING_DATABASE_ALLOWED and one other setting           *)

\* zod.boolean({ coerce: true }) over a variable of the environment: every
\* string but the empty one is true.
coerce(string) == string \notin {Unset, ""}

\* An environment variable is a string.
stringified(flag) == IF flag THEN "true" ELSE "false"

\* Mutant: setEnvVariables works on a copy.
setCopiedVariables(override) == UNCHANGED env

\* setEnvVariables({ ...envVariables, ...override })
setEnvVariables(override) ==
  env' = [flag |-> IF override.flag = Unset THEN env.flag ELSE stringified(override.flag),
          text |-> IF override.text = Unset THEN env.text ELSE override.text]

\* loadConfig of the same values, where an override is not yet a string.
loadConfig(override) ==
  [flag |-> IF override.flag = Unset THEN coerce(env.flag) ELSE override.flag,
   text |-> IF override.text = Unset THEN env.text ELSE override.text]

NoOverride == [flag |-> Unset, text |-> Unset]

-----------------------------------------------------------------------------
(* Recording                                                                *)

\* One function for each file name; paths begin with the url of the record.
NoFiles == [name \in {} |-> {}]

Sent == Len(written) + Cardinality(pending)

\* route.test got its answer and calls openApiGeneratorStoreData; the guard on
\* OPEN_API_PATH is behind it.
StoreData(data) ==
  /\ Sent < MaxRequests
  /\ pending' = pending \cup {[data |-> data, sent |-> test, id |-> Sent]}
  /\ UNCHANGED <<files, counter, written>>

Writes(p, name) ==
  /\ files' = [n \in DOMAIN files \cup {name} |-> IF n = name THEN p.data ELSE files[n]]
  /\ written' = Append(written, [data |-> p.data, sent |-> p.sent, filed |-> test])
  /\ pending' = pending \ {p}

\* Mutant: the counter stands still.
StoreWritesUncounted(p) ==
  /\ phase # "exited"
  /\ Writes(p, <<p.data.url, counter>>)
  /\ UNCHANGED <<lifecycleVars, env, config, phase, test, asked, outcome, counter>>

\* The import has resolved: the current test is looked up, the file written and
\* the counter moved on in one go.
StoreWrites(p) ==
  /\ phase # "exited"
  /\ Writes(p, <<p.data.url, counter>>)
  /\ counter' = counter + 1
  /\ UNCHANGED <<lifecycleVars, env, config, phase, test, asked, outcome>>

\* abortTestsWithError: process.exit(1).
StoreFails(p) ==
  /\ phase # "exited"
  /\ phase' = "exited" /\ pending' = {}
  /\ UNCHANGED <<lifecycleVars, env, config, test, asked, outcome, files, counter, written>>

-----------------------------------------------------------------------------
(* The hooks of test/setup.ts                                               *)

\* The module loads the container before anything else: the environment is one
\* that loadConfig accepts.
Init ==
  /\ Lifecycle!Init
  /\ env \in [flag : {Unset, "true", "false"}, text : ValidText]
  /\ config = loadConfig(NoOverride)
  /\ phase = "beforeAll" /\ test = 1
  /\ asked = <<>> /\ outcome = <<>>
  /\ pending = {} /\ files = NoFiles /\ counter = 0 /\ written = <<>>

Ends(how) ==
  /\ outcome' = Append(outcome, how)
  /\ phase' = "beforeEach" /\ test' = test + 1

\* A failed start fails every test of the file without running it.
beforeAll ==
  /\ phase = "beforeAll"
  /\ \/ Lifecycle!StartSucceeds /\ phase' = "beforeEach"
     \/ Lifecycle!StartFails /\ phase' = "afterAll"
     \/ Lifecycle!Crash /\ phase' = "exited"
  /\ UNCHANGED <<env, config, test, asked, outcome, recording>>

\* emptyDatabases needs every database, and the flag of the current config.
MayEmpty == up = 1..N /\ config.flag

beforeEach ==
  /\ phase = "beforeEach" /\ test <= Tests
  /\ MayEmpty /\ phase' = "prepare"
  /\ UNCHANGED <<lifecycleVars, env, config, test, asked, outcome, recording>>

\* Not allowed, not connected, or a database failed: the test is not run.
beforeEachFails ==
  /\ phase = "beforeEach" /\ test <= Tests
  /\ Ends("hookFailed")
  /\ asked' = Append(asked, NoOverride)
  /\ UNCHANGED <<lifecycleVars, env, config, recording>>

TestsOver ==
  /\ phase = "beforeEach" /\ test > Tests
  /\ phase' = "afterAll"
  /\ UNCHANGED <<lifecycleVars, env, config, test, asked, outcome, recording>>

\* closeApp, then the worker exits; stores still awaiting may be lost.
afterAll ==
  /\ phase = "afterAll"
  /\ IF serving THEN Lifecycle!CloseSucceeds \/ Lifecycle!CloseFails
                ELSE Lifecycle!CloseFails
  /\ phase' = "closed"
  /\ UNCHANGED <<env, config, test, asked, outcome, recording>>

WorkerExits ==
  /\ phase = "closed"
  /\ phase' = "exited" /\ pending' = {}
  /\ UNCHANGED <<lifecycleVars, env, config, test, asked, outcome, files, counter, written>>

-----------------------------------------------------------------------------
(* A test                                                                   *)

\* Object.keys(a) !== Object.keys(b) compares two new arrays: assureConfig
\* reloads the application whether or not there is a difference.
assureConfig(override) ==
  /\ phase = "prepare"
  /\ setEnvVariables(override)
  /\ asked' = Append(asked, override)
  /\ phase' = "reloading"
  /\ UNCHANGED <<lifecycleVars, config, test, outcome, recording>>

\* loadAppContainer registers the config and startApp comes next.
ReloadCloses ==
  /\ phase = "reloading"
  /\ Lifecycle!CloseSucceeds
  /\ loadConfig(asked[test]).text \in ValidText
  /\ config' = loadConfig(asked[test])
  /\ phase' = "starting"
  /\ UNCHANGED <<env, test, asked, outcome, recording>>

\* Mutant: the config is validated before the application is closed.
ConfigRejectedFirst ==
  /\ phase = "reloading"
  /\ loadConfig(asked[test]).text \notin ValidText
  /\ Ends("configRejected")
  /\ UNCHANGED <<lifecycleVars, env, config, asked, recording>>

\* The application is closed by now, and stays closed.
ConfigRejected ==
  /\ phase = "reloading"
  /\ Lifecycle!CloseSucceeds
  /\ loadConfig(asked[test]).text \notin ValidText
  /\ Ends("configRejected")
  /\ UNCHANGED <<env, config, asked, recording>>

ReloadFails ==
  /\ \/ phase = "reloading" /\ Lifecycle!CloseFails
     \/ phase = "starting" /\ Lifecycle!StartFails
  /\ Ends("reloadFailed")
  /\ UNCHANGED <<env, config, asked, recording>>

Reloaded ==
  /\ phase = "starting"
  /\ \/ Lifecycle!StartSucceeds /\ phase' = "executing"
     \/ Lifecycle!Crash /\ phase' = "exited"
  /\ UNCHANGED <<env, config, test, asked, outcome, recording>>

SendRequest ==
  /\ phase = "executing"
  /\ \E data \in Data : StoreData(data)
  /\ UNCHANGED <<lifecycleVars, env, config, phase, test, asked, outcome>>

TestEnds ==
  /\ phase = "executing"
  /\ \E how \in {"passed", "failed"} : Ends(how)
  /\ UNCHANGED <<lifecycleVars, env, config, asked, recording>>

-----------------------------------------------------------------------------

Next ==
  \/ beforeAll \/ beforeEach \/ beforeEachFails \/ TestsOver \/ afterAll \/ WorkerExits
  \/ \E override \in Override : assureConfig(override)
  \/ ReloadCloses \/ ConfigRejected \/ ReloadFails \/ Reloaded
  \/ SendRequest \/ TestEnds
  \/ \E p \in pending : StoreWrites(p) \/ StoreFails(p)

Spec == Init /\ [][Next]_vars

-----------------------------------------------------------------------------
(* The document that open-api-docs-generator.lib.script.ts makes of the     *)
(* files                                                                    *)

Stored == {files[name] : name \in DOMAIN files}

\* How often each name occurs among the keys of a body, at any depth: what
\* getNestedObjectKeys joins, sorted.
NestedKeys(body) ==
  [key \in {Last(path) : path \in body} |->
     Cardinality({path \in body : Last(path) = key})]

\* generateOpenApiSchemaAndExamples keeps one body of those with the same keys.
Schemas(bodies) ==
  {CHOOSE body \in bodies : NestedKeys(body) = keys :
     keys \in {NestedKeys(body) : body \in bodies}}

getOpenApiResponsesSchemaEntries(group) ==
  [status \in {d.status : d \in group} |->
     Schemas({d.response : d \in {e \in group : e.status = status}})]

getRequestBodySchemaEntries(group) ==
  [type \in {d.contentType : d \in group} |->
     Schemas({d.request : d \in {e \in group : e.contentType = type}})]

\* groupStoredData and getOpenApiPaths: by url, then by method.
openApiGeneratorGenerate(stored) ==
  [url \in {d.url : d \in stored} |->
     LET ofUrl == {d \in stored : d.url = url}
     IN  [method \in {d.method : d \in ofUrl} |->
            LET group == {d \in ofUrl : d.method = method}
            IN  [requestBody |-> getRequestBodySchemaEntries(group),
                 responses |-> getOpenApiResponsesSchemaEntries(group)]]]

-----------------------------------------------------------------------------
(* Properties                                                               *)

LastAsked(t) ==
  LET given == {u \in 1..t : asked[u].text # Unset}
  IN  IF given = {} THEN Unset ELSE asked[CHOOSE u \in given : \A v \in given : v <= u].text

\* Databases are emptied for a test only if the environment gives the variable
\* that allows it a value, which may well be "false".  A test runs with the
\* overrides it asked for, and with those that tests before it asked for and it
\* did not: nothing puts the environment back.
OverridesOutliveTheirTest ==
  /\ phase = "prepare" => env.flag # Unset
  /\ phase = "executing" =>
       /\ asked[test].flag # Unset => config.flag = asked[test].flag
       /\ LastAsked(test) # Unset => config.text = LastAsked(test)

\* After a test that asked for an invalid value, or for a database that must
\* not be emptied, no other test of the file passes.
OneTestSpoilsTheRest ==
  \A t \in DOMAIN outcome :
    outcome[t] = "configRejected" \/ (outcome[t] = "passed" /\ asked[t].flag = FALSE)
      => \A u \in DOMAIN outcome : u > t => outcome[u] = "hookFailed"

\* Every request whose recording was written is in the generated document: its
\* url, method, content type and status, with a request and a response of the
\* same keys.  It is filed under the test that sent it or a later one.
WrittenIsDocumented ==
  LET document == openApiGeneratorGenerate(Stored)
      Documents(schemas, body) == \E s \in schemas : NestedKeys(s) = NestedKeys(body)
  IN  \A i \in DOMAIN written :
        LET d == written[i].data
        IN  /\ written[i].filed >= written[i].sent
            /\ d.url \in DOMAIN document /\ d.method \in DOMAIN document[d.url]
            /\ LET operation == document[d.url][d.method]
               IN  /\ d.contentType \in DOMAIN operation.requestBody
                   /\ Documents(operation.requestBody[d.contentType], d.request)
                   /\ d.status \in DOMAIN operation.responses
                   /\ Documents(operation.responses[d.status], d.response)
=============================================================================
