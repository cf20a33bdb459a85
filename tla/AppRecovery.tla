----------------------------- MODULE AppRecovery -----------------------------
(***************************************************************************)
(* Getting an application back after partial failures.  Nothing in the     *)
(* code retries; this module adds an operator who, once the databases and  *)
(* the port stop failing, calls startApp until it succeeds and closeApp    *)
(* after every start that failed.  Before that anybody may call anything.  *)
(***************************************************************************)
EXTENDS AppManager

VARIABLE stable  \* no driver call and no bind fails any more

recoveryVars == <<vars, stable>>

RecoveryInit == AppInit /\ stable = FALSE

Serving == listening /\ report = "startOk"

\* A client that was lost in a failed disconnect() and refuses to be closed
\* again: its database stays "connected" whatever is called.
Wedged ==
  \E i \in Db : client[i] = ClosedClient /\ Databases[i].rejectsSecondClose

MustReject(c) ==
  /\ Awaiting(c, "disconnect") /\ pass[c].client = ClosedClient
  /\ Databases[pass[c].at].rejectsSecondClose

Stabilise == stable' = TRUE /\ UNCHANGED vars

Operate(c) ==
  /\ ~Serving
  /\ IF report = "startFailed" THEN closeApp(c) ELSE startApp(c)

RecoveryStep(c) ==
  /\ \/ Continue(c)
     \/ stable /\ Operate(c)
     \/ ~stable /\ (Begin(c) \/ Misfortune(c))
     \/ stable /\ MustReject(c) /\ PassFails(c)
  /\ UNCHANGED stable

RecoveryNext ==
  \/ \E c \in Caller : RecoveryStep(c)
  \/ Stabilise
  \/ (RequestArrives \/ RequestAnswered \/ Crashed) /\ UNCHANGED stable

RecoverySpec ==
  /\ RecoveryInit /\ [][RecoveryNext]_recoveryVars
  /\ \A c \in Caller : WF_recoveryVars(RecoveryStep(c))

\* No mixture of earlier failures is beyond repair by repeated closeApp and
\* startApp, except a redis client that died inside its own quit().
Recovers == stable ~> (Serving \/ Wedged \/ ~alive)

\* That one is beyond repair for good: its database can neither be disconnected
\* nor, being "connected", be connected again, so whatever is called, and whether
\* or not anything fails, the application is never started again.
WedgedForGood == [][Wedged => Wedged' /\ (Serving' => Serving)]_vars

=============================================================================
