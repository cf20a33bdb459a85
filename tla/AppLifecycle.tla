---------------------------- MODULE AppLifecycle ----------------------------
(***************************************************************************)
(* What the application manager promises to whoever calls startApp and     *)
(* closeApp one at a time: each call is atomic, takes effect on a front    *)
(* part of the databases, and moves the HTTP server only when it got       *)
(* through all of them.  A failed call leaves the server as it was.        *)
(***************************************************************************)
EXTENDS Naturals

CONSTANT N  \* number of databases

VARIABLES
  up,       \* the databases that are connected
  serving,  \* the HTTP server accepts requests
  report    \* outcome of the last startApp or closeApp, "crashed" for ever after

vars == <<up, serving, report>>

Report == {"none", "startOk", "startFailed", "closeOk", "closeFailed", "crashed"}

Front(k) == 1..(k - 1)

Init == up = {} /\ serving = FALSE /\ report = "none"

StartSucceeds ==
  /\ up = {} /\ ~serving
  /\ up' = 1..N /\ serving' = TRUE /\ report' = "startOk"

StartFails ==
  /\ \E k \in 1..N : Front(k) \cap up = {} /\ up' = up \cup Front(k)
  /\ report' = "startFailed" /\ UNCHANGED serving

CloseSucceeds ==
  /\ up = 1..N /\ serving
  /\ up' = {} /\ serving' = FALSE /\ report' = "closeOk"

CloseFails ==
  /\ \E k \in 1..N : Front(k) \subseteq up /\ up' = up \ Front(k)
  /\ report' = "closeFailed" /\ UNCHANGED serving

\* Binding the port failed: the process dies before the start is reported.
Crash ==
  /\ up = {} /\ ~serving
  /\ report' = "crashed" /\ UNCHANGED <<up, serving>>

Next ==
  /\ report # "crashed"
  /\ StartSucceeds \/ StartFails \/ CloseSucceeds \/ CloseFails \/ Crash

Spec == Init /\ [][Next]_vars
=============================================================================
