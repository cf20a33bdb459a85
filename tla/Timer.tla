-------------------------------- MODULE Timer --------------------------------
(***************************************************************************)
(* cockatielTimer (shared/lib/timer.lib.ts), the polling loop behind        *)
(* awaitUncompletedRequests: call check(), and call it again after `delay`, *)
(* until it returns something other than false or the retries of the        *)
(* cockatiel policy are used up.  Time is counted while the timer waits and *)
(* while check() runs.                                                      *)
(***************************************************************************)
EXTENDS Naturals

CONSTANTS
  maxDuration, delay,  \* the configuration, in ticks
  CheckTime            \* how long one check() may take

ASSUME TimerAssumption ==
  maxDuration \in Nat /\ delay \in Nat \ {0} /\ CheckTime \subseteq Nat

VARIABLES
  phase,    \* "checking", "waiting" for the delay, "returned"
  retries,  \* retries the policy has used
  elapsed,  \* time since the timer was called
  last,     \* what the last check() did
  result    \* the Result: "none", "succeed", "timeout" or "checkError"

timerVars == <<phase, retries, elapsed, last, result>>

\* Mutants: rounded down, and the first check counted as a retry.
maxAttemptsRoundedDown == maxDuration \div delay

maxAttemptsPlusOne == (maxDuration + delay - 1) \div delay + 1

\* Math.ceil(maxDuration / delay)
maxAttempts == (maxDuration + delay - 1) \div delay

\* Ways for check() to end: with true or false, or by throwing an Error, an
\* Error whose message happens to be 'retry', or something that is no Error.
Outcome == {"true", "false", "error", "retryError", "other"}

TimerTypeOK ==
  /\ phase \in {"checking", "waiting", "returned"}
  /\ retries \in 0..maxAttempts /\ elapsed \in Nat
  /\ last \in Outcome \cup {"none"}
  /\ result \in {"none", "succeed", "timeout", "checkError"}

TimerInit ==
  /\ phase = "checking" /\ retries = 0 /\ elapsed = 0
  /\ last = "none" /\ result = "none"

Ends(outcome, spent) ==
  /\ phase = "checking"
  /\ last' = outcome /\ elapsed' = elapsed + spent

CheckSucceeds(spent) ==
  /\ Ends("true", spent)
  /\ phase' = "returned" /\ result' = "succeed"
  /\ UNCHANGED retries

\* A false and every exception alike are a failure the policy handles.
CheckFails(outcome, spent) ==
  /\ Ends(outcome, spent) /\ outcome # "true"
  /\ retries < maxAttempts
  /\ phase' = "waiting"
  /\ UNCHANGED <<retries, result>>

\* Mutant: every exception counts as a check error.
GiveUpBlamingCheck(outcome, spent) ==
  /\ Ends(outcome, spent) /\ outcome # "true"
  /\ retries = maxAttempts
  /\ phase' = "returned"
  /\ result' = IF outcome = "false" THEN "timeout" ELSE "checkError"
  /\ UNCHANGED retries

\* Out of retries: the last failure is rethrown and decides the Result.
GiveUp(outcome, spent) ==
  /\ Ends(outcome, spent) /\ outcome # "true"
  /\ retries = maxAttempts
  /\ phase' = "returned"
  /\ result' = IF outcome = "error" THEN "checkError" ELSE "timeout"
  /\ UNCHANGED retries

\* Mutant: the timer of the backoff never fires.
RetryNeverFires == phase = "waiting" /\ UNCHANGED timerVars

Retry ==
  /\ phase = "waiting"
  /\ phase' = "checking" /\ retries' = retries + 1 /\ elapsed' = elapsed + delay
  /\ UNCHANGED <<last, result>>

TimerNext ==
  \/ \E spent \in CheckTime :
       \/ CheckSucceeds(spent)
       \/ \E outcome \in Outcome : CheckFails(outcome, spent) \/ GiveUp(outcome, spent)
  \/ Retry

\* check() settles and timers fire.
TimerSpec == TimerInit /\ [][TimerNext]_timerVars /\ WF_timerVars(TimerNext)

-----------------------------------------------------------------------------
(* Properties                                                               *)

\* The time spent waiting so far, whatever the checks took.
Waited == retries * delay

\* The timer never gives up early: a timeout is reported only once maxDuration
\* has passed, also when delay does not divide it.
NeverGivesUpEarly == result \in {"timeout", "checkError"} => elapsed >= maxDuration

\* It does not wait past maxDuration by a whole delay: what it takes longer than
\* that is the time of the checks.
WaitsNoLongerThanNeeded == Waited < maxDuration + delay

\* A success is reported for the check that just returned true, and a check
\* error only if the last of the checks threw one: a check that threw earlier
\* and then returns false ends as a timeout.
ResultReflectsLastCheck ==
  phase = "returned" =>
    /\ result = "succeed" <=> last = "true"
    /\ result = "checkError" <=> last = "error"

\* The timer always returns.
TimerReturns == <>(phase = "returned")
=============================================================================
