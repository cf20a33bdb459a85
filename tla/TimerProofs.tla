----------------------------- MODULE TimerProofs -----------------------------
(***************************************************************************)
(* Timer proved for every maxDuration, delay and duration of the checks.    *)
(***************************************************************************)
EXTENDS Timer, Integers, TLAPS

\* Division with remainder, as \div and % define it.
LEMMA Division ==
  ASSUME NEW x \in Nat, NEW d \in Nat, d > 0
  PROVE  /\ x \div d \in Int
         /\ x = d * (x \div d) + (x % d)
         /\ x % d \in 0..(d - 1)
         /\ d * (x \div d) <= x
<1>1. x \div d \in Int
  BY SMT
<1>2. x = d * (x \div d) + (x % d)
  BY SMT
<1>3. x % d \in 0..(d - 1)
  BY SMT
<1>4. d * (x \div d) <= x
  BY SMT
<1>. QED
  BY <1>1, <1>2, <1>3, <1>4

\* maxAttempts delays are enough to cover maxDuration, and one less is not:
\* Math.ceil as the code uses it.
LEMMA CeilCoversDuration ==
  /\ maxAttempts \in Nat
  /\ maxAttempts * delay >= maxDuration
  /\ maxAttempts * delay < maxDuration + delay
<1>1. maxDuration + delay - 1 \in Nat /\ delay \in Nat /\ delay > 0
  BY TimerAssumption
<1>2. PICK q \in Int, m \in 0..(delay - 1) :
        q = maxAttempts /\ maxDuration + delay - 1 = delay * q + m
  BY <1>1, Division DEF maxAttempts
<1>3. q >= 0
  <2>1. SUFFICES ASSUME q < 0 PROVE FALSE
    BY <1>2
  <2>2. delay * q <= -delay
    BY <2>1, <1>1, <1>2, SMT
  <2>. QED
    BY <2>2, <1>1, <1>2, TimerAssumption, SMT
<1>4. q * delay >= maxDuration /\ q * delay < maxDuration + delay
  BY <1>1, <1>2, TimerAssumption, SMT
<1>. QED
  BY <1>2, <1>3, <1>4

-----------------------------------------------------------------------------

\* Why a timeout cannot come early: every retry used was paid for with a delay,
\* and failures are reported only when the retries are used up.
TimerInv ==
  /\ TimerTypeOK
  /\ elapsed >= retries * delay
  /\ phase = "waiting" => retries < maxAttempts
  /\ phase # "returned" <=> result = "none"
  /\ result \in {"timeout", "checkError"} => retries = maxAttempts
  /\ ResultReflectsLastCheck

\* The duration of one check is a natural number.
LEMMA SpentIsNat == ASSUME NEW spent \in CheckTime PROVE spent \in Nat
  BY TimerAssumption

LEMMA TimerInvInitially == TimerInit => TimerInv
<1>1. 0 * delay = 0
  BY TimerAssumption, SMT
<1>. QED
  BY <1>1, CeilCoversDuration DEF TimerInit, TimerInv, TimerTypeOK, ResultReflectsLastCheck

LEMMA TimerInvPreserved == TimerInv /\ [TimerNext]_timerVars => TimerInv'
<1>. SUFFICES ASSUME TimerInv, [TimerNext]_timerVars PROVE TimerInv'
  OBVIOUS
<1>. USE DEF TimerInv, TimerTypeOK, ResultReflectsLastCheck, Outcome
<1>1. maxAttempts \in Nat /\ delay \in Nat /\ retries \in Nat /\ retries * delay \in Nat
  <2>1. maxAttempts \in Nat /\ delay \in Nat /\ retries \in Nat
    BY CeilCoversDuration, TimerAssumption
  <2>. QED
    BY <2>1, SMT
<1>2. ASSUME NEW spent \in CheckTime, CheckSucceeds(spent) PROVE TimerInv'
  <2>. DEFINE w == retries * delay
  <2>1. elapsed' \in Nat /\ elapsed' >= w /\ w' = w
    BY <1>1, <1>2, SpentIsNat DEF CheckSucceeds, Ends
  <2>. HIDE DEF w
  <2>. QED
    BY <1>1, <1>2, <2>1 DEF CheckSucceeds, Ends, w
<1>3. ASSUME NEW spent \in CheckTime, NEW outcome \in Outcome, CheckFails(outcome, spent)
      PROVE  TimerInv'
  <2>1. elapsed' \in Nat /\ elapsed' >= (retries * delay)'
    BY <1>1, <1>3, SpentIsNat DEF CheckFails, Ends
  <2>. QED
    BY <1>1, <1>3, <2>1 DEF CheckFails, Ends
<1>4. ASSUME NEW spent \in CheckTime, NEW outcome \in Outcome, GiveUp(outcome, spent)
      PROVE  TimerInv'
  <2>1. elapsed' \in Nat /\ elapsed' >= (retries * delay)'
    BY <1>1, <1>4, SpentIsNat DEF GiveUp, Ends
  <2>. QED
    BY <1>1, <1>4, <2>1 DEF GiveUp, Ends
<1>5. CASE Retry
  <2>1. retries' = retries + 1 /\ elapsed' = elapsed + delay
    BY <1>5 DEF Retry
  <2>2. (retries + 1) * delay = retries * delay + delay
    BY <1>1, SMT
  <2>3. elapsed' \in Nat /\ elapsed' >= (retries * delay)'
    BY <1>1, <2>1, <2>2
  <2>. QED
    BY <1>1, <1>5, <2>1, <2>3 DEF Retry
<1>6. CASE UNCHANGED timerVars
  BY <1>6 DEF timerVars
<1>. QED
  BY <1>2, <1>3, <1>4, <1>5, <1>6 DEF TimerNext

\* cockatielTimer keeps the types of its variables.
THEOREM TimerTypeCorrect == TimerSpec => []TimerTypeOK
<1>1. TimerInv => TimerTypeOK
  BY DEF TimerInv
<1>. QED
  BY <1>1, TimerInvInitially, TimerInvPreserved, PTL DEF TimerSpec

\* A timeout of awaitUncompletedRequests means that maxDuration has passed,
\* whatever maxDuration and delay are and however long the checks take.
THEOREM NeverEarly == TimerSpec => []NeverGivesUpEarly
<1>1. TimerInv => NeverGivesUpEarly
  BY CeilCoversDuration, TimerAssumption, SMT DEF TimerInv, TimerTypeOK, NeverGivesUpEarly
<1>. QED
  BY <1>1, TimerInvInitially, TimerInvPreserved, PTL DEF TimerSpec

\* The retries never wait a whole delay longer than maxDuration asks for.
THEOREM NeverWaitsInVain == TimerSpec => []WaitsNoLongerThanNeeded
<1>1. ASSUME TimerInv PROVE WaitsNoLongerThanNeeded
  <2>1. retries \in Nat /\ maxAttempts \in Nat /\ retries <= maxAttempts /\ delay \in Nat
    BY <1>1, CeilCoversDuration, TimerAssumption DEF TimerInv, TimerTypeOK
  <2>2. retries * delay <= maxAttempts * delay
    BY <2>1, SMT
  <2>. QED
    BY <2>1, <2>2, CeilCoversDuration, TimerAssumption, SMT DEF WaitsNoLongerThanNeeded, Waited
<1>. QED
  BY <1>1, TimerInvInitially, TimerInvPreserved, PTL DEF TimerSpec

\* The Result the timer returns is about its last check.
THEOREM ResultIsOfLastCheck == TimerSpec => []ResultReflectsLastCheck
<1>1. TimerInv => ResultReflectsLastCheck
  BY DEF TimerInv
<1>. QED
  BY <1>1, TimerInvInitially, TimerInvPreserved, PTL DEF TimerSpec
=============================================================================
