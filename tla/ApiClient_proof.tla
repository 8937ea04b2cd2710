-------------------------- MODULE ApiClient_proof --------------------------
(* Proofs about ApiClient.tla.  A client step is a step of the breaker or      *)
(* leaves it alone, so the breaker's theorems hold of the whole client; a      *)
(* second invariant ties the breaker's fields to what the wire has seen.       *)
EXTENDS ApiClient, InMemoryBreaker_proof

(* The parser returns a delay that is not negative, or nothing.                *)
LEMMA ParseIsDelay ==
  ASSUME NEW header \in Header, NEW t \in Nat
  PROVE  ParseRetryAfter(header, t) \in Nat \cup {NoHint}
  BY ClientAssumption, DelayAssumption DEF Header, ParseRetryAfter

(* Whatever the server asks for and whatever the attempt, the sleep is         *)
(* between 0 and MaxDelay.                                                     *)
LEMMA WaitIsBounded ==
  ASSUME NEW hint \in Nat \cup {NoHint}, NEW n \in Nat \ {0}
  PROVE  Wait(hint, n) \in 0 .. MaxDelay
  <1>1. 2^(n - 1) \in Int
    OBVIOUS
  <1>2. BaseDelay * 2^(n - 1) \in Int
    BY <1>1, DelayAssumption
  <1>3. Backoff(n) \in 0 .. MaxDelay
    <2> DEFINE raw == BaseDelay * 2^(n - 1)
    <2>1. raw \in Int
      BY <1>2
    <2> HIDE DEF raw
    <2>2. AtLeast(AtMost(raw, MaxDelay), 0) \in 0 .. MaxDelay
      BY <2>1, DelayAssumption DEF AtLeast, AtMost
    <2> QED BY <2>2 DEF Backoff, raw
  <1> QED BY <1>3, DelayAssumption DEF Wait, AtMost

(* A Retry-After the cap allows is honoured to the second.                     *)
LEMMA RetryAfterIsHonoured ==
  ASSUME NEW hint \in 0 .. MaxDelay, NEW n \in Nat
  PROVE  Wait(hint, n) = hint
  BY DelayAssumption DEF Wait, AtMost

-----------------------------------------------------------------------------
(* Every step of the client is a step of the breaker, or leaves it unchanged.  *)
LEMMA ClientStepIsBreakerStep == [ClientNext]_vars => [Next]_breakerVars
  <1> SUFFICES ASSUME [ClientNext]_vars PROVE [Next]_breakerVars
    OBVIOUS
  <1>1. ASSUME NEW t \in Thread, Request(t) PROVE UNCHANGED breakerVars
    BY <1>1 DEF Request
  <1>2. ASSUME NEW t \in Thread, Proceed(t) PROVE [Next]_breakerVars
    BY <1>2 DEF Proceed, Send, FailFast, Respond, Answer, TransientHttp,
                TransportError, OtherError, Wake, Next, Enter
  <1>3. CASE ClientTick
    BY <1>3 DEF ClientTick, Next
  <1>4. CASE UNCHANGED vars
    BY <1>4 DEF vars
  <1> QED BY <1>1, <1>2, <1>3, <1>4 DEF ClientNext

(* The client uses the breaker as the breaker is specified, in every order of  *)
(* its retries, sleeps and exceptions: what is proved of the breaker under     *)
(* arbitrary callers holds of the client.                                      *)
THEOREM ClientUsesBreaker == ClientSpec => Spec
  <1>1. ClientInit => Init
    BY DEF ClientInit
  <1> QED BY <1>1, ClientStepIsBreakerStep, PTL DEF ClientSpec, Spec

(* What the breaker promises, it keeps under the client's requests, retries    *)
(* and late results: blocked exactly while a full streak of failures is young. *)
THEOREM ClientKeepsContract == ClientSpec => ImplementsContract
  BY ClientUsesBreaker, Implementation, PTL

-----------------------------------------------------------------------------
(* The breaker's counter is the run of bad answers on the wire, and its stamp  *)
(* is the last of them whenever it matters.                                    *)
BreakerSeesWire == /\ badRun = failureCount
                   /\ failureCount >= Threshold => lastBad = openSince

(* No request sleeps after its last attempt.                                   *)
SleepLeavesAttempt == \A t \in Thread : request[t] = "sleeping" => attempt[t] < MaxAttempts

ClientInv == ClientTypeOK /\ InsideOnlyWhileTrying /\ SleepLeavesAttempt /\ BreakerSeesWire

LEMMA ClientInitEstablishes == ClientInit => ClientInv
  BY BreakerAssumption, ClientAssumption, DelayAssumption
     DEF ClientInit, Init, ClientInv, ClientTypeOK, InsideOnlyWhileTrying,
         SleepLeavesAttempt, BreakerSeesWire, Outcome

(* What a failed attempt does to the client's fields.                          *)
LEMMA RetryKeepsType ==
  ASSUME ClientTypeOK, TypeOK, NEW t \in Thread, NEW hint \in Nat \cup {NoHint},
         NEW how \in Outcome, Retry(t, hint, how), now' = now
  PROVE  /\ request' \in [Thread -> {"none", "trying", "sleeping"}]
         /\ attempt' \in [Thread -> 1 .. MaxAttempts]
         /\ wakeAt' \in [Thread -> 0 .. now' + MaxDelay]
         /\ outcome' \in [Thread -> Outcome]
  <1>1. now \in Nat /\ attempt[t] \in Nat \ {0}
    BY BreakerAssumption, ClientAssumption DEF TypeOK, ClientTypeOK
  <1>2. now + Wait(hint, attempt[t]) \in 0 .. now + MaxDelay
    BY <1>1, WaitIsBounded, DelayAssumption
  <1> QED BY <1>2 DEF Retry, Finish, ClientTypeOK

LEMMA ClientStepPreserves == ClientInv /\ IInv /\ IInv' /\ [ClientNext]_vars => ClientInv'
  <1> SUFFICES ASSUME ClientInv, IInv, IInv', [ClientNext]_vars PROVE ClientInv'
    OBVIOUS
  <1> USE BreakerAssumption, ClientAssumption, DelayAssumption
          DEF ClientInv, IInv, InsideOnlyWhileTrying, SleepLeavesAttempt, BreakerSeesWire
  <1>0. now \in Nat /\ failureCount \in Nat /\ openSince \in 0 .. now
    BY DEF TypeOK
  <1>1. ASSUME NEW t \in Thread, Request(t) PROVE ClientInv'
    BY <1>1 DEF Request, breakerVars, wireVars, ClientTypeOK, Outcome
  <1>2. ASSUME NEW t \in Thread, Send(t) PROVE ClientInv'
    BY <1>0, <1>2 DEF Send, EnterProbe, EnterFreely, clientVars, wireVars, ClientTypeOK,
       TypeOK
  <1>3. ASSUME NEW t \in Thread, FailFast(t) PROVE ClientInv'
    BY <1>0, <1>3 DEF FailFast, EnterRefused, Finish, wireVars, ClientTypeOK, TypeOK,
       Outcome
  <1>4. ASSUME NEW t \in Thread, Answer(t) PROVE ClientInv'
    BY <1>0, <1>4 DEF Answer, OnSuccess, Finish, GoodAnswer, ClientTypeOK, TypeOK, Outcome
  <1>5. ASSUME NEW t \in Thread, NEW hint \in Nat \cup {NoHint}, NEW how \in Outcome,
               OnFailure(t), BadAnswer, Retry(t, hint, how) \/ Finish(t, how)
        PROVE  ClientInv'
    <2>1. now' = now
      BY <1>5 DEF OnFailure
    <2>2. ClientTypeOK'
      <3>1. badRun' \in Nat /\ lastBad' \in 0 .. now'
        BY <1>0, <1>5, <2>1 DEF BadAnswer, ClientTypeOK
      <3>2. CASE Retry(t, hint, how)
        BY <2>1, <3>1, <3>2, RetryKeepsType DEF ClientTypeOK
      <3>3. CASE Finish(t, how)
        BY <2>1, <3>1, <3>3 DEF Finish, ClientTypeOK
      <3> QED BY <1>5, <3>2, <3>3
    <2>3. InsideOnlyWhileTrying' /\ SleepLeavesAttempt'
      BY <1>5 DEF OnFailure, Retry, Finish, TypeOK, ClientTypeOK
    <2>4. BreakerSeesWire'
      BY <1>0, <1>5 DEF OnFailure, Trips, BadAnswer, StateAgreesWithCount, CircuitState, TypeOK
    <2> QED BY <2>2, <2>3, <2>4
  <1>6. ASSUME NEW t \in Thread, TransientHttp(t) PROVE ClientInv'
    <2>1. PICK header \in Header :
             Retry(t, ParseRetryAfter(header, now), "retries_exhausted")
      BY <1>6 DEF TransientHttp
    <2>2. ParseRetryAfter(header, now) \in Nat \cup {NoHint} /\ "retries_exhausted" \in Outcome
      BY <1>0, ParseIsDelay DEF Outcome
    <2>3. OnFailure(t) /\ BadAnswer
      BY <1>6 DEF TransientHttp
    <2> QED BY <1>5, <2>1, <2>2, <2>3
  <1>7. ASSUME NEW t \in Thread, TransportError(t) PROVE ClientInv'
    <2>1. "transport_error" \in Outcome /\ NoHint \in Nat \cup {NoHint}
      BY DEF Outcome
    <2> QED BY <1>5, <1>7, <2>1 DEF TransportError
  <1>8. ASSUME NEW t \in Thread, OtherError(t) PROVE ClientInv'
    <2>1. "other_error" \in Outcome /\ NoHint \in Nat \cup {NoHint}
      BY DEF Outcome
    <2> QED BY <1>5, <1>8, <2>1 DEF OtherError
  <1>9. ASSUME NEW t \in Thread, Wake(t) PROVE ClientInv'
    <2>1. attempt[t] + 1 \in 1 .. MaxAttempts
      BY <1>9 DEF Wake, ClientTypeOK
    <2> QED BY <1>9, <2>1 DEF Wake, breakerVars, wireVars, ClientTypeOK
  <1>10. CASE ClientTick
    BY <1>0, <1>10 DEF ClientTick, Tick, clientVars, wireVars, ClientTypeOK, TypeOK
  <1>11. CASE UNCHANGED vars
    BY <1>11 DEF vars, breakerVars, clientVars, wireVars, ClientTypeOK
  <1> QED BY <1>1, <1>2, <1>3, <1>4, <1>6, <1>7, <1>8, <1>9, <1>10, <1>11
          DEF ClientNext, Proceed, Respond

(* Both invariants hold in every reachable state of the client.                *)
THEOREM ClientInvariance == ClientSpec => [](ClientInv /\ IInv)
  BY ClientUsesBreaker, Invariance, ClientInitEstablishes, ClientStepPreserves, PTL
     DEF ClientSpec

(* The client's fields keep their types: never an attempt beyond MaxAttempts,  *)
(* never a sleep longer than MaxDelay.                                         *)
THEOREM ClientTypeCorrect == ClientSpec => []ClientTypeOK
  BY ClientInvariance, PTL DEF ClientInv

(* No sleeping or finished request has left the breaker entered.               *)
THEOREM InsideCorrect == ClientSpec => []InsideOnlyWhileTrying
  BY ClientInvariance, PTL DEF ClientInv

-----------------------------------------------------------------------------
(* Only Send takes a thread to the network, only FailFast ends a request with  *)
(* an open circuit.                                                            *)
LEMMA OnlySendEnters ==
  ASSUME ClientNext, TypeOK, NEW t \in Thread, call[t] # "inside", call'[t] = "inside"
  PROVE  EnterProbe(t) \/ EnterFreely(t)
  <1>1. ASSUME NEW u \in Thread, Proceed(u) PROVE EnterProbe(t) \/ EnterFreely(t)
    BY <1>1 DEF Proceed, Send, FailFast, Respond, Answer, TransientHttp, TransportError,
       OtherError, Wake, EnterProbe, EnterFreely, EnterRefused, OnSuccess, OnFailure,
       breakerVars, TypeOK
  <1> QED BY <1>1 DEF ClientNext, Request, ClientTick, Tick, breakerVars

LEMMA OnlyFailFastRefuses ==
  ASSUME ClientNext, ClientTypeOK, NEW t \in Thread,
         outcome[t] # "circuit_open", outcome'[t] = "circuit_open"
  PROVE  EnterRefused(t)
  <1>1. ASSUME NEW u \in Thread, Request(u) PROVE FALSE
    BY <1>1 DEF Request, ClientTypeOK
  <1>2. ASSUME NEW u \in Thread, Proceed(u) PROVE EnterRefused(t)
    BY <1>2 DEF Proceed, Send, FailFast, Respond, Answer, TransientHttp, TransportError,
       OtherError, Wake, Retry, Finish, clientVars, ClientTypeOK
  <1> QED BY <1>1, <1>2 DEF ClientNext, ClientTick, clientVars

(* After Threshold bad answers in a row, counted on the wire, nothing is sent  *)
(* until a recovery period has passed since the last of them.                  *)
THEOREM UpstreamSpared == ClientSpec => UpstreamIsSpared
  <1> DEFINE A == \A t \in Thread :
                     call[t] # "inside" /\ call'[t] = "inside"
                     => badRun < Threshold \/ now - lastBad >= RecoveryTimeout
  <1>1. ClientInv /\ IInv /\ [ClientNext]_vars => [A]_vars
    <2> SUFFICES ASSUME ClientInv, IInv, ClientNext, NEW t \in Thread,
                        call[t] # "inside", call'[t] = "inside", ~(badRun < Threshold)
                 PROVE  now - lastBad >= RecoveryTimeout
      OBVIOUS
    <2>1. EnterProbe(t) \/ EnterFreely(t)
      BY OnlySendEnters DEF IInv
    <2>2. failureCount >= Threshold /\ lastBad = openSince
      BY BreakerAssumption DEF ClientInv, BreakerSeesWire, IInv, TypeOK
    <2>3. Rested
      BY <2>1, <2>2, BreakerAssumption
         DEF EnterProbe, EnterFreely, IInv, TypeOK, CircuitState, StateAgreesWithCount,
             HalfOpenIsRested
    <2> QED BY <2>2, <2>3 DEF Rested
  <1> QED BY <1>1, ClientInvariance, PTL DEF ClientSpec, UpstreamIsSpared

(* And nothing is refused for any other reason.                                *)
THEOREM FailFastCorrect == ClientSpec => FailFastIsJustified
  <1> DEFINE A == \A t \in Thread :
                     outcome[t] # "circuit_open" /\ outcome'[t] = "circuit_open"
                     => badRun >= Threshold /\ now - lastBad < RecoveryTimeout
  <1>1. ClientInv /\ IInv /\ [ClientNext]_vars => [A]_vars
    <2> SUFFICES ASSUME ClientInv, IInv, ClientNext, NEW t \in Thread,
                        outcome[t] # "circuit_open", outcome'[t] = "circuit_open"
                 PROVE  badRun >= Threshold /\ now - lastBad < RecoveryTimeout
      OBVIOUS
    <2>1. EnterRefused(t)
      BY OnlyFailFastRefuses DEF ClientInv
    <2>2. failureCount >= Threshold
      BY <2>1, BreakerAssumption DEF EnterRefused, IInv, TypeOK, StateAgreesWithCount
    <2>3. badRun = failureCount /\ lastBad = openSince
      BY <2>2 DEF ClientInv, BreakerSeesWire
    <2> QED BY <2>1, <2>2, <2>3, BreakerAssumption
            DEF EnterRefused, Rested, IInv, TypeOK
  <1> QED BY <1>1, ClientInvariance, PTL DEF ClientSpec, FailFastIsJustified
=============================================================================
