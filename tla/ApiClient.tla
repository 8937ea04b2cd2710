----------------------------- MODULE ApiClient -----------------------------
(* ApiClient.request of src/client/base_client.py over the in-memory breaker:  *)
(* the tenacity retry loop, one attempt per turn, each inside "with self._cb". *)
(* Several requests may share one breaker.  A step of the network or of the    *)
(* sleep is a step here; what the code does between two of them is atomic.     *)
(* This module extends the breaker: a client step that enters or leaves the    *)
(* with block IS the breaker's step, so all the breaker states must hold here. *)
EXTENDS InMemoryBreaker, RetryPolicy

CONSTANTS
    MaxAttempts,   \* retry_max_attempts
    HeaderValues,  \* numbers a Retry-After header may carry
    OutageEnd      \* the upstream answers well, and fast, after this time

ASSUME ClientAssumption == /\ MaxAttempts \in Nat \ {0}
                           /\ HeaderValues \subseteq Int
                           /\ OutageEnd \in Nat

VARIABLES
    request,  \* "none", "trying" an attempt or "sleeping" before the next one
    attempt,  \* tenacity's attempt_number
    wakeAt,   \* when the sleep is over
    outcome,  \* how the last call of request() ended
    badRun,   \* history: bad answers of the upstream in a row, as seen on the wire
    lastBad   \* history: when the last of them came

clientVars == <<request, attempt, wakeAt, outcome>>
wireVars   == <<badRun, lastBad>>
vars       == <<breakerVars, clientVars, wireVars>>

Header == [form : HeaderForm, value : HeaderValues]

Outcome == {"none", "response", "slo_breach", "circuit_open",
            "retries_exhausted", "transport_error", "other_error"}

ClientInit == /\ Init
              /\ request = [t \in Thread |-> "none"]
              /\ attempt = [t \in Thread |-> 1]
              /\ wakeAt = [t \in Thread |-> 0]
              /\ outcome = [t \in Thread |-> "none"]
              /\ badRun = 0
              /\ lastBad = 0

-----------------------------------------------------------------------------
Finish(t, how) == /\ request' = [request EXCEPT ![t] = "none"]
                  /\ outcome' = [outcome EXCEPT ![t] = how]
                  /\ UNCHANGED <<attempt, wakeAt>>

GoodAnswer == badRun' = 0 /\ UNCHANGED lastBad
BadAnswer  == badRun' = badRun + 1 /\ lastBad' = now

(* A call of request(), which starts at attempt 1.                             *)
Request(t) == /\ request[t] = "none"
              /\ request' = [request EXCEPT ![t] = "trying"]
              /\ attempt' = [attempt EXCEPT ![t] = 1]
              /\ outcome' = [outcome EXCEPT ![t] = "none"]
              /\ UNCHANGED <<breakerVars, wakeAt, wireVars>>

(* _execute_single_request gets through the breaker and goes on the network.   *)
Send(t) == /\ request[t] = "trying"
           /\ EnterProbe(t) \/ EnterFreely(t)
           /\ UNCHANGED <<clientVars, wireVars>>

(* Mutant of FailFast: CircuitBreakerOpenError is swallowed and tried again.   *)
FailFastRetries(t) == /\ request[t] = "trying"
                      /\ EnterRefused(t)
                      /\ UNCHANGED <<clientVars, wireVars>>

(* CircuitBreakerOpenError is not transient: it ends the loop, at any attempt. *)
FailFast(t) == /\ request[t] = "trying"
               /\ EnterRefused(t)
               /\ Finish(t, "circuit_open")
               /\ UNCHANGED wireVars

(* Mutant of Answer: raise_for_status() inside the with block, so that a 404   *)
(* counts against the upstream.                                                *)
AnswerCountsAsFailure(t) == OnFailure(t) /\ Finish(t, "response") /\ GoodAnswer

(* A status that is not transient, 4xx and 500 included, is a success for the  *)
(* breaker; too slow a response is an AssertionError, raised after the loop.   *)
Answer(t) == /\ OnSuccess(t)
             /\ \/ Finish(t, "response")
                \/ now <= OutageEnd /\ Finish(t, "slo_breach")
             /\ GoodAnswer

(* A transient failure: sleep and try again, or end with how on the last one.  *)
Retry(t, hint, how) ==
    IF attempt[t] < MaxAttempts
    THEN /\ request' = [request EXCEPT ![t] = "sleeping"]
         /\ wakeAt' = [wakeAt EXCEPT ![t] = now + Wait(hint, attempt[t])]
         /\ UNCHANGED <<attempt, outcome>>
    ELSE Finish(t, how)

(* Mutant of TransientHttp: raised after the with block.                       *)
TransientHttpOutside(t) == /\ now <= OutageEnd
                           /\ OnSuccess(t)
                           /\ Retry(t, NoHint, "retries_exhausted")
                           /\ BadAnswer

(* 502, 503, 504, or 429, which alone is read for a Retry-After header; raised *)
(* inside the with block.  Exhaustion turns it into RetriesExhaustedError.     *)
TransientHttp(t) == /\ now <= OutageEnd
                    /\ OnFailure(t)
                    /\ \E header \in Header :
                          Retry(t, ParseRetryAfter(header, now), "retries_exhausted")
                    /\ BadAnswer

(* A connection error or a timeout.  Exhaustion re-raises it as it is          *)
(* (reraise=True): only the internal sentinel is converted.                    *)
TransportError(t) == /\ now <= OutageEnd
                     /\ OnFailure(t)
                     /\ Retry(t, NoHint, "transport_error")
                     /\ BadAnswer

(* Mutant of OtherError: it leaves without __exit__.                           *)
OtherErrorSkipsExit(t) == /\ now <= OutageEnd
                          /\ call[t] = "inside" /\ request[t] = "trying"
                          /\ Finish(t, "other_error")
                          /\ BadAnswer
                          /\ UNCHANGED breakerVars

(* Any other exception of requests: counted by the breaker, never retried.     *)
OtherError(t) == /\ now <= OutageEnd
                 /\ OnFailure(t)
                 /\ Finish(t, "other_error")
                 /\ BadAnswer

(* The sleep is over, or a little later: the next attempt.  (A sleep that runs *)
(* past the bound of the clock ends there.)                                    *)
Wake(t) == /\ request[t] = "sleeping"
           /\ now >= wakeAt[t] \/ now = MaxTime
           /\ request' = [request EXCEPT ![t] = "trying"]
           /\ attempt' = [attempt EXCEPT ![t] = attempt[t] + 1]
           /\ UNCHANGED <<breakerVars, wakeAt, outcome, wireVars>>

ClientTick == Tick /\ UNCHANGED <<clientVars, wireVars>>

-----------------------------------------------------------------------------
Respond(t) == Answer(t) \/ TransientHttp(t) \/ TransportError(t) \/ OtherError(t)

Proceed(t) == Send(t) \/ FailFast(t) \/ Respond(t) \/ Wake(t)

ClientNext == ClientTick \/ \E t \in Thread : Request(t) \/ Proceed(t)

ClientSpec == ClientInit /\ [][ClientNext]_vars

(* A request under way proceeds (the timeouts of requests end a silent call),  *)
(* and time passes.  The suite need not make another call.                     *)
FairClientSpec == /\ ClientSpec
                  /\ \A t \in Thread : WF_vars(Proceed(t))
                  /\ WF_vars(ClientTick)

-----------------------------------------------------------------------------
(* The client's own fields; at most MaxAttempts attempts are ever made, and a  *)
(* sleep never outlasts MaxDelay.                                              *)
ClientTypeOK == /\ request \in [Thread -> {"none", "trying", "sleeping"}]
                /\ attempt \in [Thread -> 1 .. MaxAttempts]
                /\ wakeAt \in [Thread -> 0 .. now + MaxDelay]
                /\ outcome \in [Thread -> Outcome]
                /\ badRun \in Nat
                /\ lastBad \in 0 .. now

(* A thread is in the with block only in the middle of an attempt: no path out *)
(* of request(), and no sleep, leaves the breaker entered.                     *)
InsideOnlyWhileTrying == \A t \in Thread : call[t] = "inside" => request[t] = "trying"

(* The whole stack spares a degraded upstream, judged by what happens on the   *)
(* wire and not by the breaker's fields: once Threshold bad answers came in a  *)
(* row, of any kind and from any request, no attempt is sent until             *)
(* RecoveryTimeout after the last of them, retries and their Retry-After       *)
(* delays included.                                                            *)
UpstreamIsSpared ==
    [][\A t \in Thread :
          call[t] # "inside" /\ call'[t] = "inside"
          => badRun < Threshold \/ now - lastBad >= RecoveryTimeout]_vars

(* And it fails fast for no other reason: a request is refused only while      *)
(* such a run of bad answers stands.                                           *)
FailFastIsJustified ==
    [][\A t \in Thread :
          outcome[t] # "circuit_open" /\ outcome'[t] = "circuit_open"
          => badRun >= Threshold /\ now - lastBad < RecoveryTimeout]_vars

(* Every call of request() ends, even if the upstream never recovers: retries, *)
(* sleeps and the open circuit never trap a test.                              *)
RequestEnds == \A t \in Thread : request[t] # "none" ~> request[t] = "none"

(* RetriesExhaustedError's docstring and README.md: exhaustion always reaches  *)
(* the caller as that error, with the correlation ID.                          *)
ExhaustionIsPublic == \A t \in Thread : outcome[t] # "transport_error"
=============================================================================
