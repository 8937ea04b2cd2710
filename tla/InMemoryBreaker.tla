-------------------------- MODULE InMemoryBreaker --------------------------
(* _InMemoryCircuitBreaker of src/utils/circuit_breaker_redis.py: one object   *)
(* shared by threads, its three fields behind a threading.Lock.  __enter__,     *)
(* __exit__ and reset each hold the lock for their whole body, so each is one   *)
(* step; between __enter__ and __exit__ a thread is on the network and the      *)
(* others go on.  A caller may therefore report a result long after the circuit *)
(* opened, half-opened or closed without it (a "straggler").                    *)
EXTENDS Integers, FiniteSets

CONSTANTS
    Thread,           \* the threads that share the breaker
    Threshold,        \* failure_threshold, ge=1 in config/settings.py
    RecoveryTimeout,  \* recovery_timeout, ge=5 s in config/settings.py
    MaxTime           \* bound on the clock, for model checking

ASSUME BreakerAssumption == /\ Threshold \in Nat \ {0}
                            /\ RecoveryTimeout \in Nat \ {0}
                            /\ MaxTime \in Nat

VARIABLES
    state,         \* _state
    failureCount,  \* _failure_count
    openSince,     \* _open_since, a time.monotonic() reading
    now,           \* time.monotonic()
    call           \* where each thread is: "inside" the with block, "refused"
                   \* with CircuitBreakerOpenError, or "idle"

breakerVars == <<state, failureCount, openSince, now, call>>

CircuitState == {"CLOSED", "OPEN", "HALF_OPEN"}

Init == /\ state = "CLOSED"
        /\ failureCount = 0
        /\ openSince = 0
        /\ now = 0
        /\ call = [t \in Thread |-> "idle"]

Rested == now - openSince >= RecoveryTimeout

(* __enter__ on an OPEN circuit whose recovery period is over: the caller is a *)
(* probe and the circuit becomes HALF_OPEN.                                    *)
EnterProbe(t) == /\ call[t] # "inside"
                 /\ state = "OPEN"
                 /\ Rested
                 /\ state' = "HALF_OPEN"
                 /\ call' = [call EXCEPT ![t] = "inside"]
                 /\ UNCHANGED <<failureCount, openSince, now>>

(* __enter__ on an OPEN circuit within the recovery period.                    *)
EnterRefused(t) == /\ call[t] # "inside"
                   /\ state = "OPEN"
                   /\ ~Rested
                   /\ call' = [call EXCEPT ![t] = "refused"]
                   /\ UNCHANGED <<state, failureCount, openSince, now>>

(* __enter__ on a circuit that is not OPEN: HALF_OPEN admits everyone too.     *)
EnterFreely(t) == /\ call[t] # "inside"
                  /\ state # "OPEN"
                  /\ call' = [call EXCEPT ![t] = "inside"]
                  /\ UNCHANGED <<state, failureCount, openSince, now>>

(* Mutant of OnSuccess: the counter is not reset.                              *)
OnSuccessKeepsCount(t) == /\ call[t] = "inside"
                          /\ state' = "CLOSED"
                          /\ call' = [call EXCEPT ![t] = "idle"]
                          /\ UNCHANGED <<failureCount, openSince, now>>

(* __exit__ without an exception.                                              *)
OnSuccess(t) == /\ call[t] = "inside"
                /\ state' = "CLOSED"
                /\ failureCount' = 0
                /\ call' = [call EXCEPT ![t] = "idle"]
                /\ UNCHANGED <<openSince, now>>

Trips == state = "HALF_OPEN" \/ failureCount + 1 >= Threshold

(* Mutants of OnFailure: with another stamp, and another state, when it trips. *)
OnFailureWith(t, stamp, next) ==
    /\ call[t] = "inside"
    /\ failureCount' = failureCount + 1
    /\ IF Trips THEN state' = next /\ openSince' = stamp
                ELSE UNCHANGED <<state, openSince>>
    /\ call' = [call EXCEPT ![t] = "idle"]
    /\ UNCHANGED now

OnFailureStampsDeadline(t) == OnFailureWith(t, now + RecoveryTimeout, "OPEN")
OnFailureStampsOnce(t) == OnFailureWith(t, IF state = "OPEN" THEN openSince ELSE now, "OPEN")
OnFailureStaysHalfOpen(t) ==
    OnFailureWith(t, now, IF state = "HALF_OPEN" THEN state ELSE "OPEN")

(* __exit__ with an exception, of whatever type.                               *)
OnFailure(t) == /\ call[t] = "inside"
                /\ failureCount' = failureCount + 1
                /\ IF Trips THEN state' = "OPEN" /\ openSince' = now
                            ELSE UNCHANGED <<state, openSince>>
                /\ call' = [call EXCEPT ![t] = "idle"]
                /\ UNCHANGED now

(* reset(), which may come while calls are under way; it leaves _open_since.   *)
Reset == /\ state' = "CLOSED"
         /\ failureCount' = 0
         /\ UNCHANGED <<openSince, now, call>>

Tick == /\ now < MaxTime
        /\ now' = now + 1
        /\ UNCHANGED <<state, failureCount, openSince, call>>

Enter(t) == EnterProbe(t) \/ EnterRefused(t) \/ EnterFreely(t)

Next == \/ \E t \in Thread : Enter(t) \/ OnSuccess(t) \/ OnFailure(t)
        \/ Reset
        \/ Tick

Spec == Init /\ [][Next]_breakerVars

-----------------------------------------------------------------------------
(* Every field keeps its type; the clock never runs behind a stored stamp.     *)
TypeOK == /\ state \in CircuitState
          /\ failureCount \in Nat
          /\ openSince \in 0 .. now
          /\ now \in 0 .. MaxTime
          /\ call \in [Thread -> {"idle", "inside", "refused"}]

(* The state and the counter are updated by different statements of three      *)
(* methods, yet never disagree: the circuit is CLOSED exactly while fewer than *)
(* Threshold failures stand since the last success.  (_on_failure opens on the *)
(* count or on HALF_OPEN; this says the HALF_OPEN test never opens early.)     *)
StateAgreesWithCount == (state = "CLOSED") <=> (failureCount < Threshold)

(* A HALF_OPEN circuit has had a full recovery period without a failure: a     *)
(* straggler that fails late always sends it back to OPEN with a new stamp.    *)
HalfOpenIsRested == state = "HALF_OPEN" => Rested

(* The breaker keeps the promise of BreakerContract: whatever the order of     *)
(* late results, a caller is refused exactly when Threshold failures in a row  *)
(* stand and the last of them is less than RecoveryTimeout old.                *)
Contract == INSTANCE BreakerContract
                WITH streak <- failureCount, restSince <- openSince

ImplementsContract == Contract!Spec
=============================================================================
