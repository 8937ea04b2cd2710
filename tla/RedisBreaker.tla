---------------------------- MODULE RedisBreaker ----------------------------
(* RedisCircuitBreaker of src/utils/circuit_breaker_redis.py, one object per   *)
(* pytest-xdist worker process, all of them sharing one Redis hash.  A worker   *)
(* runs one request at a time, so its local threading.Lock excludes nobody; the *)
(* unit of atomicity is one Redis round trip (an HGET or a Lua script) and the  *)
(* other workers run between two round trips of the same __enter__ or __exit__. *)
(* Redis itself may go down, come back with or without its data                 *)
(* (docker-compose.yml runs it with no persistence), or drop the key (24 h TTL, *)
(* allkeys-lru); a worker may be killed (pytest-timeout) and replaced.          *)
EXTENDS Integers, FiniteSets

CONSTANTS
    Worker,           \* the xdist worker processes
    Threshold,        \* failure_threshold
    RecoveryTimeout,  \* recovery_timeout
    OutageEnd,        \* bound: no upstream failure and no fault after this time
    MaxTime,          \* bound on the clock
    Absent            \* the value of a hash field that is not there

ASSUME RedisAssumption == /\ Threshold \in Nat \ {0}
                          /\ RecoveryTimeout \in Nat \ {0}
                          /\ OutageEnd \in Nat
                          /\ MaxTime \in Nat
                          /\ RecoveryTimeout <= OutageEnd
                          /\ OutageEnd + RecoveryTimeout <= MaxTime
                          /\ Absent \notin Int \cup {"CLOSED", "OPEN", "HALF_OPEN"}

VARIABLES
    state,         \* field "state" of the hash, or Absent
    failureCount,  \* field "failure_count"; an absent counter counts as 0
    openSince,     \* field "open_since", or Absent
    redisUp,       \* whether Redis answers
    now,           \* time.time(); all workers run on one host
    fallback,      \* workers whose constructor could not reach Redis
    pc,            \* where each worker is
    since          \* when the worker did the read that its next script follows

redisVars  == <<state, failureCount, openSince>>
workerVars == <<fallback, pc, since>>
vars == <<redisVars, redisUp, now, workerVars>>

(* A worker ready to make a call, one with its call on the network, and one    *)
(* whose next step is a later round trip of the same __enter__ or __exit__.    *)
Ready   == {"idle", "refused", "redis_error"}
Calling == {"inside", "probing"}
Pending == {"opening", "refusing", "failing", "recorded", "resetting"}

Closed == state \in {Absent, "CLOSED"}

OpenStamp == IF openSince = Absent THEN 0 ELSE openSince

Rested == now - OpenStamp >= RecoveryTimeout

(* Three scripts of several workers, lost answers, evictions and restarts      *)
(* between them, and runs one after the other: still a closed circuit has      *)
(* fewer than Threshold failures, an open one at least Threshold (it trips at  *)
(* exactly N failures of the whole pool), open_since is there exactly while    *)
(* Threshold failures stand, and no probe runs before the rest is over.        *)
FieldsAgree == /\ Closed => failureCount < Threshold
               /\ state = "OPEN" => failureCount >= Threshold
               /\ (openSince # Absent) <=> (failureCount >= Threshold)
               /\ state = "HALF_OPEN" => Rested

(* The hash is there from an earlier run (it lives for 24 h): any that the     *)
(* scripts can leave.  time.time() is a large number: an absent open_since,    *)
(* read as 0, is always at least a recovery period ago.                        *)
Init == /\ now = RecoveryTimeout
        /\ state \in {Absent, "CLOSED", "OPEN", "HALF_OPEN"}
        /\ failureCount \in 0 .. Threshold
        /\ openSince \in {Absent} \cup 0 .. now
        /\ FieldsAgree
        /\ redisUp = TRUE
        /\ fallback = {}
        /\ pc = [w \in Worker |-> "new"]
        /\ since = [w \in Worker |-> 0]

Goto(w, place) == pc' = [pc EXCEPT ![w] = place]

Uses(w) == w \notin fallback    \* _redis_available

-----------------------------------------------------------------------------
(* __init__: a PING decides, once and for all, whether this worker takes part. *)
Construct(w) == /\ pc[w] = "new"
                /\ Goto(w, "idle")
                /\ fallback' = IF redisUp THEN fallback \ {w} ELSE fallback \cup {w}
                /\ UNCHANGED <<redisVars, redisUp, now, since>>

(* __enter__, the HGET of the state; OPEN needs a second round trip.           *)
EnterRead(w) == /\ pc[w] \in Ready /\ Uses(w) /\ redisUp
                /\ IF state = "OPEN"
                   THEN Goto(w, "opening") /\ since' = [since EXCEPT ![w] = now]
                   ELSE Goto(w, "inside") /\ UNCHANGED since
                /\ UNCHANGED <<redisVars, redisUp, now, fallback>>

EnterFallback(w) == /\ pc[w] \in Ready /\ ~Uses(w)
                    /\ Goto(w, "inside")
                    /\ UNCHANGED <<redisVars, redisUp, now, fallback, since>>

(* The script try_half_open, called with a time.time() read at or after since. *)
(* It does not look at the state again.                                        *)
(* Mutants of HalfOpens: any time after the stamp will do; an absent stamp     *)
(* never lets a probe through.                                                 *)
HalfOpensAtOnce(stamp) == stamp > OpenStamp
HalfOpensIfStamped(stamp) == openSince # Absent /\ stamp - OpenStamp >= RecoveryTimeout

HalfOpens(stamp) == stamp - OpenStamp >= RecoveryTimeout

ScriptTryHalfOpen(stamp) == /\ state' = IF HalfOpens(stamp) THEN "HALF_OPEN" ELSE state
                            /\ UNCHANGED <<failureCount, openSince>>

(* __enter__, the second round trip: a probe, or a refusal, for whose message  *)
(* a third one reads open_since before CircuitBreakerOpenError is raised.      *)
EnterTryHalfOpen(w) == /\ pc[w] = "opening" /\ redisUp
                       /\ \E stamp \in since[w] .. now :
                             /\ ScriptTryHalfOpen(stamp)
                             /\ Goto(w, IF HalfOpens(stamp) THEN "probing" ELSE "refusing")
                       /\ UNCHANGED <<redisUp, now, fallback, since>>

EnterRefuse(w) == /\ pc[w] = "refusing" /\ redisUp
                  /\ Goto(w, "refused")
                  /\ UNCHANGED <<redisVars, redisUp, now, fallback, since>>

(* Mutants of ExitSuccess: any circuit is reset; only an OPEN one is.          *)
ExitSuccessAlways(w) == /\ pc[w] \in Calling /\ Uses(w) /\ redisUp
                        /\ Goto(w, "resetting")
                        /\ UNCHANGED <<redisVars, redisUp, now, fallback, since>>

ExitSuccessIfOpen(w) == /\ pc[w] \in Calling /\ Uses(w) /\ redisUp
                        /\ Goto(w, IF state = "OPEN" THEN "resetting" ELSE "idle")
                        /\ UNCHANGED <<redisVars, redisUp, now, fallback, since>>

(* The network call succeeds; __exit__ reads the state and resets the circuit  *)
(* if it is not closed.                                                        *)
ExitSuccess(w) == /\ pc[w] \in Calling /\ Uses(w) /\ redisUp
                  /\ Goto(w, IF Closed THEN "idle" ELSE "resetting")
                  /\ UNCHANGED <<redisVars, redisUp, now, fallback, since>>

(* Mutant of ScriptReset: without the HDEL.                                    *)
ScriptResetKeepsStamp == state' = "CLOSED" /\ failureCount' = 0 /\ UNCHANGED openSince

ScriptReset == state' = "CLOSED" /\ failureCount' = 0 /\ openSince' = Absent

ExitReset(w) == /\ pc[w] = "resetting" /\ redisUp
                /\ ScriptReset
                /\ Goto(w, "idle")
                /\ UNCHANGED <<redisUp, now, fallback, since>>

(* The network call fails; __exit__ takes the time and sends record_failure.   *)
ExitFailure(w) == /\ pc[w] \in Calling /\ Uses(w) /\ now <= OutageEnd
                  /\ Goto(w, "failing")
                  /\ since' = [since EXCEPT ![w] = now]
                  /\ UNCHANGED <<redisVars, redisUp, now, fallback>>

(* Mutant of ScriptRecordFailure: open_since holds the end of the period.      *)
ScriptRecordFailureStampsEnd(stamp) ==
    /\ failureCount' = failureCount + 1
    /\ IF failureCount' >= Threshold
       THEN state' = "OPEN" /\ openSince' = stamp + RecoveryTimeout
       ELSE UNCHANGED <<state, openSince>>

ScriptRecordFailure(stamp) ==
    /\ failureCount' = failureCount + 1
    /\ IF failureCount' >= Threshold
       THEN state' = "OPEN" /\ openSince' = stamp
       ELSE UNCHANGED <<state, openSince>>

ExitRecordFailure(w) == /\ pc[w] = "failing" /\ redisUp
                        /\ ScriptRecordFailure(since[w])
                        /\ Goto(w, "recorded")
                        /\ UNCHANGED <<redisUp, now, fallback, since>>

(* __exit__ reads the state once more, for the log only.                       *)
ExitReadState(w) == /\ pc[w] = "recorded" /\ redisUp
                    /\ Goto(w, "idle")
                    /\ UNCHANGED <<redisVars, redisUp, now, fallback, since>>

(* Without Redis, __exit__ records nothing, whatever the outcome.              *)
ExitFallback(w) == /\ pc[w] \in Calling /\ ~Uses(w)
                   /\ Goto(w, "idle")
                   /\ UNCHANGED <<redisVars, redisUp, now, fallback, since>>

(* reset(), from a worker that is not in the middle of a call.                 *)
Reset(w) == /\ pc[w] \in Ready /\ Uses(w) /\ redisUp
            /\ ScriptReset
            /\ UNCHANGED <<redisUp, now, workerVars>>

-----------------------------------------------------------------------------
(* A round trip while Redis is down raises redis.exceptions.ConnectionError,   *)
(* which neither __enter__ nor __exit__ catches: the caller gets it in place   *)
(* of the response.                                                            *)
RedisError(w) == /\ pc[w] \in Ready \cup Calling \cup Pending /\ Uses(w) /\ ~redisUp
                 /\ Goto(w, "redis_error")
                 /\ UNCHANGED <<redisVars, redisUp, now, fallback, since>>

(* The round trip ran but its answer was lost (socket_timeout=2): same error.  *)
ReplyLost(w) == /\ pc[w] \in Pending /\ redisUp /\ now <= OutageEnd
                /\ CASE pc[w] = "opening"   -> \E stamp \in since[w] .. now : ScriptTryHalfOpen(stamp)
                     [] pc[w] = "failing"   -> ScriptRecordFailure(since[w])
                     [] pc[w] = "resetting" -> ScriptReset
                     [] pc[w] \in {"refusing", "recorded"} -> UNCHANGED redisVars
                /\ Goto(w, "redis_error")
                /\ UNCHANGED <<redisUp, now, fallback, since>>

(* pytest-timeout kills the process at any point; xdist starts another.        *)
Crash(w) == /\ pc[w] # "new" /\ now <= OutageEnd
            /\ Goto(w, "new")
            /\ fallback' = fallback \ {w}
            /\ since' = [since EXCEPT ![w] = 0]
            /\ UNCHANGED <<redisVars, redisUp, now>>

LoseHash == state' = Absent /\ failureCount' = 0 /\ openSince' = Absent

RedisDown == /\ redisUp /\ now <= OutageEnd
             /\ redisUp' = FALSE
             /\ UNCHANGED <<redisVars, now, workerVars>>

RedisBack == /\ ~redisUp
             /\ redisUp' = TRUE
             /\ LoseHash \/ UNCHANGED redisVars
             /\ UNCHANGED <<now, workerVars>>

(* The key expires or is evicted.                                              *)
Vanish == /\ state # Absent \/ failureCount > 0
          /\ now <= OutageEnd
          /\ LoseHash
          /\ UNCHANGED <<redisUp, now, workerVars>>

Tick == /\ now < MaxTime
        /\ now' = now + 1
        /\ UNCHANGED <<redisVars, redisUp, workerVars>>

-----------------------------------------------------------------------------
Enter(w) == EnterRead(w) \/ EnterFallback(w) \/ EnterTryHalfOpen(w) \/ EnterRefuse(w)

Exit(w) == \/ ExitSuccess(w) \/ ExitReset(w)
           \/ ExitRecordFailure(w) \/ ExitReadState(w)
           \/ ExitFallback(w)

Step(w) == Construct(w) \/ Enter(w) \/ Exit(w) \/ RedisError(w)

Fault(w) == ExitFailure(w) \/ ReplyLost(w) \/ Crash(w) \/ Reset(w)

Next == \/ \E w \in Worker : Step(w) \/ Fault(w)
        \/ RedisDown \/ RedisBack \/ Vanish \/ Tick

Spec == Init /\ [][Next]_vars

(* The suite keeps making calls, a call on the network ends (the HTTP client   *)
(* has timeouts) and time passes.  Nothing promises that Redis comes back      *)
(* (restart: "no" in docker-compose.yml), so RedisBack is not fair.            *)
Fairness == /\ \A w \in Worker : WF_vars(Step(w))
            /\ WF_vars(Tick)

FairSpec == Spec /\ Fairness

-----------------------------------------------------------------------------
(* Every field of the hash and of the workers keeps its type.                  *)
TypeOK == /\ state \in {Absent, "CLOSED", "OPEN", "HALF_OPEN"}
          /\ failureCount \in Nat
          /\ openSince \in {Absent} \cup 0 .. now
          /\ redisUp \in BOOLEAN
          /\ now \in RecoveryTimeout .. MaxTime
          /\ fallback \subseteq Worker
          /\ pc \in [Worker -> Ready \cup Calling \cup Pending \cup {"new"}]
          /\ since \in [Worker -> 0 .. now]

(* While the circuit is OPEN and its recovery period runs, no worker that      *)
(* reached Redis when it started gets through __enter__: neither by the HGET   *)
(* it did earlier nor by the time it read earlier.                             *)
OpenBlocks ==
    [][\A w \in Worker :
          /\ Uses(w)
          /\ pc[w] \notin Calling
          /\ pc'[w] \in Calling
          => state # "OPEN" \/ Rested]_vars

(* No worker is refused on stale news: when the script that follows its HGET   *)
(* refuses it, Redis holds Threshold failures that no success has cleared.     *)
RefusalIsJustified ==
    [][\A w \in Worker :
          pc[w] # "refusing" /\ pc'[w] = "refusing" => failureCount >= Threshold]_vars

(* The pool sees one breaker, through every interleaving and fault: it admits  *)
(* nobody while Threshold failures stand and the last recorded one is younger  *)
(* than the recovery period, refuses nobody whom they did not block when it    *)
(* asked, counts each reported failure once, and forgets them only on a        *)
(* success of a tripped or recovering circuit, a reset, or the hash's loss.    *)
ToldAt(place) == CASE place \in Calling                -> "inside"
                   [] place = "opening"                -> "waiting"
                   [] place \in {"refusing", "refused"} -> "refused"
                   [] place = "failing"                -> "failed"
                   [] place = "resetting"              -> "succeeded"
                   [] OTHER                            -> "out"

Told == [w \in Worker |-> ToldAt(pc[w])]

Pool == INSTANCE PoolContract
            WITH streak <- failureCount, restSince <- OpenStamp,
                 recovering <- (state = "HALF_OPEN"), up <- redisUp,
                 unplugged <- fallback, call <- Told, asked <- since

ImplementsPool == Pool!Spec

(* After the outage (no upstream failure, no fault) the circuit closes and     *)
(* stays closed, unless Redis is gone or no worker is using it any more.       *)
Recovers == <>[](Closed \/ ~redisUp \/ fallback = Worker)

(* The module docstring: "There is no TOCTOU window [...] that would allow two *)
(* workers to both believe they are the 'recovery probe' in HALF_OPEN state".  *)
SingleProbe == Cardinality({w \in Worker : pc[w] = "probing"}) <= 1

(* The module docstring: "If Redis is unreachable, the circuit breaker         *)
(* silently falls back to ALLOW_ALL mode [...] The test suite continues".      *)
RedisLossTolerated == \A w \in Worker : pc[w] # "redis_error"
=============================================================================
