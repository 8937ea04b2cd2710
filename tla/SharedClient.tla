---------------------------- MODULE SharedClient ----------------------------
(* ApiClient.request of src/client/base_client.py over the Redis breaker: the  *)
(* pool of xdist workers, each with one request at a time, and between its     *)
(* attempts, its sleeps and the breaker's round trips the steps of the others. *)
(* A round trip of the breaker is RedisBreaker's own action; what is new is    *)
(* where an exception of the breaker leaves the retry loop, what the wire saw  *)
(* and how long it all takes.                                                  *)
(* Time: an attempt, its round trips to Redis included, ends within            *)
(* AttemptTime (the connect, read and socket timeouts, for an upstream that    *)
(* neither trickles its answer nor redirects), and a sleep ends when it is due. *)
EXTENDS RedisBreaker, RetryPolicy

CONSTANTS
    MaxAttempts,   \* retry_max_attempts
    AttemptTime,   \* the longest an attempt takes
    Hints          \* what _parse_retry_after may make of an answer

ASSUME SharedAssumption == /\ IsFiniteSet(Worker)
                           /\ MaxAttempts \in Nat \ {0}
                           /\ AttemptTime \in Nat
                           /\ Hints \subseteq Nat \cup {NoHint}

VARIABLES
    request,  \* "none", "trying" an attempt or "sleeping" before the next one
    attempt,  \* tenacity's attempt_number
    due,      \* when the attempt under way, or the sleep, is over at the latest
    began,    \* history: when request() was called
    bad       \* history: bad answers on the wire that the hash should know of

clientVars == <<request, attempt, due, began>>
sharedVars == <<vars, clientVars, bad>>

SharedInit == /\ Init
              /\ request = [w \in Worker |-> "none"]
              /\ attempt = [w \in Worker |-> 1]
              /\ due = [w \in Worker |-> 0]
              /\ began = [w \in Worker |-> 0]
              /\ bad = failureCount

-----------------------------------------------------------------------------
(* The bad answers a worker has seen and not reported yet.                     *)
Unreported == {w \in Worker : pc[w] = "failing"}

(* The wire's account: a bad answer more; the reset of the circuit, or the     *)
(* loss of its hash, which only the unreported ones outlive; a worker that     *)
(* goes without reporting.                                                     *)
SeeBad    == bad' = bad + 1
Forget    == bad' = Cardinality(Unreported')
Forgive(w) == bad' = IF pc[w] = "failing" THEN bad - 1 ELSE bad

Finish(w) == /\ request' = [request EXCEPT ![w] = "none"]
             /\ attempt' = [attempt EXCEPT ![w] = 1]
             /\ due' = [due EXCEPT ![w] = 0]
             /\ began' = [began EXCEPT ![w] = 0]

Try(w, n) == /\ request' = [request EXCEPT ![w] = "trying"]
             /\ attempt' = [attempt EXCEPT ![w] = n]
             /\ due' = [due EXCEPT ![w] = now + AttemptTime]

(* A call of request(), by the next test or fixture of the worker.             *)
Request(w) == /\ request[w] = "none" /\ pc[w] \in Ready
              /\ Try(w, 1)
              /\ began' = [began EXCEPT ![w] = now]
              /\ UNCHANGED <<vars, bad>>

(* The way through __enter__, as far as the network.                           *)
Send(w) == /\ request[w] = "trying"
           /\ EnterRead(w) \/ EnterFallback(w) \/ EnterTryHalfOpen(w)
           /\ UNCHANGED <<clientVars, bad>>

(* CircuitBreakerOpenError ends the loop, at any attempt.                      *)
FailFast(w) == EnterRefuse(w) /\ Finish(w) /\ UNCHANGED bad

(* An answer that is not transient, and the round trips of the success.        *)
Answer(w) == \/ /\ ExitSuccess(w)
                /\ IF pc'[w] = "idle" THEN Finish(w) ELSE UNCHANGED clientVars
                /\ UNCHANGED bad
             \/ ExitReset(w) /\ Finish(w) /\ Forget

(* Mutant of BadAnswer: a transient status is raised after the with block.     *)
BadAnswerOutside(w) == /\ now <= OutageEnd
                       /\ ExitSuccess(w)
                       /\ UNCHANGED clientVars
                       /\ SeeBad

(* A transient status, a transport error or any other exception, raised inside *)
(* the with block.                                                             *)
BadAnswer(w) == ExitFailure(w) /\ UNCHANGED clientVars /\ SeeBad

(* Its record_failure.                                                         *)
Report(w) == ExitRecordFailure(w) /\ UNCHANGED <<clientVars, bad>>

(* Mutant of Retry: one attempt too many.                                      *)
RetryOnceMore(w) ==
    /\ attempt[w] <= MaxAttempts
    /\ request' = [request EXCEPT ![w] = "sleeping"]
    /\ \E hint \in Hints : due' = [due EXCEPT ![w] = now + Wait(hint, attempt[w])]
    /\ UNCHANGED <<attempt, began>>

(* The exception comes out of the with block: a transient one, while attempts  *)
(* are left, puts the request to sleep.                                        *)
Retry(w) ==
    /\ attempt[w] < MaxAttempts
    /\ request' = [request EXCEPT ![w] = "sleeping"]
    /\ \E hint \in Hints : due' = [due EXCEPT ![w] = now + Wait(hint, attempt[w])]
    /\ UNCHANGED <<attempt, began>>

(* Only here does it matter what was raised: another exception, or the last    *)
(* attempt, ends the request.  Without Redis, __exit__ does nothing and bad    *)
(* answers are nobody's to count.                                              *)
Leave(w) == /\ \/ ExitReadState(w) /\ (Retry(w) \/ Finish(w))
               \/ ExitFallback(w) /\ (Finish(w) \/ (now <= OutageEnd /\ Retry(w)))
            /\ UNCHANGED bad

(* The next attempt.  (A sleep past the bound of the clock ends there.)        *)
Wake(w) == /\ request[w] = "sleeping"
           /\ now >= due[w] \/ now = MaxTime
           /\ Try(w, attempt[w] + 1)
           /\ UNCHANGED <<vars, began, bad>>

(* Mutant of Break: an error of Redis counts as transient, and without end.    *)
BreakRetries(w) == /\ request[w] = "trying"
                   /\ RedisError(w)
                   /\ Try(w, attempt[w])
                   /\ UNCHANGED began
                   /\ Forgive(w)

(* An error of Redis, in place of the answer or of the exception under way, is *)
(* not transient: it ends the request.                                         *)
Break(w) == request[w] = "trying" /\ RedisError(w) /\ Finish(w) /\ Forgive(w)

BreakLate(w) == /\ ReplyLost(w) /\ Finish(w)
                /\ IF pc[w] = "resetting" THEN Forget ELSE UNCHANGED bad

Die(w) == Crash(w) /\ Finish(w) /\ Forgive(w)

(* Nobody overruns the end of an attempt or of a sleep.                        *)
SharedTick == /\ \A w \in Worker : request[w] # "none" => now < due[w]
              /\ Tick
              /\ UNCHANGED <<clientVars, bad>>

World == /\ RedisDown \/ RedisBack \/ Vanish
         /\ UNCHANGED clientVars
         /\ IF UNCHANGED redisVars THEN UNCHANGED bad ELSE Forget

-----------------------------------------------------------------------------
Starts(w) == Construct(w) /\ UNCHANGED <<clientVars, bad>>

Proceed(w) == \/ Starts(w) \/ Request(w) \/ Send(w) \/ FailFast(w) \/ Answer(w)
              \/ Report(w) \/ Leave(w) \/ Wake(w) \/ Break(w)

SharedNext == \/ \E w \in Worker : Proceed(w) \/ BadAnswer(w) \/ BreakLate(w) \/ Die(w)
              \/ World \/ SharedTick

SharedSpec == SharedInit /\ [][SharedNext]_sharedVars

(* The suite goes on to its next request, a call under way ends, time passes.  *)
(* Redis need not come back.                                                   *)
FairSharedSpec == /\ SharedSpec
                  /\ \A w \in Worker : WF_sharedVars(Proceed(w))
                  /\ WF_sharedVars(SharedTick)

-----------------------------------------------------------------------------
(* The client's fields keep their types; no request makes more than            *)
(* MaxAttempts attempts, and none is given up in the middle of a with block.   *)
SharedTypeOK == /\ request \in [Worker -> {"none", "trying", "sleeping"}]
                /\ attempt \in [Worker -> 1 .. MaxAttempts]
                /\ due \in [Worker -> Nat]
                /\ began \in [Worker -> 0 .. now]
                /\ bad \in Nat
                /\ \A w \in Worker : pc[w] \in Calling \cup Pending => request[w] = "trying"

(* "The circuit trips correctly at exactly N cumulative failures across the    *)
(* entire worker pool" (module docstring), judged by the wire: every bad       *)
(* answer since the last reset is counted once, or on its way to be, in every  *)
(* order of the workers' retries, lost answers, kills and outages of Redis.    *)
PoolCountsFailures == bad = failureCount + Cardinality(Unreported)

(* The longest a request takes: its attempts and the sleeps between them.      *)
Budget == MaxAttempts * AttemptTime + (MaxAttempts - 1) * MaxDelay

(* No request is out, or asleep, past its budget, whatever delays the server   *)
(* asks for and however Redis fails.                                           *)
RequestWithinBudget == \A w \in Worker : request[w] # "none" => due[w] <= began[w] + Budget

(* Every request ends, also if Redis goes down for good in the middle of it.   *)
SharedRequestEnds == \A w \in Worker : request[w] # "none" ~> request[w] = "none"
=============================================================================
