------------------------- MODULE SharedClient_proof -------------------------
(* Proofs, for any finite pool of workers, about SharedClient.tla.  The        *)
(* clients drive the shared breaker only by its own steps, so its theorems     *)
(* hold of the pool; the hash counts what the wire saw; no request overruns    *)
(* its budget.                                                                 *)
EXTENDS SharedClient, RedisBreaker_proof, FiniteSetTheorems

(* The sleep between two attempts is bounded, whatever the server asks for.    *)
LEMMA SleepIsBounded ==
  ASSUME NEW hint \in Nat \cup {NoHint}, NEW n \in Nat \ {0}
  PROVE  Wait(hint, n) \in 0 .. MaxDelay
  <1>1. 2^(n - 1) \in Int
    OBVIOUS
  <1> DEFINE raw == BaseDelay * 2^(n - 1)
  <1>2. raw \in Int
    BY <1>1, DelayAssumption
  <1> HIDE DEF raw
  <1>3. AtLeast(AtMost(raw, MaxDelay), 0) \in 0 .. MaxDelay
    BY <1>2, DelayAssumption DEF AtLeast, AtMost
  <1>4. Backoff(n) \in 0 .. MaxDelay
    BY <1>3 DEF Backoff, raw
  <1> QED BY <1>4, DelayAssumption DEF Wait, AtMost

-----------------------------------------------------------------------------
(* Every step of a client is a step of the breaker, or leaves it unchanged.    *)
LEMMA SharedStepIsBreakerStep == [SharedNext]_sharedVars => [Next]_vars
  <1> SUFFICES ASSUME [SharedNext]_sharedVars PROVE [Next]_vars
    OBVIOUS
  <1>1. ASSUME NEW w \in Worker, Proceed(w) PROVE [Next]_vars
    BY <1>1 DEF Proceed, Starts, Request, Send, FailFast, Answer, Report, Leave, Wake, Break,
       Next, Step, Enter, Exit
  <1>2. ASSUME NEW w \in Worker, BadAnswer(w) \/ BreakLate(w) \/ Die(w) PROVE Next
    BY <1>2 DEF BadAnswer, BreakLate, Die, Next, Fault
  <1>3. CASE World \/ SharedTick
    BY <1>3 DEF World, SharedTick, Next
  <1>4. CASE UNCHANGED sharedVars
    BY <1>4 DEF sharedVars
  <1> QED BY <1>1, <1>2, <1>3, <1>4 DEF SharedNext

(* The pool of clients uses the breaker as it is specified: what is proved of  *)
(* it under arbitrary callers holds of the requests, retries and kills here.   *)
THEOREM SharedUsesBreaker == SharedSpec => Spec
  <1>1. SharedInit => Init
    BY DEF SharedInit
  <1> QED BY <1>1, SharedStepIsBreakerStep, PTL DEF SharedSpec, Spec

(* Through requests, retries and kills the pool sees one breaker: refused only *)
(* when blocked as it asked, admitted only when not, each report counted once. *)
THEOREM ClientsKeepPool == SharedSpec => ImplementsPool
  BY SharedUsesBreaker, PoolImplemented, PTL

-----------------------------------------------------------------------------
(* Where a worker's request stands with its clock: never past what is due, and *)
(* what is due within what its attempts and sleeps so far may have taken.      *)
Rounds(n) == n * (AttemptTime + MaxDelay)

Allowed(w) == IF request[w] = "trying" THEN Rounds(attempt[w] - 1) + AttemptTime
                                       ELSE Rounds(attempt[w])

OnTime == \A w \in Worker : request[w] # "none" =>
             /\ now <= due[w]
             /\ due[w] <= began[w] + Allowed(w)
             /\ request[w] = "sleeping" => attempt[w] < MaxAttempts

LEMMA RoundsGrow ==
  ASSUME NEW n \in Nat
  PROVE  /\ Rounds(n) \in Nat
         /\ Rounds(n + 1) = Rounds(n) + AttemptTime + MaxDelay
         /\ n < MaxAttempts => Rounds(n) <= Rounds(MaxAttempts - 1)
  <1> DEFINE p == AttemptTime + MaxDelay
  <1>1. p \in Nat /\ MaxAttempts \in Nat
    BY SharedAssumption, DelayAssumption
  <1> HIDE DEF p
  <1>2. n * p \in Nat /\ (n + 1) * p = n * p + p
    BY <1>1
  <1>3. ASSUME n < MaxAttempts PROVE n * p <= (MaxAttempts - 1) * p
    <2>1. \A a, b, c \in Nat : a <= b => a * c <= b * c
      OBVIOUS
    <2> QED BY <1>1, <1>3, <2>1
  <1> QED BY <1>1, <1>2, <1>3, SharedAssumption, DelayAssumption DEF Rounds, p

LEMMA BudgetIsRounds == Budget = Rounds(MaxAttempts - 1) + AttemptTime
  <1>1. \A m, a, d \in Int : m * a + (m - 1) * d = (m - 1) * (a + d) + a
    OBVIOUS
  <1> QED BY <1>1, SharedAssumption, DelayAssumption DEF Budget, Rounds

-----------------------------------------------------------------------------
SharedInv == SharedTypeOK /\ OnTime

(* What a worker's own step may do to its clock and request.                   *)
Moves(w) == \/ Finish(w)
            \/ request[w] = "none" /\ Try(w, 1) /\ began' = [began EXCEPT ![w] = now]
            \/ request[w] = "trying" /\ Retry(w)
            \/ /\ request[w] = "sleeping"
               /\ Try(w, attempt[w] + 1)
               /\ UNCHANGED began
               /\ now >= due[w] \/ now = MaxTime

(* A step is one worker's move, a tick nobody is late for, or neither.         *)
LEMMA SharedMove ==
  ASSUME [SharedNext]_sharedVars, SharedTypeOK
  PROVE  \/ now' = now /\ \E w \in Worker : Moves(w)
         \/ now' = now /\ UNCHANGED clientVars
         \/ SharedTick
  <1> USE DEF Moves
  <1>1. ASSUME NEW w \in Worker, Proceed(w)
        PROVE  now' = now /\ (UNCHANGED clientVars \/ Moves(w))
    <2>1. CASE Starts(w) \/ Request(w) \/ Send(w) \/ FailFast(w) \/ Report(w)
      BY <2>1 DEF Starts, Construct, Request, vars, Send, EnterRead, EnterFallback,
         EnterTryHalfOpen, FailFast, EnterRefuse, Report, ExitRecordFailure
    <2>2. CASE Answer(w)
      BY <2>2 DEF Answer, ExitSuccess, ExitReset
    <2>3. CASE Leave(w)
      <3>1. pc[w] \in Calling \cup Pending
        BY <2>3 DEF Leave, ExitReadState, ExitFallback, Pending
      <3>2. request[w] = "trying"
        BY <3>1 DEF SharedTypeOK
      <3> QED BY <2>3, <3>2 DEF Leave, ExitReadState, ExitFallback
    <2>4. CASE Wake(w)
      BY <2>4 DEF Wake, vars
    <2>5. CASE Break(w)
      BY <2>5 DEF Break, RedisError
    <2> QED BY <1>1, <2>1, <2>2, <2>3, <2>4, <2>5 DEF Proceed
  <1>2. ASSUME NEW w \in Worker, BadAnswer(w) \/ BreakLate(w) \/ Die(w)
        PROVE  now' = now /\ (UNCHANGED clientVars \/ Moves(w))
    BY <1>2 DEF BadAnswer, ExitFailure, BreakLate, ReplyLost, Die, Crash
  <1>3. CASE World
    BY <1>3 DEF World, RedisDown, RedisBack, Vanish
  <1>4. CASE UNCHANGED sharedVars
    BY <1>4 DEF sharedVars, vars
  <1> QED BY <1>1, <1>2, <1>3, <1>4 DEF SharedNext

LEMMA MoveKeepsTime ==
  ASSUME SharedInv, TypeOK, now' = now, NEW w \in Worker, Moves(w)
  PROVE  /\ OnTime'
         /\ request' \in [Worker -> {"none", "trying", "sleeping"}]
         /\ attempt' \in [Worker -> 1 .. MaxAttempts]
         /\ due' \in [Worker -> Nat]
         /\ began' \in [Worker -> 0 .. now']
  <1> USE SharedAssumption, DelayAssumption DEF SharedInv, SharedTypeOK
  <1>0. /\ now \in Nat /\ now <= MaxTime
        /\ attempt[w] \in Nat \ {0} /\ due[w] \in Nat /\ began[w] \in Nat
    BY RedisAssumption DEF TypeOK
  <1>1. CASE Finish(w)
    BY <1>0, <1>1 DEF Finish, OnTime, Allowed
  <1>2. CASE request[w] = "none" /\ Try(w, 1) /\ began' = [began EXCEPT ![w] = now]
    <2>1. Rounds(0) = 0
      BY DEF Rounds
    <2> QED BY <1>0, <1>2, <2>1 DEF Try, OnTime, Allowed
  <1>3. CASE request[w] = "trying" /\ Retry(w)
    <2>1. PICK hint \in Hints : due' = [due EXCEPT ![w] = now + Wait(hint, attempt[w])]
      BY <1>3 DEF Retry
    <2>2. Wait(hint, attempt[w]) \in 0 .. MaxDelay
      BY <1>0, SleepIsBounded
    <2>3. Rounds(attempt[w]) = Rounds(attempt[w] - 1) + AttemptTime + MaxDelay
      BY <1>0, RoundsGrow
    <2>4. Rounds(attempt[w] - 1) \in Nat /\ Rounds(attempt[w]) \in Nat
      BY <1>0, RoundsGrow
    <2>5. now <= due[w] /\ due[w] <= began[w] + Rounds(attempt[w] - 1) + AttemptTime
      BY <1>0, <1>3, <2>4 DEF OnTime, Allowed
    <2>6. now + Wait(hint, attempt[w]) <= began[w] + Rounds(attempt[w])
      BY <1>0, <2>2, <2>3, <2>4, <2>5
    <2> QED BY <1>0, <1>3, <2>1, <2>2, <2>4, <2>6 DEF Retry, OnTime, Allowed
  <1>4. CASE /\ request[w] = "sleeping"
             /\ Try(w, attempt[w] + 1)
             /\ UNCHANGED began
             /\ now >= due[w] \/ now = MaxTime
    <2>1. Rounds(attempt[w]) \in Nat
      BY <1>0, RoundsGrow
    <2>2. now <= began[w] + Rounds(attempt[w]) /\ attempt[w] < MaxAttempts
      BY <1>0, <1>4, <2>1 DEF OnTime, Allowed
    <2>3. attempt[w] + 1 \in 1 .. MaxAttempts /\ (attempt[w] + 1) - 1 = attempt[w]
      BY <1>0, <2>2
    <2> QED BY <1>0, <1>4, <2>1, <2>2, <2>3 DEF Try, OnTime, Allowed
  <1> QED BY <1>1, <1>2, <1>3, <1>4 DEF Moves

-----------------------------------------------------------------------------
(* How the set of unreported bad answers follows a worker's place.             *)
LEMMA UnreportedFollows ==
  ASSUME TypeOK, NEW w \in Worker, NEW place, Goto(w, place)
  PROVE  /\ Cardinality(Unreported) \in Nat /\ Cardinality(Unreported') \in Nat
         /\ place = "failing" /\ pc[w] # "failing"
            => Cardinality(Unreported') = Cardinality(Unreported) + 1
         /\ place # "failing" /\ pc[w] = "failing"
            => Cardinality(Unreported') = Cardinality(Unreported) - 1
         /\ place # "failing" /\ pc[w] # "failing" => Unreported' = Unreported
  <1>1. IsFiniteSet(Unreported)
    BY SharedAssumption, FS_Subset DEF Unreported
  <1>2. /\ place = "failing" => Unreported' = Unreported \cup {w}
        /\ place # "failing" => Unreported' = Unreported \ {w}
        /\ w \in Unreported <=> pc[w] = "failing"
    BY DEF Unreported, Goto, TypeOK
  <1>3. /\ Cardinality(Unreported) \in Nat
        /\ Cardinality(Unreported \cup {w}) = IF w \in Unreported THEN Cardinality(Unreported)
                                              ELSE Cardinality(Unreported) + 1
        /\ Cardinality(Unreported \ {w}) = IF w \in Unreported THEN Cardinality(Unreported) - 1
                                           ELSE Cardinality(Unreported)
        /\ IsFiniteSet(Unreported \cup {w}) /\ IsFiniteSet(Unreported \ {w})
    BY <1>1, FS_AddElement, FS_RemoveElement, FS_CardinalityType
  <1>4. Cardinality(Unreported \cup {w}) \in Nat /\ Cardinality(Unreported \ {w}) \in Nat
    BY <1>3, FS_CardinalityType
  <1>5. w \notin Unreported => Unreported \ {w} = Unreported
    OBVIOUS
  <1>6. CASE place = "failing"
    BY <1>2, <1>3, <1>4, <1>6
  <1>7. CASE place # "failing"
    BY <1>2, <1>3, <1>4, <1>5, <1>7
  <1> QED BY <1>6, <1>7

(* The account and the hash, over a step that takes w somewhere.               *)
LEMMA PoolStep ==
  ASSUME TypeOK, PoolCountsFailures, NEW w \in Worker, NEW place, Goto(w, place),
         \/ failureCount' = failureCount /\ bad' = bad
            /\ place # "failing" /\ pc[w] # "failing"
         \/ failureCount' = failureCount /\ bad' = bad + 1
            /\ place = "failing" /\ pc[w] # "failing"
         \/ failureCount' = failureCount + 1 /\ bad' = bad
            /\ place # "failing" /\ pc[w] = "failing"
         \/ failureCount' = failureCount /\ bad' = bad - 1
            /\ place # "failing" /\ pc[w] = "failing"
         \/ failureCount' = 0 /\ Forget
  PROVE  PoolCountsFailures'
  <1>1. failureCount \in Nat
    BY DEF TypeOK
  <1> QED BY <1>1, UnreportedFollows DEF PoolCountsFailures, Forget

LEMMA PoolPreserved ==
  ASSUME [SharedNext]_sharedVars, TypeOK, PoolCountsFailures
  PROVE  PoolCountsFailures'
  <1>0. ASSUME UNCHANGED <<pc, failureCount, bad>> PROVE PoolCountsFailures'
    BY <1>0 DEF PoolCountsFailures, Unreported
  <1>1. ASSUME NEW w \in Worker, Proceed(w) PROVE PoolCountsFailures'
    <2>1. CASE Request(w) \/ Wake(w)
      BY <1>0, <2>1 DEF Request, Wake, vars, redisVars, workerVars
    <2>2. CASE Starts(w)
      BY <2>2, PoolStep DEF Starts, Construct, redisVars
    <2>3. CASE Send(w)
      <3>1. CASE EnterRead(w)
        BY <2>3, <3>1, PoolStep DEF Send, EnterRead, redisVars, Ready
      <3>2. CASE EnterFallback(w)
        BY <2>3, <3>2, PoolStep DEF Send, EnterFallback, redisVars, Ready
      <3>3. CASE EnterTryHalfOpen(w)
        <4>1. PICK stamp \in since[w] .. now :
                 /\ ScriptTryHalfOpen(stamp)
                 /\ Goto(w, IF HalfOpens(stamp) THEN "probing" ELSE "refusing")
          BY <3>3 DEF EnterTryHalfOpen
        <4> DEFINE place == IF HalfOpens(stamp) THEN "probing" ELSE "refusing"
        <4>2. Goto(w, place) /\ place # "failing" /\ pc[w] # "failing"
          BY <3>3, <4>1 DEF EnterTryHalfOpen
        <4>3. failureCount' = failureCount /\ bad' = bad
          BY <2>3, <4>1 DEF Send, ScriptTryHalfOpen
        <4> HIDE DEF place
        <4> QED BY <4>2, <4>3, PoolStep
      <3> QED BY <2>3, <3>1, <3>2, <3>3 DEF Send
    <2>4. CASE FailFast(w)
      BY <2>4, PoolStep DEF FailFast, EnterRefuse, redisVars
    <2>5. CASE Answer(w)
      <3>1. CASE ExitSuccess(w) /\ UNCHANGED bad
        <4> DEFINE place == IF Closed THEN "idle" ELSE "resetting"
        <4>1. Goto(w, place) /\ place # "failing" /\ pc[w] # "failing"
          BY <3>1 DEF ExitSuccess, Calling
        <4>2. failureCount' = failureCount /\ bad' = bad
          BY <3>1 DEF ExitSuccess, redisVars
        <4> HIDE DEF place
        <4> QED BY <4>1, <4>2, PoolStep
      <3>2. CASE ExitReset(w) /\ Forget
        BY <3>2, PoolStep DEF ExitReset, ScriptReset
      <3> QED BY <2>5, <3>1, <3>2 DEF Answer
    <2>6. CASE Report(w)
      BY <2>6, PoolStep DEF Report, ExitRecordFailure, ScriptRecordFailure
    <2>7. CASE Leave(w)
      BY <2>7, PoolStep DEF Leave, ExitReadState, ExitFallback, redisVars, Calling
    <2>8. CASE Break(w)
      BY <2>8, PoolStep DEF Break, RedisError, Forgive, redisVars
    <2> QED BY <1>1, <2>1, <2>2, <2>3, <2>4, <2>5, <2>6, <2>7, <2>8 DEF Proceed
  <1>2. ASSUME NEW w \in Worker, BadAnswer(w) PROVE PoolCountsFailures'
    BY <1>2, PoolStep DEF BadAnswer, ExitFailure, SeeBad, redisVars, Calling
  <1>3. ASSUME NEW w \in Worker, Die(w) PROVE PoolCountsFailures'
    BY <1>3, PoolStep DEF Die, Crash, Forgive, redisVars
  <1>4. ASSUME NEW w \in Worker, BreakLate(w) PROVE PoolCountsFailures'
    <2>1. Goto(w, "redis_error") /\ pc[w] \in Pending
      BY <1>4 DEF BreakLate, ReplyLost
    <2>2. CASE pc[w] = "resetting"
      <3>1. ScriptReset /\ Forget
        BY <1>4, <2>2 DEF BreakLate, ReplyLost
      <3> QED BY <2>1, <3>1, PoolStep DEF ScriptReset
    <2>3. CASE pc[w] = "failing"
      <3>1. ScriptRecordFailure(since[w]) /\ bad' = bad
        BY <1>4, <2>3 DEF BreakLate, ReplyLost
      <3> QED BY <2>1, <2>3, <3>1, PoolStep DEF ScriptRecordFailure
    <2>4. CASE pc[w] \in {"opening", "refusing", "recorded"}
      <3>1. failureCount' = failureCount /\ bad' = bad
        BY <1>4, <2>4 DEF BreakLate, ReplyLost, ScriptTryHalfOpen, redisVars
      <3> QED BY <2>1, <2>4, <3>1, PoolStep
    <2> QED BY <2>1, <2>2, <2>3, <2>4 DEF Pending
  <1>5. CASE World
    <2>1. UNCHANGED pc
      BY <1>5 DEF World, RedisDown, RedisBack, Vanish, workerVars
    <2>2. CASE UNCHANGED redisVars
      BY <1>0, <1>5, <2>1, <2>2 DEF World, redisVars
    <2>3. CASE ~UNCHANGED redisVars
      <3>1. LoseHash /\ Forget
        BY <1>5, <2>3 DEF World, RedisDown, RedisBack, Vanish
      <3>2. Cardinality(Unreported') \in Nat
        BY SharedAssumption, FS_Subset, FS_CardinalityType DEF Unreported
      <3> QED BY <3>1, <3>2 DEF LoseHash, Forget, PoolCountsFailures
    <2> QED BY <2>2, <2>3
  <1>6. CASE SharedTick
    BY <1>0, <1>6 DEF SharedTick, Tick, redisVars, workerVars
  <1>7. CASE UNCHANGED sharedVars
    BY <1>0, <1>7 DEF sharedVars, vars, redisVars, workerVars
  <1> QED BY <1>1, <1>2, <1>3, <1>4, <1>5, <1>6, <1>7 DEF SharedNext

-----------------------------------------------------------------------------
(* No step takes a worker into a with block, or leaves it there, without a     *)
(* request that is trying.                                                     *)
InsideTries == \A w \in Worker : pc[w] \in Calling \cup Pending => request[w] = "trying"

LEMMA InsidePreserved ==
  ASSUME [SharedNext]_sharedVars, TypeOK, SharedTypeOK
  PROVE  InsideTries'
  <1> USE DEF SharedTypeOK, TypeOK, InsideTries, Goto, Ready, Calling, Pending
  <1>1. ASSUME NEW w \in Worker, Proceed(w) PROVE InsideTries'
    <2>1. CASE Starts(w)
      BY <2>1 DEF Starts, Construct, clientVars
    <2>2. CASE Request(w) \/ Wake(w)
      BY <2>2 DEF Request, Wake, Try, vars, workerVars
    <2>3. CASE Send(w)
      BY <2>3 DEF Send, EnterRead, EnterFallback, EnterTryHalfOpen, clientVars
    <2>4. CASE FailFast(w)
      BY <2>4 DEF FailFast, EnterRefuse, Finish
    <2>5. CASE Answer(w)
      BY <2>5 DEF Answer, ExitSuccess, ExitReset, Finish, clientVars
    <2>6. CASE Report(w)
      BY <2>6 DEF Report, ExitRecordFailure, clientVars
    <2>7. CASE Leave(w)
      BY <2>7 DEF Leave, ExitReadState, ExitFallback, Retry, Finish
    <2>8. CASE Break(w)
      BY <2>8 DEF Break, RedisError, Finish
    <2> QED BY <1>1, <2>1, <2>2, <2>3, <2>4, <2>5, <2>6, <2>7, <2>8 DEF Proceed
  <1>2. ASSUME NEW w \in Worker, BadAnswer(w) PROVE InsideTries'
    BY <1>2 DEF BadAnswer, ExitFailure, clientVars
  <1>3. ASSUME NEW w \in Worker, BreakLate(w) PROVE InsideTries'
    <2>1. Goto(w, "redis_error") /\ Finish(w)
      BY <1>3 DEF BreakLate, ReplyLost
    <2> QED BY <2>1 DEF Finish
  <1>4. ASSUME NEW w \in Worker, Die(w) PROVE InsideTries'
    BY <1>4 DEF Die, Crash, Finish
  <1>5. CASE World \/ SharedTick \/ UNCHANGED sharedVars
    <2>1. UNCHANGED <<pc, request>>
      BY <1>5 DEF World, RedisDown, RedisBack, Vanish, SharedTick, Tick, sharedVars, vars,
         workerVars, clientVars
    <2> QED BY <2>1
  <1> QED BY <1>1, <1>2, <1>3, <1>4, <1>5 DEF SharedNext

LEMMA TickKeepsTime ==
  ASSUME SharedInv, TypeOK, SharedTick \/ (now' = now /\ UNCHANGED clientVars)
  PROVE  /\ OnTime'
         /\ request' \in [Worker -> {"none", "trying", "sleeping"}]
         /\ attempt' \in [Worker -> 1 .. MaxAttempts]
         /\ due' \in [Worker -> Nat]
         /\ began' \in [Worker -> 0 .. now']
  <1>0. now \in Nat /\ now' \in Nat /\ now <= now'
    BY RedisAssumption DEF TypeOK, SharedTick, Tick
  <1>1. UNCHANGED <<request, attempt, due, began>>
    BY DEF SharedTick, clientVars
  <1>2. \A w \in Worker : request[w] # "none" => now' <= due[w]
    BY <1>0 DEF SharedTick, Tick, SharedInv, SharedTypeOK, OnTime
  <1>3. \A w \in Worker : began[w] \in 0 .. now'
    BY <1>0 DEF SharedInv, SharedTypeOK
  <1>4. OnTime'
    BY <1>1, <1>2 DEF SharedInv, OnTime, Allowed
  <1> QED BY <1>1, <1>3, <1>4 DEF SharedInv, SharedTypeOK

(* What holds of every reachable state, with the breaker's own invariant.      *)
PoolInv == IInv /\ SharedInv /\ PoolCountsFailures

LEMMA PoolInitEstablishes == SharedInit => PoolInv
  <1> SUFFICES ASSUME SharedInit PROVE PoolInv
    OBVIOUS
  <1>1. IInv
    BY InitEstablishes DEF SharedInit
  <1>2. Unreported = {}
    BY DEF SharedInit, Init, Unreported
  <1>3. PoolCountsFailures
    BY <1>1, <1>2, FS_EmptySet DEF SharedInit, PoolCountsFailures, IInv, TypeOK
  <1>4. SharedInv
    BY <1>1, SharedAssumption, RedisAssumption
       DEF SharedInit, Init, SharedInv, SharedTypeOK, OnTime, IInv, TypeOK, Calling, Pending
  <1> QED BY <1>1, <1>3, <1>4 DEF PoolInv

LEMMA PoolStepPreserves == PoolInv /\ [SharedNext]_sharedVars => PoolInv'
  <1> SUFFICES ASSUME PoolInv, [SharedNext]_sharedVars PROVE PoolInv'
    OBVIOUS
  <1> USE DEF PoolInv, SharedInv
  <1>1. TypeOK /\ SharedTypeOK
    BY DEF IInv
  <1>2. IInv'
    BY SharedStepIsBreakerStep, WorkersStep, HashStep DEF IInv, TypeOK, HashOK, WorkersOK
  <1>3. PoolCountsFailures' /\ InsideTries'
    BY <1>1, PoolPreserved, InsidePreserved
  <1>4. bad' \in Nat
    <2>1. Cardinality(Unreported') \in Nat
      BY SharedAssumption, FS_Subset, FS_CardinalityType DEF Unreported
    <2> QED BY <1>2, <1>3, <2>1 DEF PoolCountsFailures, IInv, TypeOK
  <1>5. /\ OnTime'
        /\ request' \in [Worker -> {"none", "trying", "sleeping"}]
        /\ attempt' \in [Worker -> 1 .. MaxAttempts]
        /\ due' \in [Worker -> Nat]
        /\ began' \in [Worker -> 0 .. now']
    BY <1>1, SharedMove, MoveKeepsTime, TickKeepsTime
  <1> QED BY <1>2, <1>3, <1>4, <1>5 DEF SharedTypeOK, InsideTries

(* The combined invariant holds in every reachable state.                      *)
THEOREM PoolInvariance == SharedSpec => []PoolInv
  BY PoolInitEstablishes, PoolStepPreserves, PTL DEF SharedSpec

(* The client's fields keep their types: never an attempt beyond MaxAttempts,  *)
(* never a with block left open by an exception, a kill or a lost Redis.       *)
THEOREM SharedTypeCorrect == SharedSpec => []SharedTypeOK
  BY PoolInvariance, PTL DEF PoolInv, SharedInv

(* The hash counts every bad answer the pool has seen since the last reset     *)
(* exactly once, apart from those on their way to be counted.                  *)
THEOREM PoolCounts == SharedSpec => []PoolCountsFailures
  BY PoolInvariance, PTL DEF PoolInv

(* While the circuit is closed, fewer than Threshold bad answers have been     *)
(* reported, and it opens on no fewer.                                         *)
TripsExactly == /\ Closed => bad < Threshold + Cardinality(Unreported)
                /\ state = "OPEN" => bad >= Threshold

(* The circuit trips at exactly Threshold failures of the pool, by the wire.   *)
THEOREM PoolTripsExactly == SharedSpec => []TripsExactly
  <1>1. PoolInv => TripsExactly
    <2> SUFFICES ASSUME PoolInv PROVE TripsExactly
      OBVIOUS
    <2>1. Cardinality(Unreported) \in Nat
      BY SharedAssumption, FS_Subset, FS_CardinalityType DEF Unreported
    <2> QED BY <2>1, RedisAssumption
            DEF PoolInv, PoolCountsFailures, IInv, TypeOK, FieldsAgree, TripsExactly
  <1> QED BY <1>1, PoolInvariance, PTL

(* No request is out, or asleep, past MaxAttempts attempts and the sleeps      *)
(* between them.                                                               *)
THEOREM BudgetCorrect == SharedSpec => []RequestWithinBudget
  <1>1. PoolInv => RequestWithinBudget
    <2> SUFFICES ASSUME PoolInv, NEW w \in Worker, request[w] # "none"
                 PROVE  due[w] <= began[w] + Budget
      BY DEF RequestWithinBudget
    <2> USE SharedAssumption, DelayAssumption DEF PoolInv, SharedInv, SharedTypeOK
    <2>1. /\ attempt[w] \in 1 .. MaxAttempts /\ due[w] \in Nat /\ began[w] \in Nat
          /\ request[w] \in {"trying", "sleeping"}
      BY RedisAssumption DEF IInv, TypeOK
    <2>2. due[w] <= began[w] + Allowed(w) /\ (request[w] = "sleeping" => attempt[w] < MaxAttempts)
      BY <2>1 DEF OnTime
    <2>3. attempt[w] - 1 \in Nat /\ attempt[w] - 1 < MaxAttempts /\ MaxAttempts - 1 \in Nat
      BY <2>1
    <2>4. /\ Rounds(attempt[w] - 1) <= Rounds(MaxAttempts - 1)
          /\ attempt[w] < MaxAttempts => Rounds(attempt[w]) <= Rounds(MaxAttempts - 1)
      BY <2>1, <2>3, RoundsGrow
    <2>5. Rounds(attempt[w] - 1) \in Nat /\ Rounds(attempt[w]) \in Nat
          /\ Rounds(MaxAttempts - 1) \in Nat
      BY <2>1, <2>3, RoundsGrow
    <2> QED BY <2>1, <2>2, <2>4, <2>5, BudgetIsRounds DEF Allowed
  <1> QED BY <1>1, PoolInvariance, PTL
=============================================================================
