------------------------- MODULE RedisBreaker_proof -------------------------
(* Proofs, for any number of workers, of the safety properties of              *)
(* RedisBreaker.tla: the three fields of the hash agree although three scripts *)
(* of many workers write them, and neither an admission nor a refusal rests on *)
(* news the hash no longer supports.                                           *)
EXTENDS RedisBreaker, TLAPS

(* A worker about to run try_half_open read the clock after the clock was      *)
(* already a recovery period past 0: an absent open_since never refuses it.    *)
SinceIsRecent == \A w \in Worker : pc[w] = "opening" => since[w] >= RecoveryTimeout

IInv == TypeOK /\ FieldsAgree /\ SinceIsRecent

(* What each of the three scripts, and the loss of the hash, does to the hash. *)
HashOK == /\ state \in {Absent, "CLOSED", "OPEN", "HALF_OPEN"}
          /\ failureCount \in Nat
          /\ openSince \in {Absent} \cup 0 .. now
          /\ FieldsAgree

LEMMA LoseHashOK == LoseHash /\ now' \in Nat => HashOK'
  BY RedisAssumption DEF LoseHash, HashOK, FieldsAgree, Closed

LEMMA ScriptResetOK == ScriptReset /\ now' \in Nat => HashOK'
  BY RedisAssumption DEF ScriptReset, HashOK, FieldsAgree, Closed

LEMMA ScriptRecordFailureOK ==
  ASSUME HashOK, now \in Nat, now' = now, NEW stamp \in 0 .. now,
         ScriptRecordFailure(stamp)
  PROVE  HashOK'
  BY RedisAssumption DEF ScriptRecordFailure, HashOK, FieldsAgree, Closed, Rested, OpenStamp

LEMMA ScriptTryHalfOpenOK ==
  ASSUME HashOK, now \in Nat, now' = now, NEW stamp \in 0 .. now,
         ScriptTryHalfOpen(stamp)
  PROVE  HashOK'
  <1>1. OpenStamp \in Int /\ OpenStamp' = OpenStamp
    BY DEF HashOK, OpenStamp, ScriptTryHalfOpen
  <1>2. Rested' \/ ~HalfOpens(stamp)
    BY <1>1, RedisAssumption DEF Rested, HalfOpens
  <1>3. state = "HALF_OPEN" => Rested'
    BY <1>1 DEF HashOK, FieldsAgree, Rested
  <1>4. (state = "HALF_OPEN" => Rested)'
    BY <1>2, <1>3 DEF ScriptTryHalfOpen
  <1> QED BY <1>4, RedisAssumption DEF ScriptTryHalfOpen, HashOK, FieldsAgree, Closed

LEMMA LaterIsRested ==
  ASSUME NEW early \in Nat, NEW late \in Nat, early <= late,
         NEW stamp \in Int, NEW period \in Int, early - stamp >= period
  PROVE  late - stamp >= period
  OBVIOUS

LEMMA HashUnchangedOK ==
  ASSUME HashOK, UNCHANGED redisVars, now \in Nat, now' \in Nat, now <= now'
  PROVE  HashOK'
  <1>1. OpenStamp \in Int /\ OpenStamp' = OpenStamp
    BY DEF HashOK, OpenStamp, redisVars
  <1>2. Rested => Rested'
    <2>1. RecoveryTimeout \in Int
      BY RedisAssumption
    <2> QED BY <1>1, <2>1, LaterIsRested DEF Rested
  <1> QED BY <1>2, RedisAssumption DEF redisVars, HashOK, FieldsAgree, Closed

-----------------------------------------------------------------------------
LEMMA InitEstablishes == Init => IInv
  BY RedisAssumption
     DEF Init, IInv, TypeOK, FieldsAgree, SinceIsRecent, Closed, Ready, Calling, Pending

(* The part of the invariant that is about the workers.                        *)
WorkersOK == /\ redisUp \in BOOLEAN
             /\ now \in RecoveryTimeout .. MaxTime
             /\ fallback \subseteq Worker
             /\ pc \in [Worker -> Ready \cup Calling \cup Pending \cup {"new"}]
             /\ since \in [Worker -> 0 .. now]
             /\ SinceIsRecent

LEMMA Split == IInv <=> HashOK /\ WorkersOK
  BY DEF IInv, TypeOK, HashOK, WorkersOK

LEMMA ClockFacts == WorkersOK => now \in Nat /\ \A w \in Worker : since[w] \in 0 .. now
  BY RedisAssumption DEF WorkersOK

(* No step disturbs the workers' part.                                         *)
LEMMA WorkersStep == IInv /\ [Next]_vars => WorkersOK'
  <1> SUFFICES ASSUME IInv, [Next]_vars PROVE WorkersOK'
    OBVIOUS
  <1>0. WorkersOK
    BY Split
  <1> USE <1>0, RedisAssumption DEF WorkersOK, SinceIsRecent, Ready, Calling, Pending, Goto
  <1>1. ASSUME NEW w \in Worker, Construct(w) PROVE WorkersOK'
    BY <1>1 DEF Construct
  <1>2. ASSUME NEW w \in Worker, Enter(w) PROVE WorkersOK'
    <2>1. CASE EnterRead(w)
      BY <2>1 DEF EnterRead
    <2>2. CASE EnterFallback(w)
      BY <2>2 DEF EnterFallback
    <2>3. CASE EnterTryHalfOpen(w)
      BY <2>3 DEF EnterTryHalfOpen
    <2>4. CASE EnterRefuse(w)
      BY <2>4 DEF EnterRefuse
    <2> QED BY <1>2, <2>1, <2>2, <2>3, <2>4 DEF Enter
  <1>3. ASSUME NEW w \in Worker, Exit(w) PROVE WorkersOK'
    <2>1. CASE ExitSuccess(w)
      BY <2>1 DEF ExitSuccess
    <2>2. CASE ExitReset(w)
      BY <2>2 DEF ExitReset
    <2>3. CASE ExitRecordFailure(w)
      BY <2>3 DEF ExitRecordFailure
    <2>4. CASE ExitFallback(w)
      BY <2>4 DEF ExitFallback
    <2>5. CASE ExitReadState(w)
      BY <2>5 DEF ExitReadState
    <2> QED BY <1>3, <2>1, <2>2, <2>3, <2>4, <2>5 DEF Exit
  <1>4. ASSUME NEW w \in Worker, RedisError(w) PROVE WorkersOK'
    BY <1>4 DEF RedisError
  <1>5. ASSUME NEW w \in Worker, Fault(w) PROVE WorkersOK'
    <2>1. CASE ExitFailure(w)
      BY <2>1 DEF ExitFailure
    <2>2. CASE ReplyLost(w)
      BY <2>2 DEF ReplyLost
    <2>3. CASE Crash(w)
      BY <2>3 DEF Crash
    <2>4. CASE Reset(w)
      BY <2>4 DEF Reset, workerVars
    <2> QED BY <1>5, <2>1, <2>2, <2>3, <2>4 DEF Fault
  <1>6. CASE RedisDown \/ RedisBack \/ Vanish
    BY <1>6 DEF RedisDown, RedisBack, Vanish, workerVars
  <1>7. CASE Tick
    BY <1>7 DEF Tick, workerVars
  <1>8. CASE UNCHANGED vars
    BY <1>8 DEF vars, workerVars
  <1> QED BY <1>1, <1>2, <1>3, <1>4, <1>5, <1>6, <1>7, <1>8 DEF Next, Step

(* A step writes the hash by one script, loses it, or leaves it alone.         *)
LEMMA HashStep == IInv /\ [Next]_vars => HashOK'
  <1> SUFFICES ASSUME IInv, [Next]_vars PROVE HashOK'
    OBVIOUS
  <1>0. HashOK /\ WorkersOK /\ now \in Nat /\ now' \in Nat
    BY Split, WorkersStep, RedisAssumption DEF WorkersOK
  <1>a. \A w \in Worker : since[w] \in 0 .. now
    BY <1>0, ClockFacts
  <1>b. \A w \in Worker : \A stamp \in since[w] .. now : stamp \in 0 .. now
    BY <1>0, <1>a
  <1>1. CASE UNCHANGED redisVars /\ now <= now'
    BY <1>0, <1>1, HashUnchangedOK
  <1>2. CASE LoseHash
    BY <1>0, <1>2, LoseHashOK
  <1>3. CASE ScriptReset
    BY <1>0, <1>3, ScriptResetOK
  <1>4. ASSUME NEW w \in Worker, ScriptRecordFailure(since[w]), now' = now PROVE HashOK'
    BY <1>0, <1>a, <1>4, ScriptRecordFailureOK
  <1>5. ASSUME NEW w \in Worker, now' = now,
               \E stamp \in since[w] .. now : ScriptTryHalfOpen(stamp)
        PROVE  HashOK'
    BY <1>0, <1>b, <1>5, ScriptTryHalfOpenOK
  <1>6. ASSUME NEW w \in Worker, Step(w) PROVE HashOK'
    <2>1. CASE ExitReset(w)
      BY <1>3, <2>1 DEF ExitReset
    <2>2. CASE ExitRecordFailure(w)
      BY <1>4, <2>2 DEF ExitRecordFailure
    <2>3. CASE EnterTryHalfOpen(w)
      BY <1>5, <2>3 DEF EnterTryHalfOpen
    <2>4. CASE Construct(w) \/ EnterRead(w) \/ EnterFallback(w) \/ EnterRefuse(w)
                 \/ ExitSuccess(w) \/ ExitReadState(w) \/ ExitFallback(w) \/ RedisError(w)
      <3>1. UNCHANGED redisVars /\ now' = now
        BY <2>4 DEF Construct, EnterRead, EnterFallback, EnterRefuse, ExitSuccess,
           ExitReadState, ExitFallback, RedisError
      <3> QED BY <1>0, <1>1, <3>1
    <2> QED BY <1>6, <2>1, <2>2, <2>3, <2>4 DEF Step, Enter, Exit
  <1>7. ASSUME NEW w \in Worker, Fault(w) PROVE HashOK'
    <2>1. CASE ExitFailure(w) \/ Crash(w)
      <3>1. UNCHANGED redisVars /\ now' = now
        BY <2>1 DEF ExitFailure, Crash
      <3> QED BY <1>0, <1>1, <3>1
    <2>2. CASE Reset(w)
      BY <1>3, <2>2 DEF Reset
    <2>3. CASE ReplyLost(w)
      <3>1. \/ \E stamp \in since[w] .. now : ScriptTryHalfOpen(stamp)
            \/ ScriptRecordFailure(since[w])
            \/ ScriptReset
            \/ UNCHANGED redisVars
        BY <2>3 DEF ReplyLost, Pending
      <3>2. now' = now
        BY <2>3 DEF ReplyLost
      <3> QED BY <1>0, <1>1, <1>3, <1>4, <1>5, <3>1, <3>2
    <2> QED BY <1>7, <2>1, <2>2, <2>3 DEF Fault
  <1>8. CASE RedisDown \/ RedisBack \/ Vanish \/ Tick
    <2>1. LoseHash \/ (UNCHANGED redisVars /\ now <= now')
      BY <1>0, <1>8 DEF RedisDown, RedisBack, Vanish, Tick
    <2> QED BY <1>1, <1>2, <2>1
  <1>9. CASE UNCHANGED vars
    <2>1. UNCHANGED redisVars /\ now <= now'
      BY <1>0, <1>9 DEF vars
    <2> QED BY <1>1, <2>1
  <1> QED BY <1>6, <1>7, <1>8, <1>9 DEF Next

(* The inductive invariant holds in every reachable state.                     *)
THEOREM Invariance == Spec => []IInv
  <1>1. IInv /\ [Next]_vars => IInv'
    BY WorkersStep, HashStep DEF IInv, TypeOK, HashOK, WorkersOK
  <1> QED BY <1>1, InitEstablishes, PTL DEF Spec

(* The hash and the workers keep their types.                                  *)
THEOREM TypeCorrect == Spec => []TypeOK
  BY Invariance, PTL DEF IInv

(* Whatever the interleaving of the workers' scripts, crashes, lost answers    *)
(* and evictions: the circuit is open only on Threshold failures of the pool,  *)
(* closed only on fewer, and stamped exactly while they stand.                 *)
THEOREM FieldsCorrect == Spec => []FieldsAgree
  BY Invariance, PTL DEF IInv

-----------------------------------------------------------------------------
(* No worker is refused unless Redis holds Threshold uncleared failures.       *)
THEOREM RefusalCorrect == Spec => RefusalIsJustified
  <1> DEFINE A == \A w \in Worker :
                     pc[w] # "refusing" /\ pc'[w] = "refusing" => failureCount >= Threshold
  <1>1. IInv /\ [Next]_vars => [A]_vars
    <2> SUFFICES ASSUME IInv, Next, NEW w \in Worker,
                        pc[w] # "refusing", pc'[w] = "refusing"
                 PROVE  failureCount >= Threshold
      OBVIOUS
    <2>0. WorkersOK
      BY Split
    <2>1. EnterTryHalfOpen(w)
      BY <2>0 DEF WorkersOK, Next, Step, Enter, Exit, Fault, Construct, EnterRead,
         EnterFallback, EnterTryHalfOpen, EnterRefuse, ExitSuccess, ExitReset,
         ExitRecordFailure, ExitReadState, ExitFallback, ExitFailure, RedisError, ReplyLost, Crash, Reset, RedisDown,
         RedisBack, Vanish, Tick, Goto, workerVars
    <2>2. PICK stamp \in since[w] .. now : ~HalfOpens(stamp)
      BY <2>0, <2>1 DEF EnterTryHalfOpen, Goto, WorkersOK
    <2>3. stamp \in Int /\ stamp >= RecoveryTimeout
      BY <2>0, <2>1, <2>2, ClockFacts, RedisAssumption
         DEF WorkersOK, SinceIsRecent, EnterTryHalfOpen
    <2>4. openSince # Absent
      BY <2>2, <2>3, RedisAssumption DEF HalfOpens, OpenStamp
    <2> QED BY <2>4 DEF IInv, FieldsAgree
  <1> QED BY <1>1, Invariance, PTL DEF Spec, RefusalIsJustified

(* No worker gets through an open circuit before its recovery period is over.  *)
THEOREM OpenCorrect == Spec => OpenBlocks
  <1> DEFINE A == \A w \in Worker :
                     /\ Uses(w)
                     /\ pc[w] \notin Calling
                     /\ pc'[w] \in Calling
                     => state # "OPEN" \/ Rested
  <1>1. IInv /\ [Next]_vars => [A]_vars
    <2> SUFFICES ASSUME IInv, Next, NEW w \in Worker, Uses(w),
                        pc[w] \notin Calling, pc'[w] \in Calling, state = "OPEN"
                 PROVE  Rested
      OBVIOUS
    <2>0. WorkersOK
      BY Split
    <2>1. EnterTryHalfOpen(w)
      BY <2>0 DEF WorkersOK, Calling, Uses, Next, Step, Enter, Exit, Fault, Construct,
         EnterRead, EnterFallback, EnterTryHalfOpen, EnterRefuse, ExitSuccess, ExitReset,
         ExitRecordFailure, ExitReadState, ExitFallback, ExitFailure, RedisError, ReplyLost, Crash,
         Reset, RedisDown, RedisBack, Vanish, Tick, Goto, workerVars
    <2>2. PICK stamp \in since[w] .. now : HalfOpens(stamp)
      BY <2>0, <2>1 DEF EnterTryHalfOpen, Goto, WorkersOK, Calling
    <2>3. OpenStamp \in Int /\ now \in Int /\ since[w] \in Int
      BY <2>0, RedisAssumption, ClockFacts DEF OpenStamp, WorkersOK, IInv, TypeOK
    <2> QED BY <2>2, <2>3, RedisAssumption DEF HalfOpens, Rested
  <1> QED BY <1>1, Invariance, PTL DEF Spec, OpenBlocks

-----------------------------------------------------------------------------
(* RedisBreaker implements PoolContract: the hash as one streak of failures.   *)
Recovering == state = "HALF_OPEN"

(* The conditions the contract knows, read off the hash.                       *)
LEMMA PoolConditions ==
  ASSUME IInv
  PROVE  /\ Pool!Tripped <=> failureCount >= Threshold
         /\ \A time : Pool!BlockedAt(time) <=>
                       failureCount >= Threshold /\ time - OpenStamp < RecoveryTimeout
         /\ Closed <=> ~(Pool!Tripped \/ Recovering)
         /\ state = "OPEN" <=> Pool!Tripped /\ ~Recovering
         /\ Recovering => ~Pool!BlockedAt(now)
  <1>1. /\ state \in {Absent, "CLOSED", "OPEN", "HALF_OPEN"} /\ failureCount \in Nat
        /\ OpenStamp \in Int /\ now \in Int /\ Threshold \in Int /\ RecoveryTimeout \in Int
        /\ Absent \notin {"CLOSED", "OPEN", "HALF_OPEN"}
    BY RedisAssumption DEF IInv, TypeOK, OpenStamp
  <1>2. Pool!Tripped <=> failureCount >= Threshold
    BY DEF Pool!Tripped
  <1>3. \A time : Pool!BlockedAt(time) <=>
                     failureCount >= Threshold /\ time - OpenStamp < RecoveryTimeout
    BY <1>2 DEF Pool!BlockedAt
  <1>4. /\ Closed => failureCount < Threshold
        /\ state = "OPEN" => failureCount >= Threshold
        /\ state = "HALF_OPEN" => now - OpenStamp >= RecoveryTimeout
    BY DEF IInv, FieldsAgree, Rested
  <1>5. Closed <=> state = Absent \/ state = "CLOSED"
    BY DEF Closed
  <1> QED BY <1>1, <1>2, <1>3, <1>4, <1>5 DEF Recovering

LEMMA ToldPlaces ==
  /\ \A place \in Calling : ToldAt(place) = "inside"
  /\ ToldAt("opening") = "waiting"
  /\ ToldAt("refusing") = "refused" /\ ToldAt("refused") = "refused"
  /\ ToldAt("failing") = "failed"
  /\ ToldAt("resetting") = "succeeded"
  /\ \A place \in {"new", "idle", "redis_error", "recorded"} : ToldAt(place) = "out"
  BY DEF ToldAt, Calling

(* A worker that goes to another place is told what the place stands for.      *)
LEMMA Tells ==
  ASSUME IInv, NEW w \in Worker, NEW place, Goto(w, place)
  PROVE  Pool!Tell(w, ToldAt(place)) /\ Told[w] = ToldAt(pc[w])
  <1>1. pc \in [Worker -> Ready \cup Calling \cup Pending \cup {"new"}]
    BY DEF IInv, TypeOK
  <1>2. Told' = [Told EXCEPT ![w] = ToldAt(place)]
    BY <1>1 DEF Told, Goto
  <1> QED BY <1>2 DEF Told, Pool!Tell

(* What the contract sees of the hash, when the fields it is read off stay.    *)
LEMMA HashAlone ==
  /\ UNCHANGED redisVars => /\ failureCount' = failureCount /\ OpenStamp' = OpenStamp
                            /\ (state = "HALF_OPEN")' = (state = "HALF_OPEN")
  /\ ScriptReset \/ LoseHash => Pool!Clears
  <1>1. ASSUME UNCHANGED redisVars
        PROVE  /\ failureCount' = failureCount /\ OpenStamp' = OpenStamp
               /\ (state = "HALF_OPEN")' = (state = "HALF_OPEN")
    BY <1>1 DEF redisVars, OpenStamp
  <1>2. ASSUME ScriptReset \/ LoseHash PROVE Pool!Clears
    <2>1. /\ failureCount' = 0 /\ openSince' = Absent /\ state' \in {"CLOSED", Absent}
      BY <1>2 DEF ScriptReset, LoseHash
    <2>2. (state = "HALF_OPEN")' = FALSE
      BY <2>1, RedisAssumption
    <2> QED BY <2>1, <2>2 DEF Pool!Clears, OpenStamp
  <1> QED BY <1>1, <1>2

(* What the script try_half_open, and the script record_failure, mean to the   *)
(* contract.                                                                   *)
LEMMA HalfOpenMeans ==
  ASSUME IInv, NEW w \in Worker, NEW stamp \in since[w] .. now, pc[w] = "opening",
         ScriptTryHalfOpen(stamp)
  PROVE  /\ failureCount' = failureCount /\ OpenStamp' = OpenStamp
         /\ HalfOpens(stamp) => (state = "HALF_OPEN")' = TRUE /\ ~Pool!BlockedAt(now)
         /\ ~HalfOpens(stamp) => /\ (state = "HALF_OPEN")' = (state = "HALF_OPEN")
                                 /\ Pool!BlockedAt(since[w])
  <1>0. /\ OpenStamp \in Int /\ now \in Int /\ since[w] \in Int /\ stamp \in Int
        /\ RecoveryTimeout \in Int /\ since[w] <= stamp /\ stamp <= now
        /\ since[w] >= RecoveryTimeout
    <2>1. WorkersOK
      BY Split
    <2> QED BY <2>1, ClockFacts, RedisAssumption
         DEF IInv, TypeOK, OpenStamp, SinceIsRecent, WorkersOK
  <1>1. failureCount' = failureCount /\ OpenStamp' = OpenStamp
    BY DEF ScriptTryHalfOpen, OpenStamp
  <1>2. ASSUME HalfOpens(stamp) PROVE (state = "HALF_OPEN")' = TRUE /\ ~Pool!BlockedAt(now)
    <2>1. ~(now - OpenStamp < RecoveryTimeout)
      BY <1>0, <1>2 DEF HalfOpens
    <2>2. state' = "HALF_OPEN"
      BY <1>2 DEF ScriptTryHalfOpen
    <2> QED BY <2>1, <2>2, PoolConditions
  <1>3. ASSUME ~HalfOpens(stamp)
        PROVE  /\ (state = "HALF_OPEN")' = (state = "HALF_OPEN")
               /\ Pool!BlockedAt(since[w])
    <2>1. since[w] - OpenStamp < RecoveryTimeout
      BY <1>0, <1>3 DEF HalfOpens
    <2>2. openSince # Absent
      BY <1>0, <2>1 DEF OpenStamp
    <2>3. failureCount >= Threshold
      BY <2>2 DEF IInv, FieldsAgree
    <2>4. state' = state
      BY <1>3 DEF ScriptTryHalfOpen
    <2> QED BY <2>1, <2>3, <2>4, PoolConditions
  <1> QED BY <1>1, <1>2, <1>3

LEMMA RecordMeans ==
  ASSUME IInv, NEW w \in Worker, ScriptRecordFailure(since[w])
  PROVE  /\ failureCount' = failureCount + 1
         /\ IF failureCount' >= Threshold
            THEN OpenStamp' = since[w] /\ (state = "HALF_OPEN")' = FALSE
            ELSE OpenStamp' = OpenStamp /\ (state = "HALF_OPEN")' = (state = "HALF_OPEN")
  <1>1. failureCount' = failureCount + 1
    BY DEF ScriptRecordFailure
  <1>2. ASSUME failureCount' >= Threshold
        PROVE  OpenStamp' = since[w] /\ (state = "HALF_OPEN")' = FALSE
    <2>1. state' = "OPEN" /\ openSince' = since[w]
      BY <1>2 DEF ScriptRecordFailure
    <2>2. since[w] \in Int
      BY Split, ClockFacts
    <2>3. OpenStamp' = since[w]
      BY <2>1, <2>2, RedisAssumption DEF OpenStamp
    <2>4. (state = "HALF_OPEN")' = FALSE
      BY <2>1
    <2> QED BY <2>3, <2>4
  <1>3. ASSUME ~(failureCount' >= Threshold)
        PROVE  OpenStamp' = OpenStamp /\ (state = "HALF_OPEN")' = (state = "HALF_OPEN")
    BY <1>3 DEF ScriptRecordFailure, OpenStamp
  <1> QED BY <1>1, <1>2, <1>3

-----------------------------------------------------------------------------
LEMMA EnterKeepsPool ==
  ASSUME IInv, NEW w \in Worker, Enter(w)
  PROVE  Pool!Next \/ UNCHANGED Pool!vars
  <1> USE ToldPlaces, HashAlone, Tells DEF Pool!storeVars, Pool!Outside, Ready, Uses
  <1>1. CASE EnterRead(w)
    <2>1. CASE state = "OPEN"
      <3>1. /\ Goto(w, "opening") /\ pc[w] \in Ready /\ w \notin fallback /\ redisUp
            /\ UNCHANGED <<redisVars, redisUp, now, fallback>>
            /\ since' = [since EXCEPT ![w] = now]
        BY <1>1, <2>1 DEF EnterRead
      <3>2. Pool!Tripped /\ ~(state = "HALF_OPEN")
        BY <2>1, PoolConditions
      <3>3. Pool!Tell(w, "waiting") /\ Told[w] \in Pool!Outside
        BY <3>1
      <3>4. Pool!Ask(w)
        BY <3>1, <3>2, <3>3 DEF Pool!Ask
      <3> QED BY <3>4 DEF Pool!Next
    <2>2. CASE state # "OPEN"
      <3>1. /\ Goto(w, "inside") /\ pc[w] \in Ready /\ redisUp
            /\ UNCHANGED <<redisVars, redisUp, now, fallback, since>>
        BY <1>1, <2>2 DEF EnterRead
      <3>2. /\ Pool!Tripped => state = "HALF_OPEN"
            /\ ~Pool!BlockedAt(now)
        BY <2>2, PoolConditions DEF Recovering, Pool!BlockedAt
      <3>3. Pool!Tell(w, "inside") /\ Told[w] \in Pool!Outside
        BY <3>1 DEF Calling
      <3>4. Pool!Admit(w)
        BY <3>1, <3>2, <3>3 DEF Pool!Admit
      <3> QED BY <3>4 DEF Pool!Next
    <2> QED BY <2>1, <2>2
  <1>2. CASE EnterFallback(w)
    <2>1. /\ Goto(w, "inside") /\ pc[w] \in Ready /\ w \in fallback
          /\ UNCHANGED <<redisVars, redisUp, now, fallback, since>>
      BY <1>2 DEF EnterFallback
    <2>2. Pool!Tell(w, "inside") /\ Told[w] \in Pool!Outside
      BY <2>1 DEF Calling
    <2>3. Pool!Admit(w)
      BY <2>1, <2>2 DEF Pool!Admit
    <2> QED BY <2>3 DEF Pool!Next
  <1>3. CASE EnterTryHalfOpen(w)
    <2>1. PICK stamp \in since[w] .. now :
                /\ ScriptTryHalfOpen(stamp)
                /\ Goto(w, IF HalfOpens(stamp) THEN "probing" ELSE "refusing")
      BY <1>3 DEF EnterTryHalfOpen
    <2>2. /\ pc[w] = "opening" /\ redisUp /\ UNCHANGED <<redisUp, now, fallback, since>>
      BY <1>3 DEF EnterTryHalfOpen
    <2>3. Told[w] = "waiting"
      BY <2>1, <2>2
    <2>4. CASE HalfOpens(stamp)
      <3>1. Pool!Tell(w, "inside")
        BY <2>1, <2>4 DEF Calling
      <3>2. /\ failureCount' = failureCount /\ OpenStamp' = OpenStamp
            /\ (state = "HALF_OPEN")' = TRUE /\ ~Pool!BlockedAt(now)
        BY <2>1, <2>2, <2>4, HalfOpenMeans
      <3>3. Pool!Probe(w)
        BY <2>2, <2>3, <3>1, <3>2 DEF Pool!Probe
      <3> QED BY <3>3 DEF Pool!Next
    <2>5. CASE ~HalfOpens(stamp)
      <3>1. Pool!Tell(w, "refused")
        BY <2>1, <2>5
      <3>2. /\ failureCount' = failureCount /\ OpenStamp' = OpenStamp
            /\ (state = "HALF_OPEN")' = (state = "HALF_OPEN") /\ Pool!BlockedAt(since[w])
        BY <2>1, <2>2, <2>5, HalfOpenMeans
      <3>3. Pool!Refuse(w)
        BY <2>2, <2>3, <3>1, <3>2 DEF Pool!Refuse
      <3> QED BY <3>3 DEF Pool!Next
    <2> QED BY <2>4, <2>5
  <1>4. CASE EnterRefuse(w)
    <2>1. /\ pc[w] = "refusing" /\ Goto(w, "refused")
          /\ UNCHANGED <<redisVars, redisUp, now, fallback, since>>
      BY <1>4 DEF EnterRefuse
    <2>2. Pool!Tell(w, "refused") /\ Told[w] = "refused"
      BY <2>1
    <2>3. Told' = Told
      BY <2>2 DEF Pool!Tell, Told
    <2> QED BY <2>1, <2>3 DEF Pool!vars
  <1> QED BY <1>1, <1>2, <1>3, <1>4 DEF Enter

LEMMA ExitKeepsPool ==
  ASSUME IInv, NEW w \in Worker, Exit(w)
  PROVE  Pool!Next \/ UNCHANGED Pool!vars
  <1> USE ToldPlaces, HashAlone, Tells DEF Pool!storeVars, Uses
  <1>1. CASE ExitSuccess(w)
    <2>1. /\ pc[w] \in Calling /\ w \notin fallback /\ redisUp
          /\ Goto(w, IF Closed THEN "idle" ELSE "resetting")
          /\ UNCHANGED <<redisVars, redisUp, now, fallback, since>>
      BY <1>1 DEF ExitSuccess
    <2>2. Closed <=> ~(Pool!Tripped \/ state = "HALF_OPEN")
      BY PoolConditions DEF Recovering
    <2>3. /\ Told[w] = "inside"
          /\ Pool!Tell(w, IF Pool!Tripped \/ state = "HALF_OPEN" THEN "succeeded" ELSE "out")
      BY <2>1, <2>2
    <2>4. Pool!Succeed(w)
      BY <2>1, <2>3 DEF Pool!Succeed
    <2> QED BY <2>4 DEF Pool!Next
  <1>2. CASE ExitReset(w)
    <2>1. /\ pc[w] = "resetting" /\ redisUp /\ ScriptReset /\ Goto(w, "idle")
          /\ UNCHANGED <<redisUp, now, fallback, since>>
      BY <1>2 DEF ExitReset
    <2>2. Told[w] = "succeeded" /\ Pool!Tell(w, "out") /\ Pool!Clears
      BY <2>1
    <2>3. Pool!Clear(w)
      BY <2>1, <2>2 DEF Pool!Clear
    <2> QED BY <2>3 DEF Pool!Next
  <1>3. CASE ExitRecordFailure(w)
    <2>1. /\ pc[w] = "failing" /\ redisUp /\ ScriptRecordFailure(since[w]) /\ Goto(w, "recorded")
          /\ UNCHANGED <<redisUp, now, fallback, since>>
      BY <1>3 DEF ExitRecordFailure
    <2>2. Told[w] = "failed" /\ Pool!Tell(w, "out")
      BY <2>1
    <2>3. Pool!Record(w)
      BY <2>1, <2>2, RecordMeans DEF Pool!Record
    <2> QED BY <2>3 DEF Pool!Next
  <1>4. CASE ExitReadState(w)
    <2>1. /\ pc[w] = "recorded" /\ Goto(w, "idle")
          /\ UNCHANGED <<redisVars, redisUp, now, fallback, since>>
      BY <1>4 DEF ExitReadState
    <2>2. Pool!Tell(w, "out") /\ Told[w] = "out"
      BY <2>1
    <2>3. Told' = Told
      BY <2>2 DEF Pool!Tell, Told
    <2> QED BY <2>1, <2>3 DEF Pool!vars
  <1>5. CASE ExitFallback(w)
    <2>1. /\ pc[w] \in Calling /\ w \in fallback /\ Goto(w, "idle")
          /\ UNCHANGED <<redisVars, redisUp, now, fallback, since>>
      BY <1>5 DEF ExitFallback
    <2>2. Told[w] = "inside" /\ Pool!Tell(w, "out")
      BY <2>1
    <2>3. Pool!Leave(w)
      BY <2>1, <2>2 DEF Pool!Leave
    <2> QED BY <2>3 DEF Pool!Next
  <1> QED BY <1>1, <1>2, <1>3, <1>4, <1>5 DEF Exit

(* A lost answer leaves the script done: as if the answer had come, but for a  *)
(* worker that waits to be told.                                               *)
LEMMA LossKeepsPool ==
  ASSUME IInv, NEW w \in Worker, ReplyLost(w)
  PROVE  Pool!Next \/ UNCHANGED Pool!vars
  <1> USE ToldPlaces, HashAlone, Tells DEF Pool!storeVars
  <1>1. /\ redisUp /\ Goto(w, "redis_error") /\ UNCHANGED <<redisUp, now, fallback, since>>
        /\ pc[w] \in Pending
    BY DEF ReplyLost
  <1>2. Pool!Tell(w, "out") /\ Told[w] = ToldAt(pc[w])
    BY <1>1
  <1>3. CASE pc[w] = "opening"
    <2>1. PICK stamp \in since[w] .. now : ScriptTryHalfOpen(stamp)
      BY <1>3 DEF ReplyLost
    <2>2. /\ failureCount' = failureCount /\ OpenStamp' = OpenStamp
          /\ \/ (state = "HALF_OPEN")' = TRUE /\ ~Pool!BlockedAt(now)
             \/ (state = "HALF_OPEN")' = (state = "HALF_OPEN")
      BY <1>3, <2>1, HalfOpenMeans
    <2>3. Pool!GiveUp(w)
      BY <1>1, <1>2, <1>3, <2>2 DEF Pool!GiveUp
    <2> QED BY <2>3 DEF Pool!Next
  <1>4. CASE pc[w] = "failing"
    <2>1. ScriptRecordFailure(since[w])
      BY <1>4 DEF ReplyLost
    <2>2. Pool!Record(w)
      BY <1>1, <1>2, <1>4, <2>1, RecordMeans DEF Pool!Record
    <2> QED BY <2>2 DEF Pool!Next
  <1>5. CASE pc[w] = "resetting"
    <2>1. ScriptReset
      BY <1>5 DEF ReplyLost
    <2>2. Pool!Clear(w)
      BY <1>1, <1>2, <1>5, <2>1 DEF Pool!Clear
    <2> QED BY <2>2 DEF Pool!Next
  <1>6. CASE pc[w] = "refusing"
    <2>1. UNCHANGED redisVars
      BY <1>6 DEF ReplyLost
    <2>2. Pool!GiveUp(w)
      BY <1>1, <1>2, <1>6, <2>1 DEF Pool!GiveUp
    <2> QED BY <2>2 DEF Pool!Next
  <1>7. CASE pc[w] = "recorded"
    <2>1. UNCHANGED redisVars
      BY <1>7 DEF ReplyLost
    <2>2. Pool!Tell(w, "out") /\ Told[w] = "out"
      BY <1>2, <1>7
    <2>3. Told' = Told
      BY <2>2 DEF Pool!Tell, Told
    <2> QED BY <1>1, <2>1, <2>3 DEF Pool!vars
  <1> QED BY <1>1, <1>3, <1>4, <1>5, <1>6, <1>7 DEF Pending

LEMMA OtherKeepsPool ==
  ASSUME IInv, NEW w \in Worker,
         Construct(w) \/ RedisError(w) \/ ExitFailure(w) \/ Crash(w) \/ Reset(w)
  PROVE  Pool!Next \/ UNCHANGED Pool!vars
  <1> USE ToldPlaces, HashAlone, Tells DEF Pool!storeVars, Uses
  <1>1. CASE Construct(w)
    <2>1. /\ pc[w] = "new" /\ Goto(w, "idle")
          /\ fallback' = IF redisUp THEN fallback \ {w} ELSE fallback \cup {w}
          /\ UNCHANGED <<redisVars, redisUp, now, since>>
      BY <1>1 DEF Construct
    <2>2. Pool!Tell(w, "out") /\ Told[w] = "out"
      BY <2>1
    <2>3. Told' = Told
      BY <2>2 DEF Pool!Tell, Told
    <2>4. Pool!Start(w)
      BY <2>1, <2>2, <2>3 DEF Pool!Start
    <2> QED BY <2>4 DEF Pool!Next
  <1>2. CASE RedisError(w)
    <2>1. /\ ~redisUp /\ Goto(w, "redis_error")
          /\ UNCHANGED <<redisVars, redisUp, now, fallback, since>>
      BY <1>2 DEF RedisError
    <2>2. Pool!Tell(w, "out")
      BY <2>1
    <2>3. Pool!GiveUp(w)
      BY <2>1, <2>2 DEF Pool!GiveUp
    <2> QED BY <2>3 DEF Pool!Next
  <1>3. CASE ExitFailure(w)
    <2>1. /\ pc[w] \in Calling /\ w \notin fallback /\ Goto(w, "failing")
          /\ since' = [since EXCEPT ![w] = now]
          /\ UNCHANGED <<redisVars, redisUp, now, fallback>>
      BY <1>3 DEF ExitFailure
    <2>2. Told[w] = "inside" /\ Pool!Tell(w, "failed")
      BY <2>1
    <2>3. Pool!Fail(w)
      BY <2>1, <2>2 DEF Pool!Fail
    <2> QED BY <2>3 DEF Pool!Next
  <1>4. CASE Crash(w)
    <2>1. /\ Goto(w, "new") /\ fallback' = fallback \ {w} /\ since' = [since EXCEPT ![w] = 0]
          /\ UNCHANGED <<redisVars, redisUp, now>>
      BY <1>4 DEF Crash
    <2>2. Pool!Tell(w, "out")
      BY <2>1
    <2>3. Pool!Replace(w)
      BY <2>1, <2>2 DEF Pool!Replace
    <2> QED BY <2>3 DEF Pool!Next
  <1>5. CASE Reset(w)
    <2>1. /\ pc[w] \in Ready /\ w \notin fallback /\ redisUp /\ ScriptReset
          /\ UNCHANGED <<redisUp, now, fallback, pc, since>>
      BY <1>5 DEF Reset, workerVars
    <2>2. Told' = Told /\ Told[w] = ToldAt(pc[w])
      BY <2>1 DEF Told
    <2>3. Told[w] \in Pool!Outside
      BY <2>1, <2>2 DEF Ready, Pool!Outside
    <2>4. Pool!Reset(w)
      BY <2>1, <2>2, <2>3 DEF Pool!Reset
    <2> QED BY <2>4 DEF Pool!Next
  <1> QED BY <1>1, <1>2, <1>3, <1>4, <1>5

(* Each round trip is a step of the contract, or nothing to it.                *)
LEMMA StepKeepsPool == IInv /\ [Next]_vars => [Pool!Next]_(Pool!vars)
  <1> SUFFICES ASSUME IInv, [Next]_vars PROVE Pool!Next \/ UNCHANGED Pool!vars
    OBVIOUS
  <1> USE HashAlone DEF workerVars
  <1>1. ASSUME NEW w \in Worker, Step(w) \/ Fault(w) PROVE Pool!Next \/ UNCHANGED Pool!vars
    BY <1>1, EnterKeepsPool, ExitKeepsPool, LossKeepsPool, OtherKeepsPool DEF Step, Fault
  <1>2. CASE RedisDown
    <2>1. Told' = Told /\ Pool!Down
      BY <1>2 DEF RedisDown, Told, Pool!Down
    <2> QED BY <2>1 DEF Pool!Next
  <1>3. CASE RedisBack
    <2>1. Told' = Told
      BY <1>3 DEF RedisBack, Told
    <2>2. Pool!Back
      BY <1>3, <2>1 DEF RedisBack, Pool!Back
    <2> QED BY <2>2 DEF Pool!Next
  <1>4. CASE Vanish
    <2>1. Told' = Told /\ Pool!Forget
      BY <1>4 DEF Vanish, Told, Pool!Forget
    <2> QED BY <2>1 DEF Pool!Next
  <1>5. CASE Tick
    <2>1. Told' = Told /\ Pool!Tick
      BY <1>5 DEF Tick, Told, Pool!Tick, Pool!storeVars
    <2> QED BY <2>1 DEF Pool!Next
  <1>6. CASE UNCHANGED vars
    <2>1. Told' = Told
      BY <1>6 DEF vars, Told
    <2> QED BY <1>6, <2>1 DEF vars, Pool!vars
  <1> QED BY <1>1, <1>2, <1>3, <1>4, <1>5, <1>6 DEF Next

LEMMA InitKeepsPool == Init => Pool!Init
  <1> SUFFICES ASSUME Init PROVE Pool!Init
    OBVIOUS
  <1>1. IInv
    BY InitEstablishes
  <1>2. Recovering => ~Pool!BlockedAt(now)
    BY <1>1, PoolConditions
  <1>3. OpenStamp \in 0 .. now /\ now = RecoveryTimeout
    BY RedisAssumption DEF Init, OpenStamp
  <1>4. Told = [w \in Worker |-> "out"]
    BY ToldPlaces DEF Init, Told
  <1>5. (state = "HALF_OPEN") \in BOOLEAN
    OBVIOUS
  <1> QED BY <1>2, <1>3, <1>4, <1>5 DEF Init, Recovering, Pool!Init

(* The shared breaker keeps its contract, for any number of workers and any    *)
(* interleaving of round trips, outages, evictions, lost answers and kills.    *)
THEOREM PoolImplemented == Spec => ImplementsPool
  <1> QED BY InitKeepsPool, StepKeepsPool, Invariance, PTL
          DEF Spec, Pool!Spec, ImplementsPool
=============================================================================
