---------------------------- MODULE PoolContract ----------------------------
(* What the shared circuit breaker promises a pool of workers, with no mention  *)
(* of a hash, its fields or round trips: one streak of failures for the whole   *)
(* pool, as BreakerContract has one for a process, with what distribution takes *)
(* away from it.  A refusal may rest on the time at     *)
(* which the worker asked; a failure counts, and a success clears, when it      *)
(* arrives and not when it happens; the streak is forgotten with the store; and *)
(* a worker that found no store at its start is neither blocked nor counted.    *)
(* Written from the docstrings of src/utils/circuit_breaker_redis.py;           *)
(* RedisBreaker is shown to refine it, it models no code itself.                *)
EXTENDS Integers

CONSTANTS Worker, Threshold, RecoveryTimeout, MaxTime

VARIABLES
    streak,     \* failures recorded since the last success, reset or loss
    restSince,  \* when the failure happened that last left the streak at the threshold
    recovering, \* a worker that had asked in vain got in, and nothing came of it yet
    now,        \* a clock that only moves forward
    up,         \* the store answers
    unplugged,  \* the workers that found no store when they started
    call,       \* what each worker was told, and what it has yet to tell
    asked       \* when it last asked in vain, or failed

vars == <<streak, restSince, recovering, now, up, unplugged, call, asked>>
storeVars == <<streak, restSince, recovering, up>>

Outside == {"out", "refused"}

Tripped == streak >= Threshold

BlockedAt(time) == Tripped /\ time - restSince < RecoveryTimeout

Tell(w, how) == call' = [call EXCEPT ![w] = how]

Clears == streak' = 0 /\ restSince' = 0 /\ recovering' = FALSE

Init == /\ now = RecoveryTimeout
        /\ streak \in 0 .. Threshold
        /\ restSince \in 0 .. now
        /\ recovering \in BOOLEAN
        /\ recovering => ~BlockedAt(now)
        /\ up = TRUE
        /\ unplugged = {}
        /\ call = [w \in Worker |-> "out"]
        /\ asked = [w \in Worker |-> 0]

Start(w) == /\ call[w] = "out"
            /\ unplugged' = IF up THEN unplugged \ {w} ELSE unplugged \cup {w}
            /\ UNCHANGED <<storeVars, now, call, asked>>

(* Nobody gets in while the circuit is blocked, whenever it asked.             *)
Admit(w) == /\ call[w] \in Outside
            /\ \/ w \in unplugged
               \/ up /\ ~BlockedAt(now) /\ (Tripped => recovering)
            /\ Tell(w, "inside")
            /\ UNCHANGED <<storeVars, now, unplugged, asked>>

Ask(w) == /\ call[w] \in Outside
          /\ w \notin unplugged /\ up
          /\ Tripped /\ ~recovering
          /\ Tell(w, "waiting")
          /\ asked' = [asked EXCEPT ![w] = now]
          /\ UNCHANGED <<storeVars, now, unplugged>>

Probe(w) == /\ call[w] = "waiting" /\ up
            /\ ~BlockedAt(now)
            /\ recovering' = TRUE
            /\ Tell(w, "inside")
            /\ UNCHANGED <<streak, restSince, up, now, unplugged, asked>>

(* Nobody is refused unless the failures that stand blocked it when it asked.  *)
Refuse(w) == /\ call[w] = "waiting" /\ up
             /\ BlockedAt(asked[w])
             /\ Tell(w, "refused")
             /\ UNCHANGED <<storeVars, now, unplugged, asked>>

(* A success ends a streak at the threshold, or a recovery, and no other.      *)
Succeed(w) == /\ call[w] = "inside" /\ w \notin unplugged /\ up
              /\ Tell(w, IF Tripped \/ recovering THEN "succeeded" ELSE "out")
              /\ UNCHANGED <<storeVars, now, unplugged, asked>>

Clear(w) == /\ call[w] = "succeeded" /\ up
            /\ Clears
            /\ Tell(w, "out")
            /\ UNCHANGED <<up, now, unplugged, asked>>

Fail(w) == /\ call[w] = "inside" /\ w \notin unplugged
           /\ Tell(w, "failed")
           /\ asked' = [asked EXCEPT ![w] = now]
           /\ UNCHANGED <<storeVars, now, unplugged>>

Record(w) == /\ call[w] = "failed" /\ up
             /\ streak' = streak + 1
             /\ IF streak' >= Threshold
                THEN restSince' = asked[w] /\ recovering' = FALSE
                ELSE UNCHANGED <<restSince, recovering>>
             /\ Tell(w, "out")
             /\ UNCHANGED <<up, now, unplugged, asked>>

(* Without a store nothing is reported.                                        *)
Leave(w) == /\ call[w] = "inside" /\ w \in unplugged
            /\ Tell(w, "out")
            /\ UNCHANGED <<storeVars, now, unplugged, asked>>

(* An answer may be lost, that of a probe too; no report is dropped while the  *)
(* store is up.                                                                *)
GiveUp(w) == /\ up => call[w] \in {"waiting", "refused"}
             /\ Tell(w, "out")
             /\ \/ UNCHANGED recovering
                \/ call[w] = "waiting" /\ up /\ ~BlockedAt(now) /\ recovering' = TRUE
             /\ UNCHANGED <<streak, restSince, up, now, unplugged, asked>>

Reset(w) == /\ call[w] \in Outside /\ w \notin unplugged /\ up
            /\ Clears
            /\ UNCHANGED <<up, now, unplugged, call, asked>>

Replace(w) == /\ Tell(w, "out")
              /\ unplugged' = unplugged \ {w}
              /\ asked' = [asked EXCEPT ![w] = 0]
              /\ UNCHANGED <<storeVars, now>>

Down == /\ up
        /\ up' = FALSE
        /\ UNCHANGED <<streak, restSince, recovering, now, unplugged, call, asked>>

Back == /\ ~up
        /\ up' = TRUE
        /\ Clears \/ UNCHANGED <<streak, restSince, recovering>>
        /\ UNCHANGED <<now, unplugged, call, asked>>

Forget == /\ Clears
          /\ UNCHANGED <<up, now, unplugged, call, asked>>

Tick == /\ now < MaxTime
        /\ now' = now + 1
        /\ UNCHANGED <<storeVars, unplugged, call, asked>>

Next == \/ \E w \in Worker : \/ Start(w) \/ Replace(w)
                             \/ Admit(w) \/ Ask(w) \/ Probe(w) \/ Refuse(w)
                             \/ Succeed(w) \/ Clear(w) \/ Fail(w) \/ Record(w)
                             \/ Leave(w) \/ GiveUp(w) \/ Reset(w)
        \/ Down \/ Back \/ Forget \/ Tick

Spec == Init /\ [][Next]_vars
=============================================================================
