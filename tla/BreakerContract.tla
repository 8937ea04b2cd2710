-------------------------- MODULE BreakerContract --------------------------
(* What a circuit breaker promises its callers, with no mention of the states  *)
(* CLOSED, OPEN and HALF_OPEN: a streak of failures as long as the threshold    *)
(* blocks every call for a full recovery period counted from the LAST failure   *)
(* of the streak, and nothing but a success (or a reset) ends the streak.       *)
(* Written from the promises in src/client/base_client.py and PORTFOLIO.md; the *)
(* implementations are shown to refine it, it models no code itself.            *)
EXTENDS Integers

CONSTANTS Thread, Threshold, RecoveryTimeout, MaxTime

VARIABLES
    streak,     \* failures recorded since the last success or reset
    restSince,  \* time of the last failure that left the streak at the threshold
    now,        \* a clock that only moves forward
    call        \* what each thread was told: may it call the upstream?

vars == <<streak, restSince, now, call>>

Tripped == streak >= Threshold

Blocked == Tripped /\ now - restSince < RecoveryTimeout

Init == /\ streak = 0
        /\ restSince = 0
        /\ now = 0
        /\ call = [t \in Thread |-> "idle"]

Admit(t) == /\ call[t] # "inside"
            /\ ~Blocked
            /\ call' = [call EXCEPT ![t] = "inside"]
            /\ UNCHANGED <<streak, restSince, now>>

Refuse(t) == /\ call[t] # "inside"
             /\ Blocked
             /\ call' = [call EXCEPT ![t] = "refused"]
             /\ UNCHANGED <<streak, restSince, now>>

Succeed(t) == /\ call[t] = "inside"
              /\ streak' = 0
              /\ call' = [call EXCEPT ![t] = "idle"]
              /\ UNCHANGED <<restSince, now>>

Fail(t) == /\ call[t] = "inside"
           /\ streak' = streak + 1
           /\ restSince' = IF streak' >= Threshold THEN now ELSE restSince
           /\ call' = [call EXCEPT ![t] = "idle"]
           /\ UNCHANGED now

Reset == /\ streak' = 0
         /\ UNCHANGED <<restSince, now, call>>

Tick == /\ now < MaxTime
        /\ now' = now + 1
        /\ UNCHANGED <<streak, restSince, call>>

Next == \/ \E t \in Thread : Admit(t) \/ Refuse(t) \/ Succeed(t) \/ Fail(t)
        \/ Reset
        \/ Tick

Spec == Init /\ [][Next]_vars
=============================================================================
