----------------------- MODULE InMemoryBreaker_proof -----------------------
(* Proofs, for any set of threads, any threshold and any recovery period, of   *)
(* what InMemoryBreaker.tla states.  The invariants are inductive only         *)
(* together: that a failure in HALF_OPEN may not open the circuit early needs  *)
(* StateAgreesWithCount, and the refinement needs that and HalfOpenIsRested.   *)
EXTENDS InMemoryBreaker, TLAPS

IInv == TypeOK /\ StateAgreesWithCount /\ HalfOpenIsRested

LEMMA InitEstablishes == Init => IInv
  BY BreakerAssumption
     DEF Init, IInv, TypeOK, StateAgreesWithCount, HalfOpenIsRested, CircuitState

(* The inductive step: one case per operation of the breaker.                  *)
LEMMA StepPreserves == IInv /\ [Next]_breakerVars => IInv'
  <1> SUFFICES ASSUME IInv, [Next]_breakerVars PROVE IInv'
    OBVIOUS
  <1> USE BreakerAssumption
          DEF IInv, TypeOK, StateAgreesWithCount, HalfOpenIsRested, CircuitState, Rested
  <1>1. ASSUME NEW t \in Thread, Enter(t) PROVE IInv'
    <2>1. CASE EnterProbe(t)
      BY <2>1 DEF EnterProbe
    <2>2. CASE EnterRefused(t)
      BY <2>2 DEF EnterRefused
    <2>3. CASE EnterFreely(t)
      BY <2>3 DEF EnterFreely
    <2> QED BY <1>1, <2>1, <2>2, <2>3 DEF Enter
  <1>2. ASSUME NEW t \in Thread, OnSuccess(t) PROVE IInv'
    BY <1>2 DEF OnSuccess
  <1>3. ASSUME NEW t \in Thread, OnFailure(t) PROVE IInv'
    <2>1. CASE Trips
      BY <1>3, <2>1 DEF OnFailure, Trips
    <2>2. CASE ~Trips
      BY <1>3, <2>2 DEF OnFailure, Trips
    <2> QED BY <2>1, <2>2
  <1>4. CASE Reset
    BY <1>4 DEF Reset
  <1>5. CASE Tick
    BY <1>5 DEF Tick
  <1>6. CASE UNCHANGED breakerVars
    BY <1>6 DEF breakerVars
  <1> QED BY <1>1, <1>2, <1>3, <1>4, <1>5, <1>6 DEF Next

(* The inductive invariant holds in every reachable state.                     *)
THEOREM Invariance == Spec => []IInv
  BY InitEstablishes, StepPreserves, PTL DEF Spec

(* The breaker's fields keep their types in every execution.                   *)
THEOREM TypeCorrect == Spec => []TypeOK
  BY Invariance, PTL DEF IInv

(* The state and the failure counter, written by different methods under       *)
(* interleaved calls, never disagree.                                          *)
THEOREM CountCorrect == Spec => []StateAgreesWithCount
  BY Invariance, PTL DEF IInv

(* A half-open circuit has seen a whole recovery period without a failure.     *)
THEOREM HalfOpenCorrect == Spec => []HalfOpenIsRested
  BY Invariance, PTL DEF IInv

(* Every step of the breaker, from a state of the invariant, is a step the     *)
(* contract allows.                                                            *)
LEMMA StepImplements == IInv /\ [Next]_breakerVars => [Contract!Next]_(Contract!vars)
  <1> SUFFICES ASSUME IInv, [Next]_breakerVars
               PROVE  Contract!Next \/ UNCHANGED Contract!vars
    OBVIOUS
  <1> USE BreakerAssumption
          DEF IInv, TypeOK, StateAgreesWithCount, HalfOpenIsRested, CircuitState, Rested
  <1>1. ASSUME NEW t \in Thread, Enter(t)
        PROVE  Contract!Admit(t) \/ Contract!Refuse(t)
    <2>1. CASE EnterProbe(t)
      BY <2>1 DEF EnterProbe, Contract!Admit, Contract!Blocked, Contract!Tripped
    <2>2. CASE EnterRefused(t)
      BY <2>2 DEF EnterRefused, Contract!Refuse, Contract!Blocked, Contract!Tripped
    <2>3. CASE EnterFreely(t)
      BY <2>3 DEF EnterFreely, Contract!Admit, Contract!Blocked, Contract!Tripped
    <2> QED BY <1>1, <2>1, <2>2, <2>3 DEF Enter
  <1>2. ASSUME NEW t \in Thread, OnSuccess(t) PROVE Contract!Succeed(t)
    BY <1>2 DEF OnSuccess, Contract!Succeed
  <1>3. ASSUME NEW t \in Thread, OnFailure(t) PROVE Contract!Fail(t)
    <2>1. Trips <=> failureCount + 1 >= Threshold
      BY DEF Trips
    <2> QED BY <1>3, <2>1 DEF OnFailure, Contract!Fail
  <1>4. ASSUME Reset PROVE Contract!Reset
    BY <1>4 DEF Reset, Contract!Reset
  <1>5. ASSUME Tick PROVE Contract!Tick
    BY <1>5 DEF Tick, Contract!Tick
  <1>6. CASE UNCHANGED breakerVars
    BY <1>6 DEF breakerVars, Contract!vars
  <1> QED BY <1>1, <1>2, <1>3, <1>4, <1>5, <1>6 DEF Next, Contract!Next

(* The breaker implements its contract: a caller is refused exactly when       *)
(* Threshold failures stand since the last success and the last of them is     *)
(* less than a recovery period old, however late results arrive.               *)
THEOREM Implementation == Spec => ImplementsContract
  <1>1. Init => Contract!Init
    BY DEF Init, Contract!Init
  <1> QED BY <1>1, StepImplements, Invariance, PTL DEF Spec, Contract!Spec, ImplementsContract
=============================================================================
