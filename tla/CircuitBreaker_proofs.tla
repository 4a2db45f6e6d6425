------------------------ MODULE CircuitBreaker_proofs ------------------------
(***************************************************************************)
(* The circuit breaker's safety properties, for any set of concurrent      *)
(* calls, any thresholds and any limit.  BreakerInv is inductive: the      *)
(* counters are bounded because every step that would carry one past its   *)
(* threshold changes the state instead, and the state changes reset them.  *)
(***************************************************************************)
EXTENDS CircuitBreaker, FiniteSetTheorems, TLAPS

BreakerInv == TypeOK /\ ActiveCallsAgree /\ CountersInBounds
-----------------------------------------------------------------------------
(* The calls in flight.                                                    *)

\* Only finitely many calls are in flight, so counting them makes sense.
LEMMA ActiveFinite ==
  /\ IsFiniteSet(Active)
  /\ Cardinality(Active) \in Nat
<1>1. Active \subseteq Calls
  BY DEF Active
<1>2. IsFiniteSet(Calls)
  BY CircuitAssumption
<1>3. IsFiniteSet(Active)
  BY <1>1, <1>2, FS_Subset, Zenon
<1> QED
  BY <1>3, FS_CardinalityType, Zenon

\* A call that is admitted adds itself to the calls in flight.
LEMMA EnterActive ==
  ASSUME NEW c \in Calls, TypeOK, pc[c] = "idle",
         pc' = [pc EXCEPT ![c] = "running"]
  PROVE  Cardinality(Active') = Cardinality(Active) + 1
<1>1. Active' = Active \cup {c} /\ c \notin Active
  BY DEF TypeOK, Active
<1> QED
  BY <1>1, ActiveFinite, FS_AddElement, Zenon

\* A call that leaves removes itself from them.
LEMMA LeaveActive ==
  ASSUME NEW c \in Calls, TypeOK, pc[c] = "leaving",
         pc' = [pc EXCEPT ![c] = "idle"]
  PROVE  Cardinality(Active') = Cardinality(Active) - 1
<1>1. Active' = Active \ {c} /\ c \in Active
  BY DEF TypeOK, Active
<1> QED
  BY <1>1, ActiveFinite, FS_RemoveElement, Zenon

\* A verdict leaves a call in flight until the deferred function runs.
LEMMA VerdictKeepsActive ==
  ASSUME NEW c \in Calls, TypeOK, pc[c] = "running",
         pc' = [pc EXCEPT ![c] = "leaving"]
  PROVE  Active' = Active
BY DEF TypeOK, Active
-----------------------------------------------------------------------------
(* The counters.                                                           *)

\* What the counters and the state have to do with each other.
Counters ==
  /\ state \in CircuitState
  /\ failureCount \in Nat
  /\ halfOpenSuccesses \in Nat
  /\ expired \in BOOLEAN
  /\ CountersInBounds

\* Entering any state but CLOSED from a state other than HALF_OPEN, or CLOSED
\* from anywhere, leaves the counters in the bounds of the new state.
LEMMA ToStateKeepsCounters ==
  ASSUME Counters, NEW new \in CircuitState,
         new = "HALF_OPEN" => state = "OPEN",
         ToState(new)
  PROVE  Counters'
<1>1. new = "CLOSED" \/ new = "OPEN" \/ new = "HALF_OPEN"
  BY DEF CircuitState
<1>2. FailureThreshold > 0 /\ HalfOpenSuccessThreshold > 0
  BY CircuitAssumption
<1>3. state' = new /\ expired' = FALSE
  BY DEF ToState
<1>4. CASE new = "CLOSED"
  <2>1. failureCount' = 0 /\ halfOpenSuccesses' = 0
    BY <1>4 DEF ToState
  <2> QED
    BY <1>2, <1>3, <1>4, <2>1 DEF Counters, CountersInBounds, CircuitState
<1>5. CASE new = "OPEN"
  <2>1. failureCount' = 0 /\ halfOpenSuccesses' = halfOpenSuccesses
    BY <1>5 DEF ToState
  <2> QED
    BY <1>2, <1>3, <1>5, <2>1 DEF Counters, CountersInBounds, CircuitState
<1>6. CASE new = "HALF_OPEN"
  <2>1. failureCount' = failureCount /\ halfOpenSuccesses' = 0
    BY <1>6 DEF ToState
  <2> QED
    BY <1>2, <1>3, <1>6, <2>1 DEF Counters, CountersInBounds, CircuitState
<1> QED
  BY <1>1, <1>4, <1>5, <1>6

\* A success, whenever its verdict comes.
LEMMA CountSuccessKeepsCounters ==
  ASSUME Counters, CountSuccess
  PROVE  Counters'
<1>1. CASE state = "CLOSED" /\ failureCount' = 0
           /\ UNCHANGED <<state, expired, halfOpenSuccesses>>
  BY <1>1, CircuitAssumption DEF Counters, CountersInBounds
<1>2. CASE /\ state = "HALF_OPEN"
           /\ halfOpenSuccesses + 1 < HalfOpenSuccessThreshold
           /\ halfOpenSuccesses' = halfOpenSuccesses + 1
           /\ UNCHANGED <<state, expired, failureCount>>
  BY <1>2, CircuitAssumption DEF Counters, CountersInBounds
<1>3. CASE ToState("CLOSED")
  BY <1>3, ToStateKeepsCounters DEF CircuitState
<1>4. CASE SameState
  BY <1>4 DEF SameState, Counters, CountersInBounds
<1> QED
  BY <1>1, <1>2, <1>3, <1>4 DEF CountSuccess

\* A failure, whenever its verdict comes.
LEMMA CountFailureKeepsCounters ==
  ASSUME Counters, CountFailure
  PROVE  Counters'
<1>1. CASE /\ state = "CLOSED"
           /\ failureCount + 1 < FailureThreshold
           /\ failureCount' = failureCount + 1
           /\ UNCHANGED <<state, expired, halfOpenSuccesses>>
  BY <1>1, CircuitAssumption DEF Counters, CountersInBounds
<1>2. CASE ToState("OPEN")
  BY <1>2, ToStateKeepsCounters DEF CircuitState
<1>3. CASE SameState
  BY <1>3 DEF SameState, Counters, CountersInBounds
<1> QED
  BY <1>1, <1>2, <1>3 DEF CountFailure
-----------------------------------------------------------------------------
(* The invariant.                                                          *)

LEMMA InitEstablishesBreakerInv == Init => BreakerInv
<1> SUFFICES ASSUME Init PROVE BreakerInv
  OBVIOUS
<1>1. TypeOK
  BY DEF Init, TypeOK, CircuitState
<1>2. Active = {}
  BY DEF Init, Active
<1>3. Cardinality(Active) = 0
  BY <1>2, FS_EmptySet
<1>4. ActiveCallsAgree
  BY <1>3, CircuitAssumption DEF Init, ActiveCallsAgree
<1>5. CountersInBounds
  BY CircuitAssumption DEF Init, CountersInBounds
<1> QED
  BY <1>1, <1>4, <1>5 DEF BreakerInv

\* One step per action of Next.
LEMMA StepKeepsBreakerInv == BreakerInv /\ [Next]_vars => BreakerInv'
<1> SUFFICES ASSUME BreakerInv, [Next]_vars PROVE BreakerInv'
  OBVIOUS
<1> USE DEF BreakerInv
<1>0. Counters
  BY DEF TypeOK, Counters
<1>1. ASSUME NEW c \in Calls, Admit(c) PROVE BreakerInv'
  <2>1. Counters'
    <3>1. CASE SameState
      BY <1>0, <3>1 DEF SameState, Counters, CountersInBounds
    <3>2. CASE OpensHalf /\ ToState("HALF_OPEN")
      BY <1>0, <3>2, ToStateKeepsCounters DEF OpensHalf, CircuitState
    <3> QED
      BY <1>1, <3>1, <3>2 DEF Admit
  <2>2. Cardinality(Active') = Cardinality(Active) + 1
    BY <1>1, EnterActive DEF Admit
  <2>3. activeCalls' = activeCalls + 1 /\ HasRoom
    BY <1>1 DEF Admit
  <2>4. ActiveCallsAgree'
    BY <2>2, <2>3, CircuitAssumption DEF ActiveCallsAgree, HasRoom, TypeOK
  <2>5. TypeOK'
    BY <1>1, <2>1, <2>3 DEF Counters, TypeOK, Admit
  <2> QED
    BY <2>1, <2>4, <2>5 DEF Counters
<1>2. ASSUME NEW c \in Calls, RejectHalfOpening(c) PROVE BreakerInv'
  <2>1. Counters'
    BY <1>0, <1>2, ToStateKeepsCounters DEF RejectHalfOpening, OpensHalf, CircuitState
  <2>2. TypeOK' /\ ActiveCallsAgree'
    BY <1>2, <2>1 DEF RejectHalfOpening, Counters, TypeOK, ActiveCallsAgree, Active
  <2> QED
    BY <2>1, <2>2 DEF Counters
<1>3. ASSUME NEW c \in Calls, Succeed(c) PROVE BreakerInv'
  <2>1. Counters'
    BY <1>0, <1>3, CountSuccessKeepsCounters DEF Succeed
  <2>2. Active' = Active
    BY <1>3, VerdictKeepsActive DEF Succeed
  <2>3. TypeOK' /\ ActiveCallsAgree'
    BY <1>3, <2>1, <2>2 DEF Succeed, Counters, TypeOK, ActiveCallsAgree
  <2> QED
    BY <2>1, <2>3 DEF Counters
<1>4. ASSUME NEW c \in Calls, Fail(c) PROVE BreakerInv'
  <2>1. Counters'
    BY <1>0, <1>4, CountFailureKeepsCounters DEF Fail
  <2>2. Active' = Active
    BY <1>4, VerdictKeepsActive DEF Fail
  <2>3. TypeOK' /\ ActiveCallsAgree'
    BY <1>4, <2>1, <2>2 DEF Fail, Counters, TypeOK, ActiveCallsAgree
  <2> QED
    BY <2>1, <2>3 DEF Counters
<1>5. ASSUME NEW c \in Calls, TimeOut(c) PROVE BreakerInv'
  <2>1. Counters'
    BY <1>0, <1>5, CountFailureKeepsCounters DEF TimeOut
  <2>2. Active' = Active
    BY <1>5, VerdictKeepsActive DEF TimeOut
  <2>3. TypeOK' /\ ActiveCallsAgree'
    BY <1>5, <2>1, <2>2 DEF TimeOut, Counters, TypeOK, ActiveCallsAgree
  <2> QED
    BY <2>1, <2>3 DEF Counters
<1>6. ASSUME NEW c \in Calls, Leave(c) PROVE BreakerInv'
  <2>1. Cardinality(Active') = Cardinality(Active) - 1
    BY <1>6, LeaveActive DEF Leave
  <2>2. activeCalls' = activeCalls - 1
    BY <1>6 DEF Leave
  <2>3. pc' \in [Calls -> {"idle", "running", "leaving"}]
    BY <1>6 DEF Leave, TypeOK
  <2>4. IsFiniteSet(Active') /\ Cardinality(Active') \in Nat
    <3>1. Active' \subseteq Calls
      BY DEF Active
    <3>2. IsFiniteSet(Active')
      BY <3>1, CircuitAssumption, FS_Subset, Zenon
    <3> QED
      BY <3>2, FS_CardinalityType, Zenon
  <2>5. activeCalls' = Cardinality(Active')
    BY <2>1, <2>2 DEF ActiveCallsAgree
  <2>6. ActiveCallsAgree'
    BY <2>2, <2>5, CircuitAssumption DEF ActiveCallsAgree, TypeOK
  <2>7. TypeOK'
    BY <1>6, <2>3, <2>4, <2>5 DEF Leave, TypeOK
  <2>8. CountersInBounds'
    BY <1>6 DEF Leave, CountersInBounds
  <2> QED
    BY <2>6, <2>7, <2>8
<1>7. ASSUME NEW c \in Calls, FunctionReturns(c) PROVE BreakerInv'
  BY <1>7 DEF FunctionReturns, TypeOK, ActiveCallsAgree, Active, CountersInBounds
<1>8. CASE Reset
  <2>1. Counters'
    <3>1. FailureThreshold > 0
      BY CircuitAssumption
    <3> QED
      BY <1>8, <3>1 DEF Reset, Counters, CountersInBounds, CircuitState
  <2>2. TypeOK' /\ ActiveCallsAgree'
    BY <1>8, <2>1 DEF Reset, Counters, TypeOK, ActiveCallsAgree, Active
  <2> QED
    BY <2>1, <2>2 DEF Counters
<1>9. CASE Expire
  BY <1>9 DEF Expire, TypeOK, ActiveCallsAgree, Active, CountersInBounds
<1>10. CASE Recover
  BY <1>10 DEF Recover, TypeOK, ActiveCallsAgree, Active, CountersInBounds
<1>11. CASE UNCHANGED vars
  BY <1>11 DEF vars, TypeOK, ActiveCallsAgree, Active, CountersInBounds
<1> QED
  BY <1>1, <1>2, <1>3, <1>4, <1>5, <1>6, <1>7, <1>8, <1>9, <1>10, <1>11
     DEF Next, Execute, Return

\* Every reachable state of the breaker satisfies the invariant.
THEOREM BreakerConsistent == Spec => []BreakerInv
BY InitEstablishesBreakerInv, StepKeepsBreakerInv, PTL DEF Spec

\* Every variable has its type.
THEOREM BreakerTypeCorrect == Spec => []TypeOK
<1>1. BreakerInv => TypeOK
  BY DEF BreakerInv
<1> QED
  BY <1>1, BreakerConsistent, PTL

\* activeCalls counts the calls in flight and respects the limit.
THEOREM ActiveCallsCounted == Spec => []ActiveCallsAgree
<1>1. BreakerInv => ActiveCallsAgree
  BY DEF BreakerInv
<1> QED
  BY <1>1, BreakerConsistent, PTL

\* No counter passes its threshold or outlives the state it belongs to.
THEOREM CountersBounded == Spec => []CountersInBounds
<1>1. BreakerInv => CountersInBounds
  BY DEF BreakerInv
<1> QED
  BY <1>1, BreakerConsistent, PTL

\* Late verdicts do not take an open breaker out of its state: only the
\* passing of ResetTimeout, to HALF_OPEN, or a reset does.
THEOREM OpenUntilExpired == Spec => StaysOpen
<1>1. BreakerInv /\ [Next]_vars =>
        [state = "OPEN" /\ state' # "OPEN"
           => (expired /\ state' = "HALF_OPEN") \/ Reset]_vars
  <2> SUFFICES ASSUME [Next]_vars, state = "OPEN", state' # "OPEN", ~Reset
               PROVE  expired /\ state' = "HALF_OPEN"
    OBVIOUS
  <2>1. ASSUME NEW c \in Calls, Execute(c) PROVE expired /\ state' = "HALF_OPEN"
    BY <2>1 DEF Execute, Admit, RejectHalfOpening, OpensHalf, SameState, ToState
  <2>2. ASSUME NEW c \in Calls, Return(c) PROVE FALSE
    BY <2>2 DEF Return, Succeed, Fail, TimeOut, Leave, FunctionReturns,
                CountSuccess, CountFailure, SameState
  <2>3. ~Expire /\ ~Recover /\ ~UNCHANGED vars
    BY DEF Expire, Recover, vars
  <2> QED
    BY <2>1, <2>2, <2>3 DEF Next
<1> QED
  BY <1>1, BreakerConsistent, PTL DEF Spec, StaysOpen
=============================================================================
