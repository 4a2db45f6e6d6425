--------------------------- MODULE CircuitBreaker ---------------------------
(***************************************************************************)
(* internal/utils/circuit.go: the circuit breaker around every call to     *)
(* GitHub (internal/github/api_circuit.go).  Execute has three critical    *)
(* sections under cb.mutex: admission; the verdict, once the function has  *)
(* returned or RequestTimeout has passed; and, later, the decrement of     *)
(* activeCalls in the deferred function.  Calls run concurrently between   *)
(* them, so a verdict may find the breaker in a state other than the one   *)
(* that admitted the call.                                                 *)
(*                                                                         *)
(* Metrics and the notification of state changes are left out.             *)
(***************************************************************************)
EXTENDS Integers, FiniteSets

CONSTANTS
  Calls,                     \* goroutines that call Execute, again and again
  FailureThreshold,
  HalfOpenSuccessThreshold,
  MaxConcurrentRequests,     \* 0 for no limit
  TimeoutsShort              \* whether RequestTimeout is set, below ResetTimeout

ASSUME CircuitAssumption ==
  /\ IsFiniteSet(Calls)
  /\ FailureThreshold \in Nat \ {0}
  /\ HalfOpenSuccessThreshold \in Nat \ {0}
  /\ MaxConcurrentRequests \in Nat
  /\ TimeoutsShort \in BOOLEAN

CircuitState == {"CLOSED", "OPEN", "HALF_OPEN"}

VARIABLES
  state,              \* cb.state
  failureCount,
  halfOpenSuccesses,
  expired,            \* whether ResetTimeout has passed since lastStateChange
  activeCalls,
  pc,                 \* "idle", "running", or "leaving" after the verdict
  lingering,          \* calls that timed out and whose function still runs
  probes,             \* functions under way that a half-open breaker admitted
  healthy,            \* whether GitHub has recovered for good
  mayFail             \* active calls sent before it had

vars == <<state, failureCount, halfOpenSuccesses, expired, activeCalls, pc,
          lingering, probes, healthy, mayFail>>

Init ==
  /\ state = "CLOSED"
  /\ failureCount = 0
  /\ halfOpenSuccesses = 0
  /\ expired = FALSE
  /\ activeCalls = 0
  /\ pc = [c \in Calls |-> "idle"]
  /\ lingering = {}
  /\ probes = {}
  /\ healthy = FALSE
  /\ mayFail = {}
-----------------------------------------------------------------------------
(* The breaker's counters and states.                                      *)

HasRoom == MaxConcurrentRequests = 0 \/ activeCalls < MaxConcurrentRequests

\* Faulty variant: half-open counts on with what an earlier attempt left.
ToStateKeepingSuccesses(new) ==
  /\ state' = new
  /\ expired' = FALSE
  /\ failureCount' = IF new = "HALF_OPEN" THEN failureCount ELSE 0
  /\ halfOpenSuccesses' = halfOpenSuccesses

ToState(new) ==
  /\ state' = new
  /\ expired' = FALSE
  /\ failureCount' = IF new = "HALF_OPEN" THEN failureCount ELSE 0
  /\ halfOpenSuccesses' = IF new = "OPEN" THEN halfOpenSuccesses ELSE 0

SameState == UNCHANGED <<state, expired, failureCount, halfOpenSuccesses>>

\* The timeout opens an open breaker half, whatever calls are active.
OpensHalf == state = "OPEN" /\ expired

\* Faulty variant: a success closes the breaker wherever it is.
CountSuccessWhenOpen ==
  \/ /\ state = "CLOSED"
     /\ failureCount' = 0
     /\ UNCHANGED <<state, expired, halfOpenSuccesses>>
  \/ state # "CLOSED" /\ ToState("CLOSED")

\* The verdict on a call, applied to whatever state the breaker is in now.
CountSuccess ==
  \/ /\ state = "CLOSED"
     /\ failureCount' = 0
     /\ UNCHANGED <<state, expired, halfOpenSuccesses>>
  \/ /\ state = "HALF_OPEN"
     /\ halfOpenSuccesses + 1 < HalfOpenSuccessThreshold
     /\ halfOpenSuccesses' = halfOpenSuccesses + 1
     /\ UNCHANGED <<state, expired, failureCount>>
  \/ /\ state = "HALF_OPEN"
     /\ halfOpenSuccesses + 1 >= HalfOpenSuccessThreshold
     /\ ToState("CLOSED")
  \/ state = "OPEN" /\ SameState

\* Faulty variant: the threshold is compared before the failure is counted.
CountFailureOffByOne ==
  \/ /\ state = "CLOSED"
     /\ failureCount < FailureThreshold
     /\ failureCount' = failureCount + 1
     /\ UNCHANGED <<state, expired, halfOpenSuccesses>>
  \/ /\ state = "CLOSED"
     /\ failureCount >= FailureThreshold
     /\ ToState("OPEN")
  \/ state = "HALF_OPEN" /\ ToState("OPEN")
  \/ state = "OPEN" /\ SameState

CountFailure ==
  \/ /\ state = "CLOSED"
     /\ failureCount + 1 < FailureThreshold
     /\ failureCount' = failureCount + 1
     /\ UNCHANGED <<state, expired, halfOpenSuccesses>>
  \/ /\ state = "CLOSED"
     /\ failureCount + 1 >= FailureThreshold
     /\ ToState("OPEN")
  \/ state = "HALF_OPEN" /\ ToState("OPEN")
  \/ state = "OPEN" /\ SameState
-----------------------------------------------------------------------------
(* Execute.                                                                *)

\* Faulty variant: the call is not counted.
AdmitUncounted(c) ==
  /\ pc[c] = "idle" /\ c \notin lingering
  /\ HasRoom
  /\ \/ state = "CLOSED" /\ SameState
     \/ state = "HALF_OPEN" /\ activeCalls = 0 /\ SameState
     \/ OpensHalf /\ ToState("HALF_OPEN")
  /\ pc' = [pc EXCEPT ![c] = "running"]
  /\ probes' = IF state = "CLOSED" THEN probes ELSE probes \cup {c}
  /\ mayFail' = IF healthy THEN mayFail ELSE mayFail \cup {c}
  /\ UNCHANGED <<activeCalls, lingering, healthy>>

\* The first critical section, when it lets the call through.
Admit(c) ==
  /\ pc[c] = "idle" /\ c \notin lingering
  /\ HasRoom
  /\ \/ state = "CLOSED" /\ SameState
     \/ state = "HALF_OPEN" /\ activeCalls = 0 /\ SameState
     \/ OpensHalf /\ ToState("HALF_OPEN")
  /\ pc' = [pc EXCEPT ![c] = "running"]
  /\ activeCalls' = activeCalls + 1
  /\ probes' = IF state = "CLOSED" THEN probes ELSE probes \cup {c}
  /\ mayFail' = IF healthy THEN mayFail ELSE mayFail \cup {c}
  /\ UNCHANGED <<lingering, healthy>>

\* A rejected call changes the state when the limit is what rejects it; other
\* rejections change nothing.
RejectHalfOpening(c) ==
  /\ pc[c] = "idle" /\ c \notin lingering
  /\ OpensHalf
  /\ ~HasRoom
  /\ ToState("HALF_OPEN")
  /\ UNCHANGED <<activeCalls, pc, lingering, probes, healthy, mayFail>>

Succeed(c) ==
  /\ pc[c] = "running"
  /\ CountSuccess
  /\ pc' = [pc EXCEPT ![c] = "leaving"]
  /\ probes' = probes \ {c}
  /\ UNCHANGED <<activeCalls, lingering, healthy, mayFail>>

\* The function returned an error.
Fail(c) ==
  /\ pc[c] = "running"
  /\ c \in mayFail
  /\ CountFailure
  /\ pc' = [pc EXCEPT ![c] = "leaving"]
  /\ probes' = probes \ {c}
  /\ UNCHANGED <<activeCalls, lingering, healthy, mayFail>>

\* RequestTimeout passed first.  The function's goroutine goes on, and with it
\* the request, without any effect on the breaker ...
TimeOut(c) ==
  /\ pc[c] = "running"
  /\ c \in mayFail
  /\ CountFailure
  /\ pc' = [pc EXCEPT ![c] = "leaving"]
  /\ lingering' = lingering \cup {c}
  /\ UNCHANGED <<activeCalls, probes, healthy, mayFail>>

\* ... until it returns.
FunctionReturns(c) ==
  /\ c \in lingering
  /\ lingering' = lingering \ {c}
  /\ probes' = probes \ {c}
  /\ UNCHANGED <<state, failureCount, halfOpenSuccesses, expired, activeCalls, pc,
                 healthy, mayFail>>

\* Faulty variant: a call that did not succeed returns past the decrement.
LeaveUncounted(c) ==
  /\ pc[c] = "leaving"
  /\ pc' = [pc EXCEPT ![c] = "idle"]
  /\ activeCalls' = IF c \in mayFail THEN activeCalls ELSE activeCalls - 1
  /\ mayFail' = mayFail \ {c}
  /\ UNCHANGED <<state, failureCount, halfOpenSuccesses, expired, lingering, probes,
                 healthy>>

\* The deferred function.
Leave(c) ==
  /\ pc[c] = "leaving"
  /\ pc' = [pc EXCEPT ![c] = "idle"]
  /\ activeCalls' = activeCalls - 1
  /\ mayFail' = mayFail \ {c}
  /\ UNCHANGED <<state, failureCount, halfOpenSuccesses, expired, lingering, probes,
                 healthy>>

\* Manual intervention.
Reset ==
  /\ state' = "CLOSED"
  /\ expired' = FALSE
  /\ failureCount' = 0
  /\ halfOpenSuccesses' = 0
  /\ UNCHANGED <<activeCalls, pc, lingering, probes, healthy, mayFail>>

\* ResetTimeout passes.  Only an open breaker looks at the clock, and calls
\* that run then were admitted before it opened: a shorter RequestTimeout has
\* ended them by now.
Expire ==
  /\ state = "OPEN"
  /\ ~expired
  /\ TimeoutsShort => \A c \in Calls : pc[c] # "running"
  /\ expired' = TRUE
  /\ UNCHANGED <<state, failureCount, halfOpenSuccesses, activeCalls, pc,
                 lingering, probes, healthy, mayFail>>

\* GitHub answers every request sent from now on.
Recover ==
  /\ ~healthy
  /\ healthy' = TRUE
  /\ UNCHANGED <<state, failureCount, halfOpenSuccesses, expired, activeCalls, pc,
                 lingering, probes, mayFail>>

Execute(c) == Admit(c) \/ RejectHalfOpening(c)

Return(c) == Succeed(c) \/ Fail(c) \/ TimeOut(c) \/ Leave(c) \/ FunctionReturns(c)

Next ==
  \/ \E c \in Calls : Execute(c) \/ Return(c)
  \/ Reset
  \/ Expire
  \/ Recover

Spec == Init /\ [][Next]_vars

\* Calls return (RequestTimeout ends them), time passes, and the service keeps
\* calling GitHub; nobody has to reset the breaker.
Fairness ==
  /\ \A c \in Calls : WF_vars(Return(c))
  /\ WF_vars(\E c \in Calls : Execute(c))
  /\ WF_vars(Expire)

FairSpec == Spec /\ Fairness
-----------------------------------------------------------------------------
(* Properties.                                                             *)

Active == {c \in Calls : pc[c] # "idle"}

\* Every variable has its type.
TypeOK ==
  /\ state \in CircuitState
  /\ failureCount \in Nat
  /\ halfOpenSuccesses \in Nat
  /\ expired \in BOOLEAN
  /\ activeCalls \in Nat
  /\ pc \in [Calls -> {"idle", "running", "leaving"}]
  /\ {lingering, probes, mayFail} \subseteq SUBSET Calls
  /\ healthy \in BOOLEAN

\* activeCalls is what half-open and the limit go by.  It counts the calls in
\* flight, over timeouts, failures and resets, and never exceeds the limit.
ActiveCallsAgree ==
  /\ activeCalls = Cardinality(Active)
  /\ MaxConcurrentRequests > 0 => activeCalls <= MaxConcurrentRequests

\* A breaker that has seen enough failures or successes has changed its state:
\* late verdicts on calls of an earlier state do not carry a counter past its
\* threshold or into a state it does not belong to.
CountersInBounds ==
  /\ failureCount < FailureThreshold
  /\ state # "CLOSED" => failureCount = 0
  /\ state = "HALF_OPEN" => halfOpenSuccesses < HalfOpenSuccessThreshold
  /\ state = "CLOSED" => halfOpenSuccesses = 0

\* An open breaker stays open for ResetTimeout, unless it is reset, whatever
\* late verdicts come in; and it never closes without being half-open first.
StaysOpen ==
  [][state = "OPEN" /\ state' # "OPEN" => (expired /\ state' = "HALF_OPEN") \/ Reset]_vars

\* Once GitHub has recovered, the breaker closes and stays closed, without a
\* reset: late failures, a limit that rejects the probe, and probes that wait
\* for earlier calls can delay that, and nothing can prevent it.
Recovers == (<>healthy) => <>[](state = "CLOSED")

\* "In half-open state, only allow one request at a time for testing"
\* (circuit.go:230): at most one of the requests a half-open breaker has let
\* through is under way.  A probe that times out is, and does not count.
OneProbe == state = "HALF_OPEN" => Cardinality(probes) <= 1
=============================================================================
