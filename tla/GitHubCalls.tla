----------------------------- MODULE GitHubCalls -----------------------------
(***************************************************************************)
(* A call of the GitHub client as the migrator makes it: utils.Retry       *)
(* (internal/utils/retry.go) around the requests, and around Retry the     *)
(* circuit breaker's time limit (api_circuit.go, circuit.go).  A request   *)
(* may take effect although its answer is lost, and is then sent again.  A *)
(* call that outlasts RequestTimeout is abandoned: its caller goes on with *)
(* an error while the loop of Retry runs on, a stray, until the context is *)
(* cancelled.                                                              *)
(*                                                                         *)
(* The breakers belong to one attempt, and an attempt survives fewer       *)
(* failed calls than their threshold, so none opens during it.             *)
(***************************************************************************)
EXTENDS Integers, FiniteSets

CONSTANTS
  MaxRetries,        \* retries after the first try
  InitialInterval,   \* seconds before the first retry, doubled for each further one
  MaxInterval,       \* at most so many
  RequestTimeout,    \* seconds a breaker gives a call
  MaxLost            \* bound: lost answers and effects of strays

ASSUME CallsAssumption ==
  /\ MaxRetries \in Nat
  /\ InitialInterval \in Nat
  /\ MaxInterval \in Nat
  /\ RequestTimeout \in Nat
  /\ MaxLost \in Nat

\* The calls whose repetition or delay changes something at GitHub that the
\* migration depends on.
Effectful == {"delete", "generate", "import"}

NoCall == [tries |-> 0, live |-> FALSE]
NoStray == [step |-> "none", sent |-> FALSE]

VARIABLES
  call,       \* the call under way: requests that failed before the present
              \* one, and whether it began before the context was done
  stray,      \* an abandoned call that runs on, and whether a request of it is out
  cancelled,  \* the context of the attempt is done
  lost,       \* answers lost and effects of strays so far
  lostAt      \* the calls that lost one or were abandoned (history)

callVars == <<call, stray, cancelled, lost, lostAt>>

CallsTypeOK ==
  /\ call \in [tries : 0 .. MaxRetries, live : BOOLEAN]
  /\ stray \in [step : Effectful \cup {"none"}, sent : BOOLEAN]
  /\ cancelled \in BOOLEAN
  /\ lost \in 0 .. MaxLost
  /\ lostAt \subseteq Effectful

CallsInit ==
  /\ call = [tries |-> 0, live |-> TRUE]
  /\ stray = NoStray
  /\ cancelled = FALSE
  /\ lost = 0
  /\ lostAt = {}
-----------------------------------------------------------------------------
(* Time.                                                                   *)

\* calculateBackoffWithJitter without the jitter, which only adds.
Backoff(retry) ==
  LET interval == InitialInterval * 2 ^ (retry - 1)
  IN  IF interval > MaxInterval THEN MaxInterval ELSE interval

\* The least time a call has taken when it makes its next request.
Waited[tries \in 0 .. MaxRetries] ==
  IF tries = 0 THEN 0 ELSE Waited[tries - 1] + Backoff(tries)

\* A protected call that has waited longer has been abandoned before.
InTime == Waited[call.tries] < RequestTimeout
-----------------------------------------------------------------------------
(* The outcomes of the request that is out.  Each says what becomes of the *)
(* call; the caller adds the effect, and what it does with an answer.      *)

\* The next call, made at once.
FreshCall == [tries |-> 0, live |-> ~cancelled]

\* A request that failed is not the last of its call.
Retries == call.tries < MaxRetries

\* The loop waits, then sends the request again, unless the context is done.
TryAgain ==
  /\ Retries
  /\ ~cancelled
  /\ call' = [call EXCEPT !.tries = @ + 1]

\* A failure that isPermanentError does not recognise, without an effect.
Transient ==
  /\ TryAgain
  /\ UNCHANGED <<stray, cancelled, lost, lostAt>>

\* The request took effect, its answer is lost.
AnswerLost(step) ==
  /\ lost < MaxLost
  /\ TryAgain
  /\ lost' = lost + 1
  /\ lostAt' = lostAt \cup {step}
  /\ UNCHANGED <<stray, cancelled>>

\* The call returns: with an answer, with an error that is not retried, or
\* because its tries are used up or the context is done.
Returned == UNCHANGED <<stray, cancelled, lost, lostAt>>

\* The request took effect and the call returns an error all the same.
ReturnedBlind(step) ==
  /\ ~Retries \/ cancelled
  /\ call.live
  /\ lost < MaxLost
  /\ lost' = lost + 1
  /\ lostAt' = lostAt \cup {step}
  /\ UNCHANGED <<stray, cancelled>>

\* The breaker returns ErrTimeout in its place.
Abandoned(step) ==
  /\ stray' \in IF step \in Effectful THEN [step : {step}, sent : BOOLEAN] ELSE {NoStray}
  /\ lostAt' = lostAt \cup ({step} \cap Effectful)
  /\ UNCHANGED <<cancelled, lost>>
-----------------------------------------------------------------------------
(* The stray loop.                                                         *)

StrayWaits == stray # NoStray /\ ~stray.sent

\* Faulty variant: the wait for the next try does not watch the context.
StraySendsCancelled ==
  /\ StrayWaits
  /\ stray' = [stray EXCEPT !.sent = TRUE]
  /\ UNCHANGED <<call, cancelled, lost, lostAt>>

\* The backoff has passed and the context is not done.
StraySends ==
  /\ StrayWaits
  /\ ~cancelled
  /\ stray' = [stray EXCEPT !.sent = TRUE]
  /\ UNCHANGED <<call, cancelled, lost, lostAt>>

\* Its request takes effect; without the answer it is sent again.
StrayRequestDone ==
  /\ stray.sent
  /\ lost < MaxLost
  /\ lost' = lost + 1
  /\ stray' \in {NoStray, [stray EXCEPT !.sent = FALSE]}
  /\ UNCHANGED <<call, cancelled, lostAt>>

\* Its request fails, or its wait ends because the context is done.
StrayRequestFails ==
  /\ stray # NoStray
  /\ \/ stray.sent /\ stray' \in {NoStray, [stray EXCEPT !.sent = FALSE]}
     \/ ~stray.sent /\ cancelled /\ stray' = NoStray
  /\ UNCHANGED <<call, cancelled, lost, lostAt>>

\* The context is done: the request's deadline, Scheduler.Stop, or a handler
\* of the HTTP server that gave up on the submission.
Cancel ==
  /\ ~cancelled
  /\ cancelled' = TRUE
  /\ UNCHANGED <<call, stray, lost, lostAt>>
=============================================================================
