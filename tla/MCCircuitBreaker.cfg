\* Four callers for three places, two failures to trip the breaker and two
\* successes to close it: the limit rejects calls, and calls of a closed state
\* are still active when the breaker is half-open.
SPECIFICATION FairSpec
CONSTANTS
  c1 = c1
  c2 = c2
  c3 = c3
  c4 = c4
  Calls <- MCCalls
  FailureThreshold = 2
  HalfOpenSuccessThreshold = 2
  MaxConcurrentRequests = 3
  TimeoutsShort = FALSE
INVARIANTS
  TypeOK
  ActiveCallsAgree
  CountersInBounds
PROPERTIES
  StaysOpen
  Recovers
