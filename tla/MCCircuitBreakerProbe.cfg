\* As MCCircuitBreaker.cfg, with RequestTimeout below ResetTimeout as in
\* internal/github/api.go.
SPECIFICATION Spec
CONSTANTS
  c1 = c1
  c2 = c2
  c3 = c3
  c4 = c4
  Calls <- MCCalls
  FailureThreshold = 2
  HalfOpenSuccessThreshold = 2
  MaxConcurrentRequests = 3
  TimeoutsShort = TRUE
INVARIANTS
  OneProbe
