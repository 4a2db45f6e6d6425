\* As MCQueuedMigrations.cfg: one request fails, and its retry is the other call.
SPECIFICATION FairSpec
CONSTANTS
  r1 = r1
  r2 = r2
  c1 = c1
  c2 = c2
  NoCaller = NoCaller
  Repositories <- MCRepositories
  Callers <- MCCallers
  Retriers <- MCRetriers
  Requests <- MCRequests
  MaxQueueSize = 1
  MaxArchiveGenerations = 1
  MaxMigrations = 1
  MaxJobs = 4
PROPERTIES
  RetryReturns
CHECK_DEADLOCK FALSE
