\* Two calls, one of which may be a retry, over two repositories; one waiting
\* job, one archive and one migration job running: the queue fills up, and the
\* attempts of one repository overlap.  Four jobs are all that two requests of
\* one repository can lead to.
SPECIFICATION FairSpec
CONSTANTS
  r1 = r1
  r2 = r2
  c1 = c1
  c2 = c2
  NoCaller = NoCaller
  Repositories <- MCRepositories
  Callers <- MCCallers
  Retriers <- MCRetriers
  Requests <- MCRequests
  MaxQueueSize = 1
  MaxArchiveGenerations = 1
  MaxMigrations = 1
  MaxJobs = 4
INVARIANTS
  TypeOK
  InProgressHasWork
  SucceededHasTarget
PROPERTIES
  Settles
  CallsReturn
\* Calls come to an end, and a retry stops everything.
CHECK_DEADLOCK FALSE
