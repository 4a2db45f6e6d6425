\* As MCQueuedMigrations.cfg, safety only.
SPECIFICATION Spec
CONSTANTS
  r1 = r1
  r2 = r2
  c1 = c1
  c2 = c2
  NoCaller = NoCaller
  Repositories <- MCRepositories
  Callers <- MCCallers
  Retriers <- MCRetriers
  Requests <- MCRequests
  MaxQueueSize = 1
  MaxArchiveGenerations = 1
  MaxMigrations = 1
  MaxJobs = 4
INVARIANTS
  ArchiveLimitRespected
CHECK_DEADLOCK FALSE
