\* Two calls of Start with limits of one archive and one migration job: twice
\* as many workers as slots.  Three enqueues over three repositories and a
\* queue of two jobs: the queue fills up, and a repository is queued again
\* while its earlier job runs.
SPECIFICATION Spec
CONSTANTS
  r1 = r1
  r2 = r2
  r3 = r3
  NoJob = NoJob
  Repositories <- MCRepositories
  MaxQueueSize = 2
  MaxArchiveGenerations = 1
  MaxMigrations = 1
  MaxJobs = 3
  MaxStarts = 2
INVARIANTS
  TypeOK
  QueueMapAgrees
  LimitsRespected
  QueueInv
PROPERTIES
  ImplementsJobPool
SYMMETRY Symmetry
CHECK_DEADLOCK FALSE
