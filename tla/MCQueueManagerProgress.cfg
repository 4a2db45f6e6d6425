\* As MCQueueManager.cfg with two repositories and two enqueues, under the
\* fairness of the scheduler: two jobs compete for one slot, with twice as
\* many workers.
SPECIFICATION FairSpec
CONSTANTS
  r1 = r1
  r2 = r2
  r3 = r3
  NoJob = NoJob
  Repositories <- MCTwoRepositories
  MaxQueueSize = 2
  MaxArchiveGenerations = 1
  MaxMigrations = 1
  MaxJobs = 2
  MaxStarts = 2
PROPERTIES
  NoStarvation
  StopTerminates
CHECK_DEADLOCK FALSE
