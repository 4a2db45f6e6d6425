--------------------------- MODULE MigrationJobs ----------------------------
(* The jobs of internal/queue and the limits they run under.               *)
EXTENDS Integers, FiniteSets

CONSTANTS
  Repositories,          \* the repositories a job can be about
  MaxQueueSize,          \* jobs that may wait at a time
  MaxArchiveGenerations, \* archive jobs that may run at a time
  MaxMigrations,         \* migration jobs that may run at a time
  MaxJobs                \* bound: jobs enqueued in one behaviour

\* NewQueueManager replaces a size or limit <= 0 by a positive default.
ASSUME JobsAssumption ==
  /\ IsFiniteSet(Repositories)
  /\ MaxQueueSize \in Nat \ {0}
  /\ MaxArchiveGenerations \in Nat \ {0}
  /\ MaxMigrations \in Nat \ {0}
  /\ MaxJobs \in Nat

\* MigrationJob without its payload and its priority.  time.Now() under qm.mu
\* gives every job its own instant, so "added" orders jobs and tells them
\* apart.
Job == [repository : Repositories, isArchive : BOOLEAN, added : 1..MaxJobs]

Limit(isArchive) == IF isArchive THEN MaxArchiveGenerations ELSE MaxMigrations

OfKind(jobs, isArchive) == {job \in jobs : job.isArchive = isArchive}
=============================================================================
