------------------------------- MODULE JobPool -------------------------------
(***************************************************************************)
(* What the queue manager of internal/queue promises to the code that      *)
(* enqueues migration jobs: a bounded pool of waiting jobs, at most one    *)
(* per repository, from which at most a fixed number of jobs of each kind  *)
(* run at once, and every accepted job runs once.  QueueManager is the     *)
(* program that is to keep this promise.                                   *)
(***************************************************************************)
EXTENDS MigrationJobs

VARIABLES
  waiting,   \* accepted jobs no worker has taken
  running,   \* jobs whose handler is running
  finished   \* jobs whose handler has returned

poolVars == <<waiting, running, finished>>

PoolInit ==
  /\ waiting = {}
  /\ running = {}
  /\ finished = {}

\* A job is accepted only if it is new, there is room for it, and no job of
\* the same repository is waiting.
Accept(job) ==
  /\ job \notin waiting \cup running \cup finished
  /\ \A other \in waiting : other.repository # job.repository
  /\ Cardinality(waiting) < MaxQueueSize
  /\ waiting' = waiting \cup {job}
  /\ UNCHANGED <<running, finished>>

Begin(job) ==
  /\ job \in waiting
  /\ Cardinality(OfKind(running, job.isArchive)) < Limit(job.isArchive)
  /\ waiting' = waiting \ {job}
  /\ running' = running \cup {job}
  /\ UNCHANGED finished

End(job) ==
  /\ job \in running
  /\ running' = running \ {job}
  /\ finished' = finished \cup {job}
  /\ UNCHANGED waiting

PoolNext == \E job \in Job : Accept(job) \/ Begin(job) \/ End(job)

PoolSpec == PoolInit /\ [][PoolNext]_poolVars
=============================================================================
