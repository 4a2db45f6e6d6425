---------------------------- MODULE QueueManager ----------------------------
(***************************************************************************)
(* internal/queue/queue.go: the queue manager.  One mutex (qm.mu) guards   *)
(* the waiting jobs, the repository map and the counters, so each critical *)
(* section is one action.  Everything between two critical sections of a   *)
(* worker is a point where other goroutines run.                           *)
(*                                                                         *)
(* The waiting jobs are a set here: which waiting job of a kind            *)
(* processNextJob picks is left open, and JobHeap says which one it is.    *)
(* Priorities are therefore left to JobHeap too.                           *)
(***************************************************************************)
EXTENDS MigrationJobs

CONSTANTS
  MaxStarts,             \* bound: calls of Start (one per migration request)
  NoJob                  \* what an idle worker holds

ASSUME StartsAssumption == MaxStarts \in Nat
ASSUME NoJobAssumption == NoJob \notin Job

\* The goroutines the calls of Start create: the start-th call creates
\* Limit(kind) workers of each kind.
Worker ==
  [isArchive : {TRUE},  start : 1..MaxStarts, index : 1..MaxArchiveGenerations]
    \cup
  [isArchive : {FALSE}, start : 1..MaxStarts, index : 1..MaxMigrations]

\* Where a worker is: not created; in the select of its loop; at the lock of
\* processNextJob; in the handler; between the counter's decrement and the
\* signal on jobAvailable; returned.
WorkerPC == {"none", "select", "scan", "run", "signal", "exited"}

VARIABLES
  queue,        \* qm.queue, as a set
  jobMap,       \* the keys of qm.jobMap
  clock,        \* enqueues so far
  active,       \* [TRUE |-> activeArchiveGenerations, FALSE |-> activeMigrations]
  jobAvailable, \* whether the one-slot channel jobAvailable holds a token
  shutdown,     \* whether the channel shutdown is closed
  stopped,      \* whether Stop has returned
  starts,       \* calls of Start so far
  pc,           \* where each worker is
  held,         \* the job a worker runs
  finished      \* jobs whose handler has returned (history)

vars == <<queue, jobMap, clock, active, jobAvailable, shutdown, stopped,
          starts, pc, held, finished>>

Alive(w) == pc[w] \notin {"none", "exited"}
Running == {w \in Worker : pc[w] = "run"}
RunningOf(isArchive) == {w \in Running : w.isArchive = isArchive}

Init ==
  /\ queue = {}
  /\ jobMap = {}
  /\ clock = 0
  /\ active = [isArchive \in BOOLEAN |-> 0]
  /\ jobAvailable = FALSE
  /\ shutdown = FALSE
  /\ stopped = FALSE
  /\ starts = 0
  /\ pc = [w \in Worker |-> "none"]
  /\ held = [w \in Worker |-> NoJob]
  /\ finished = {}
-----------------------------------------------------------------------------
(* Calls from outside.                                                     *)

\* Start does not look at whether workers already exist.
Start ==
  /\ starts < MaxStarts
  /\ starts' = starts + 1
  /\ pc' = [w \in Worker |-> IF w.start = starts + 1 THEN "select" ELSE pc[w]]
  /\ UNCHANGED <<queue, jobMap, clock, active, jobAvailable, shutdown,
                 stopped, held, finished>>

\* Faulty variant: the check for a full queue is missing.
EnqueueWithoutBound(repository, isArchive) ==
  /\ clock < MaxJobs
  /\ repository \notin jobMap
  /\ clock' = clock + 1
  /\ queue' = queue \cup {[repository |-> repository,
                           isArchive  |-> isArchive,
                           added      |-> clock + 1]}
  /\ jobMap' = jobMap \cup {repository}
  /\ jobAvailable' = TRUE
  /\ UNCHANGED <<active, shutdown, stopped, starts, pc, held, finished>>

\* A rejected call changes nothing: the repository already waits, or the
\* queue is full.
Enqueue(repository, isArchive) ==
  /\ clock < MaxJobs
  /\ repository \notin jobMap
  /\ Cardinality(queue) < MaxQueueSize
  /\ clock' = clock + 1
  /\ queue' = queue \cup {[repository |-> repository,
                           isArchive  |-> isArchive,
                           added      |-> clock + 1]}
  /\ jobMap' = jobMap \cup {repository}
  /\ jobAvailable' = TRUE
  /\ UNCHANGED <<active, shutdown, stopped, starts, pc, held, finished>>

EnqueueArchiveJob(repository) == Enqueue(repository, TRUE)
EnqueueMigrationJob(repository) == Enqueue(repository, FALSE)

\* Stop closes the channel; a second call would panic, and the server calls
\* it once.  It returns when every worker has (wg.Wait).
Stop ==
  /\ ~shutdown
  /\ shutdown' = TRUE
  /\ UNCHANGED <<queue, jobMap, clock, active, jobAvailable, stopped, starts,
                 pc, held, finished>>

StopReturns ==
  /\ shutdown
  /\ ~stopped
  /\ \A w \in Worker : ~Alive(w)
  /\ stopped' = TRUE
  /\ UNCHANGED <<queue, jobMap, clock, active, jobAvailable, shutdown, starts,
                 pc, held, finished>>
-----------------------------------------------------------------------------
(* A worker: the select, then processNextJob until it returns false.       *)

MoveTo(w, from, to) ==
  /\ pc[w] = from
  /\ pc' = [pc EXCEPT ![w] = to]

\* The token is shared: a worker of either kind consumes it.
Wake(w) ==
  /\ jobAvailable
  /\ MoveTo(w, "select", "scan")
  /\ jobAvailable' = FALSE
  /\ UNCHANGED <<queue, jobMap, clock, active, shutdown, stopped, starts, held,
                 finished>>

\* Faulty variant: no timer, workers rely on the shared token alone.
NeverPoll(w) == w \notin Worker /\ UNCHANGED vars

\* The 100 ms timer of the select.
Poll(w) ==
  /\ MoveTo(w, "select", "scan")
  /\ UNCHANGED <<queue, jobMap, clock, active, jobAvailable, shutdown, stopped,
                 starts, held, finished>>

\* Faulty variant: Stop sends one value instead of closing the channel, so the
\* first worker to see it leaves nothing for the others.
QuitConsumingSignal(w) ==
  /\ shutdown
  /\ MoveTo(w, "select", "exited")
  /\ shutdown' = FALSE
  /\ UNCHANGED <<queue, jobMap, clock, active, jobAvailable, stopped, starts,
                 held, finished>>

Quit(w) ==
  /\ shutdown
  /\ MoveTo(w, "select", "exited")
  /\ UNCHANGED <<queue, jobMap, clock, active, jobAvailable, shutdown, stopped,
                 starts, held, finished>>

\* Faulty variant: the number of workers is trusted to bound concurrency.
TakeWithoutLimit(w, job) ==
  /\ MoveTo(w, "scan", "run")
  /\ job.isArchive = w.isArchive
  /\ queue' = queue \ {job}
  /\ jobMap' = jobMap \ {job.repository}
  /\ active' = [active EXCEPT ![w.isArchive] = @ + 1]
  /\ held' = [held EXCEPT ![w] = job]
  /\ UNCHANGED <<clock, jobAvailable, shutdown, stopped, starts, finished>>

\* Faulty variant: the map entry is left behind.
TakeKeepingMapEntry(w, job) ==
  /\ MoveTo(w, "scan", "run")
  /\ active[w.isArchive] < Limit(w.isArchive)
  /\ job.isArchive = w.isArchive
  /\ queue' = queue \ {job}
  /\ active' = [active EXCEPT ![w.isArchive] = @ + 1]
  /\ held' = [held EXCEPT ![w] = job]
  /\ UNCHANGED <<jobMap, clock, jobAvailable, shutdown, stopped, starts,
                 finished>>

\* The first critical section of processNextJob, when it finds a job.
Take(w, job) ==
  /\ MoveTo(w, "scan", "run")
  /\ active[w.isArchive] < Limit(w.isArchive)
  /\ job.isArchive = w.isArchive
  /\ queue' = queue \ {job}
  /\ jobMap' = jobMap \ {job.repository}
  /\ active' = [active EXCEPT ![w.isArchive] = @ + 1]
  /\ held' = [held EXCEPT ![w] = job]
  /\ UNCHANGED <<clock, jobAvailable, shutdown, stopped, starts, finished>>

\* ... and when it returns false: no job of the kind, or the limit reached.
FindNothing(w) ==
  /\ OfKind(queue, w.isArchive) = {} \/ active[w.isArchive] >= Limit(w.isArchive)
  /\ MoveTo(w, "scan", "select")
  /\ UNCHANGED <<queue, jobMap, clock, active, jobAvailable, shutdown, stopped,
                 starts, held, finished>>

\* Faulty variant: the counter of the other kind is decremented.
FinishOtherCounter(w) ==
  /\ MoveTo(w, "run", "signal")
  /\ active' = [active EXCEPT ![~w.isArchive] = @ - 1]
  /\ held' = [held EXCEPT ![w] = NoJob]
  /\ finished' = finished \cup {held[w]}
  /\ UNCHANGED <<queue, jobMap, clock, jobAvailable, shutdown, stopped, starts>>

\* The handler returns and the second critical section releases the slot.
\* Whether the handler failed makes no difference to the queue manager.
Finish(w) ==
  /\ MoveTo(w, "run", "signal")
  /\ active' = [active EXCEPT ![w.isArchive] = @ - 1]
  /\ held' = [held EXCEPT ![w] = NoJob]
  /\ finished' = finished \cup {held[w]}
  /\ UNCHANGED <<queue, jobMap, clock, jobAvailable, shutdown, stopped, starts>>

Signal(w) ==
  /\ MoveTo(w, "signal", "scan")
  /\ jobAvailable' = TRUE
  /\ UNCHANGED <<queue, jobMap, clock, active, shutdown, stopped, starts, held,
                 finished>>

WorkerStep(w) ==
  \/ Wake(w)
  \/ Poll(w)
  \/ \E job \in queue : Take(w, job)
  \/ FindNothing(w)
  \/ Finish(w)
  \/ Signal(w)

Next ==
  \/ Start
  \/ \E repository \in Repositories : EnqueueArchiveJob(repository)
  \/ \E repository \in Repositories : EnqueueMigrationJob(repository)
  \/ Stop
  \/ StopReturns
  \/ \E w \in Worker : WorkerStep(w)
  \/ \E w \in Worker : Quit(w)

Spec == Init /\ [][Next]_vars

(***************************************************************************)
(* The Go scheduler runs every worker, a handler returns, and a select     *)
(* with several ready cases picks one at random: a worker that comes back  *)
(* to its select with shutdown closed again and again takes that case.     *)
(***************************************************************************)
Fairness ==
  /\ \A w \in Worker : WF_vars(WorkerStep(w)) /\ SF_vars(Quit(w))
  /\ WF_vars(StopReturns)

FairSpec == Spec /\ Fairness
-----------------------------------------------------------------------------
(* Properties.                                                             *)

\* Every variable has its type.
TypeOK ==
  /\ queue \in SUBSET Job
  /\ jobMap \in SUBSET Repositories
  /\ clock \in 0..MaxJobs
  /\ active \in [BOOLEAN -> Nat]
  /\ jobAvailable \in BOOLEAN
  /\ shutdown \in BOOLEAN
  /\ stopped \in BOOLEAN
  /\ starts \in 0..MaxStarts
  /\ pc \in [Worker -> WorkerPC]
  /\ held \in [Worker -> Job \cup {NoJob}]
  /\ finished \in SUBSET Job

\* The map that rejects duplicates and the heap that feeds the workers, kept
\* by separate statements of Enqueue and processNextJob, always describe the
\* same jobs, one per repository.
QueueMapAgrees ==
  /\ jobMap = {job.repository : job \in queue}
  /\ \A a, b \in queue : a.repository = b.repository => a = b

\* No more jobs of a kind run than the limit configured for it, however often
\* Start has been called: the counters, not the number of workers, bound it.
LimitsRespected ==
  \A isArchive \in BOOLEAN :
    Cardinality(RunningOf(isArchive)) <= Limit(isArchive)

\* The counters count the running handlers.
CountersAgree ==
  \A isArchive \in BOOLEAN :
    active[isArchive] = Cardinality(RunningOf(isArchive))

\* Every job enqueued earlier is in one place: waiting, held by one running
\* worker, or finished.
JobsAccounted ==
  /\ \A w \in Worker : held[w] # NoJob <=> pc[w] = "run"
  /\ \A w \in Running : held[w].isArchive = w.isArchive
  /\ \A v, w \in Running : held[v] = held[w] => v = w
  /\ \A w \in Running : held[w] \notin queue \cup finished
  /\ queue \cap finished = {}
  /\ \A job \in queue \cup finished : job.added <= clock
  /\ \A w \in Running : held[w].added <= clock

\* Workers of calls of Start yet to come do not exist.
WorkersCreated == \A w \in Worker : w.start > starts => pc[w] = "none"

\* The inductive invariant.
QueueInv ==
  /\ TypeOK
  /\ QueueMapAgrees
  /\ Cardinality(queue) <= MaxQueueSize
  /\ CountersAgree
  /\ \A isArchive \in BOOLEAN : active[isArchive] <= Limit(isArchive)
  /\ JobsAccounted
  /\ WorkersCreated

\* The jobs whose handler is running.
RunningJobs == {held[w] : w \in Running}

\* The queue manager keeps the promise of JobPool: what waits, runs and has
\* finished there is what qm.queue, the workers and the returned handlers are
\* here.
Pool == INSTANCE JobPool WITH
  waiting  <- queue,
  running  <- RunningJobs,
  finished <- finished

ImplementsJobPool == Pool!PoolSpec

\* A job waiting while workers exist is taken, or the manager is shut down:
\* the one-slot token may be consumed by a worker of the wrong kind, and the
\* timer makes up for it.
NoStarvation ==
  \A added \in 1..MaxJobs :
    (starts > 0 /\ \E job \in queue : job.added = added)
      ~> (shutdown \/ \A job \in queue : job.added # added)

\* Stop returns, even when handlers run and jobs wait when it is called.
StopTerminates == shutdown ~> stopped
=============================================================================
