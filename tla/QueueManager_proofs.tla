------------------------ MODULE QueueManager_proofs -------------------------
(***************************************************************************)
(* Theorems about QueueManager for every number of repositories, workers,  *)
(* starts and jobs.                                                        *)
(***************************************************************************)
EXTENDS QueueManager, TLAPS, FiniteSetTheorems

USE JobsAssumption, StartsAssumption, NoJobAssumption

-----------------------------------------------------------------------------
(* Facts about the constants.                                              *)

\* There are finitely many workers, so the running ones can be counted.
LEMMA WorkerFinite == IsFiniteSet(Worker)
<1> DEFINE Of(kind, n) == [isArchive : {kind}, start : 1..MaxStarts, index : 1..n]
           Grid(n) == (1..MaxStarts) \X (1..n)
           Cell(kind, n) == [w \in Of(kind, n) |-> <<w.start, w.index>>]
<1>1. ASSUME NEW kind \in BOOLEAN, NEW n \in Nat
      PROVE  IsFiniteSet(Of(kind, n))
  <2>1. IsFiniteSet(Grid(n))
    <3>1. IsFiniteSet(1..MaxStarts) /\ IsFiniteSet(1..n)
      BY FS_Interval
    <3>2. QED
      BY <3>1, FS_Product
  <2>2. Cell(kind, n) \in Injection(Of(kind, n), Grid(n))
    BY DEF Injection, IsInjective
  <2> HIDE DEF Of, Grid, Cell
  <2>3. QED
    BY <2>1, <2>2, FS_Injection
<1>2. Worker = Of(TRUE, MaxArchiveGenerations) \cup Of(FALSE, MaxMigrations)
  BY DEF Worker
<1> HIDE DEF Of
<1>3. QED
  BY <1>1, <1>2, FS_Union

\* There are finitely many jobs.
LEMMA JobFinite == IsFiniteSet(Job)
<1> DEFINE Triple == Repositories \X (BOOLEAN \X (1..MaxJobs))
           Code == [job \in Job |->
                     <<job.repository, <<job.isArchive, job.added>>>>]
<1>1. IsFiniteSet(Triple)
  <2>1. IsFiniteSet(Repositories) /\ IsFiniteSet(1..MaxJobs)
    BY FS_Interval
  <2>2. IsFiniteSet(BOOLEAN)
    <3>1. BOOLEAN = {TRUE} \cup {FALSE}
      OBVIOUS
    <3>2. IsFiniteSet({TRUE}) /\ IsFiniteSet({FALSE})
      BY FS_Singleton, Zenon
    <3>3. IsFiniteSet({TRUE} \cup {FALSE})
      BY <3>2, FS_Union, Zenon
    <3>4. QED
      BY <3>1, <3>3, Zenon
  <2>3. IsFiniteSet(BOOLEAN \X (1..MaxJobs))
    BY <2>1, <2>2, FS_Product
  <2>4. QED
    BY <2>1, <2>3, FS_Product
<1>2. Code \in Injection(Job, Triple)
  BY DEF Injection, IsInjective, Job
<1> HIDE DEF Triple, Code
<1>3. QED
  BY <1>1, <1>2, FS_Injection

\* A worker is of one of the two kinds and belongs to a call of Start.
LEMMA WorkerParts ==
  \A w \in Worker : w.isArchive \in BOOLEAN /\ w.start \in 1..MaxStarts
  BY DEF Worker

\* A limit is a positive number.
LEMMA LimitType == \A isArchive \in BOOLEAN : Limit(isArchive) \in Nat \ {0}
  BY DEF Limit

\* A set of workers is finite, so it has a size.
LEMMA WorkersCount ==
  ASSUME NEW S \in SUBSET Worker
  PROVE  IsFiniteSet(S) /\ Cardinality(S) \in Nat
BY WorkerFinite, FS_Subset, FS_CardinalityType

\* The running workers of a kind are workers.
LEMMA RunningOfSubset ==
  \A isArchive \in BOOLEAN : RunningOf(isArchive) \in SUBSET Worker
BY DEF RunningOf, Running
-----------------------------------------------------------------------------
(* The invariant.                                                          *)

\* It holds before the first call.
LEMMA InvInit == Init => QueueInv
<1> SUFFICES ASSUME Init PROVE QueueInv
  OBVIOUS
<1> USE DEF Init
<1>1. TypeOK
  <2>1. held \in [Worker -> Job \cup {NoJob}]
    OBVIOUS
  <2>2. pc \in [Worker -> WorkerPC]
    BY DEF WorkerPC
  <2>3. clock \in 0..MaxJobs /\ starts \in 0..MaxStarts
    OBVIOUS
  <2>4. active \in [BOOLEAN -> Nat]
    OBVIOUS
  <2>5. QED
    BY <2>1, <2>2, <2>3, <2>4 DEF TypeOK
<1>2. QueueMapAgrees
  BY DEF QueueMapAgrees
<1>3. \A isArchive \in BOOLEAN : RunningOf(isArchive) = {}
  BY DEF RunningOf, Running
<1>4. CountersAgree
  BY <1>3, FS_EmptySet DEF CountersAgree
<1>5. JobsAccounted
  BY DEF JobsAccounted, Running
<1>6. WorkersCreated
  BY DEF WorkersCreated
<1>7. QED
  BY <1>1, <1>2, <1>4, <1>5, <1>6, FS_EmptySet, LimitType DEF QueueInv

\* A step that touches neither the jobs nor the counters, and starts and ends
\* no handler, keeps the invariant.
LEMMA InvSameJobs ==
  ASSUME QueueInv, TypeOK', WorkersCreated', Running' = Running,
         UNCHANGED <<queue, jobMap, clock, active, finished, held>>
  PROVE  QueueInv'
<1>1. QueueMapAgrees' /\ (Cardinality(queue) <= MaxQueueSize)'
  BY DEF QueueInv, QueueMapAgrees
<1>2. CountersAgree'
  BY DEF QueueInv, CountersAgree, RunningOf
<1>3. (\A isArchive \in BOOLEAN : active[isArchive] <= Limit(isArchive))'
  BY DEF QueueInv
<1>4. JobsAccounted'
  <2>1. \A w \in Worker : pc'[w] = "run" <=> pc[w] = "run"
    BY DEF Running
  <2>2. QED
    BY <2>1 DEF QueueInv, JobsAccounted
<1>5. QED
  BY <1>1, <1>2, <1>3, <1>4 DEF QueueInv

\* A worker that moves between two places other than the handler keeps it.
LEMMA InvMove ==
  ASSUME QueueInv, NEW w \in Worker,
         NEW from \in WorkerPC \ {"run", "none"}, NEW to \in WorkerPC \ {"run", "none"},
         MoveTo(w, from, to),
         jobAvailable' \in BOOLEAN,
         UNCHANGED <<queue, jobMap, clock, active, shutdown, stopped, starts,
                     held, finished>>
  PROVE  QueueInv'
<1>1. TypeOK'
  BY DEF QueueInv, TypeOK, MoveTo
<1>2. WorkersCreated'
  BY DEF QueueInv, TypeOK, WorkersCreated, MoveTo
<1>3. Running' = Running
  BY DEF QueueInv, TypeOK, Running, MoveTo
<1>4. QED
  BY <1>1, <1>2, <1>3, InvSameJobs

\* Start creates workers at their select.
LEMMA InvStart == QueueInv /\ Start => QueueInv'
<1> SUFFICES ASSUME QueueInv, Start PROVE QueueInv'
  OBVIOUS
<1>1. \A w \in Worker : w.start \in Nat
  BY WorkerParts
<1>2. TypeOK'
  BY DEF QueueInv, TypeOK, Start, WorkerPC
<1>3. WorkersCreated'
  BY <1>1 DEF QueueInv, TypeOK, WorkersCreated, Start
<1>4. Running' = Running
  BY <1>1 DEF QueueInv, TypeOK, WorkersCreated, Start, Running
<1>5. QED
  BY <1>2, <1>3, <1>4, InvSameJobs DEF Start

\* Enqueue adds a job no other waiting job shares a repository with.
LEMMA InvEnqueue ==
  ASSUME QueueInv, NEW repository \in Repositories, NEW isArchive \in BOOLEAN,
         Enqueue(repository, isArchive)
  PROVE  QueueInv'
<1> DEFINE new == [repository |-> repository, isArchive |-> isArchive,
                   added |-> clock + 1]
<1> USE DEF QueueInv
<1>1. new \in Job /\ clock + 1 \in 1..MaxJobs
  BY DEF TypeOK, Enqueue, Job
<1>2. TypeOK'
  BY <1>1 DEF TypeOK, Enqueue
<1>3. queue' = queue \cup {new} /\ jobMap' = jobMap \cup {repository}
  BY DEF Enqueue
<1>4. \A job \in queue : job.repository # repository
  BY DEF QueueMapAgrees, Enqueue
<1>5. QueueMapAgrees'
  <2>1. new.repository = repository
    OBVIOUS
  <2> HIDE DEF new
  <2>2. QED
    BY <1>3, <1>4, <2>1 DEF QueueMapAgrees
<1>6. (Cardinality(queue) <= MaxQueueSize)'
  <2>1. IsFiniteSet(queue) /\ Cardinality(queue) \in Nat
    BY JobFinite, FS_Subset, FS_CardinalityType DEF TypeOK
  <2>2. Cardinality(queue) < MaxQueueSize
    BY DEF Enqueue
  <2> HIDE DEF new
  <2>3. Cardinality(queue \cup {new}) <= Cardinality(queue) + 1
    <3>1. Cardinality(queue \cup {new}) =
            IF new \in queue THEN Cardinality(queue) ELSE Cardinality(queue) + 1
      BY <2>1, FS_AddElement, Zenon
    <3>2. QED
      BY <2>1, <3>1
  <2>4. IsFiniteSet(queue \cup {new}) /\ Cardinality(queue \cup {new}) \in Nat
    BY <2>1, FS_AddElement, FS_CardinalityType
  <2>5. QED
    BY <1>3, <2>1, <2>2, <2>3, <2>4
<1>7. UNCHANGED <<pc, held, finished, active, starts>>
  BY DEF Enqueue
<1>8. Running' = Running /\ \A kind \in BOOLEAN : RunningOf(kind)' = RunningOf(kind)
  BY <1>7 DEF Running, RunningOf
<1>9. CountersAgree' /\ (\A kind \in BOOLEAN : active[kind] <= Limit(kind))'
  BY <1>7, <1>8 DEF CountersAgree
<1>10. JobsAccounted'
  <2>1. \A job \in Job : job.added <= clock => job # new /\ job.added <= clock + 1
    BY DEF Job, TypeOK
  <2>2. clock' = clock + 1
    BY DEF Enqueue
  <2>3. \A w \in Running : held[w] \in Job
    BY DEF JobsAccounted, TypeOK, Running
  <2>4. QED
    BY <1>3, <1>7, <1>8, <2>1, <2>2, <2>3 DEF JobsAccounted, TypeOK
<1>11. WorkersCreated'
  BY <1>7 DEF WorkersCreated
<1>12. QED
  BY <1>2, <1>5, <1>6, <1>9, <1>10, <1>11

\* Take moves a waiting job to a worker that was between jobs.
LEMMA InvTake ==
  ASSUME QueueInv, NEW w \in Worker, NEW job \in queue, Take(w, job)
  PROVE  QueueInv'
<1> DEFINE kind == w.isArchive
<1> USE DEF QueueInv
<1>1. kind \in BOOLEAN /\ job \in Job /\ job.repository \in Repositories
  BY WorkerParts DEF TypeOK, Job
<1>2. /\ pc[w] = "scan" /\ pc' = [pc EXCEPT ![w] = "run"]
      /\ active[kind] < Limit(kind) /\ job.isArchive = kind
      /\ queue' = queue \ {job} /\ jobMap' = jobMap \ {job.repository}
      /\ active' = [active EXCEPT ![kind] = @ + 1]
      /\ held' = [held EXCEPT ![w] = job]
      /\ UNCHANGED <<clock, jobAvailable, shutdown, stopped, starts, finished>>
  BY DEF Take, MoveTo
<1>3. TypeOK'
  BY <1>1, <1>2 DEF TypeOK, WorkerPC
<1>4. QueueMapAgrees'
  BY <1>2 DEF QueueMapAgrees
<1>5. (Cardinality(queue) <= MaxQueueSize)'
  <2>1. IsFiniteSet(queue) /\ Cardinality(queue) \in Nat
    BY JobFinite, FS_Subset, FS_CardinalityType DEF TypeOK
  <2>2. Cardinality(queue \ {job}) <= Cardinality(queue)
    BY <2>1, FS_Subset
  <2>3. Cardinality(queue \ {job}) \in Nat
    BY <2>1, FS_Subset, FS_CardinalityType
  <2>4. QED
    BY <1>2, <2>1, <2>2, <2>3
<1>6. w \notin Running /\ Running' = Running \cup {w}
  BY <1>2 DEF TypeOK, Running
<1>7. /\ w \notin RunningOf(kind) /\ RunningOf(kind)' = RunningOf(kind) \cup {w}
      /\ \A other \in BOOLEAN : other # kind => RunningOf(other)' = RunningOf(other)
  BY <1>6 DEF RunningOf
<1>8. CountersAgree'
  <2>1. Cardinality(RunningOf(kind)') = Cardinality(RunningOf(kind)) + 1
    BY <1>1, <1>7, WorkersCount, RunningOfSubset, FS_AddElement
  <2>2. QED
    BY <1>1, <1>2, <1>7, <2>1 DEF CountersAgree, TypeOK
<1>9. (\A isArchive \in BOOLEAN : active[isArchive] <= Limit(isArchive))'
  BY <1>1, <1>2, LimitType DEF TypeOK
<1>10. JobsAccounted'
  BY <1>1, <1>2, <1>6, NoJobAssumption DEF JobsAccounted, TypeOK, Running
<1>11. WorkersCreated'
  BY <1>2 DEF WorkersCreated, TypeOK
<1>12. QED
  BY <1>3, <1>4, <1>5, <1>8, <1>9, <1>10, <1>11

\* Finish gives back the slot of the handler that returned.
LEMMA InvFinish ==
  ASSUME QueueInv, NEW w \in Worker, Finish(w)
  PROVE  QueueInv'
<1> DEFINE kind == w.isArchive
<1> USE DEF QueueInv
<1>1. kind \in BOOLEAN
  BY WorkerParts
<1>2. /\ pc[w] = "run" /\ pc' = [pc EXCEPT ![w] = "signal"]
      /\ active' = [active EXCEPT ![kind] = @ - 1]
      /\ held' = [held EXCEPT ![w] = NoJob]
      /\ finished' = finished \cup {held[w]}
      /\ UNCHANGED <<queue, jobMap, clock, jobAvailable, shutdown, stopped, starts>>
  BY DEF Finish, MoveTo
<1>3. w \in Running /\ Running' = Running \ {w} /\ held[w] \in Job
  BY <1>2 DEF TypeOK, Running, JobsAccounted
<1>4. /\ w \in RunningOf(kind) /\ RunningOf(kind)' = RunningOf(kind) \ {w}
      /\ \A other \in BOOLEAN : other # kind => RunningOf(other)' = RunningOf(other)
  BY <1>3 DEF RunningOf
<1>5. Cardinality(RunningOf(kind)') = Cardinality(RunningOf(kind)) - 1
  BY <1>1, <1>4, WorkersCount, RunningOfSubset, FS_RemoveElement
<1>6. CountersAgree' /\ active' \in [BOOLEAN -> Nat]
  <2>1. Cardinality(RunningOf(kind)') \in Nat
    BY <1>1, <1>4, WorkersCount, RunningOfSubset
  <2>2. active'[kind] = Cardinality(RunningOf(kind)')
    BY <1>1, <1>2, <1>5 DEF CountersAgree, TypeOK
  <2>3. \A other \in BOOLEAN : other # kind => active'[other] = active[other]
    BY <1>2 DEF TypeOK
  <2>4. active' \in [BOOLEAN -> Nat]
    BY <1>1, <1>2, <2>1, <2>2 DEF TypeOK
  <2>5. QED
    BY <1>1, <1>4, <2>2, <2>3, <2>4 DEF CountersAgree
<1>7. TypeOK'
  BY <1>2, <1>3, <1>6 DEF TypeOK, WorkerPC
<1>8. QueueMapAgrees' /\ (Cardinality(queue) <= MaxQueueSize)'
  BY <1>2 DEF QueueMapAgrees
<1>9. (\A isArchive \in BOOLEAN : active[isArchive] <= Limit(isArchive))'
  BY <1>1, <1>2, LimitType DEF TypeOK
<1>10. JobsAccounted'
  BY <1>2, <1>3, NoJobAssumption DEF JobsAccounted, TypeOK, Running
<1>11. WorkersCreated'
  BY <1>2 DEF WorkersCreated, TypeOK
<1>12. QED
  BY <1>6, <1>7, <1>8, <1>9, <1>10, <1>11

\* Every step keeps the invariant.
LEMMA InvStep == QueueInv /\ [Next]_vars => QueueInv'
<1> SUFFICES ASSUME QueueInv, [Next]_vars PROVE QueueInv'
  OBVIOUS
<1>1. CASE Start
  BY <1>1, InvStart
<1>2. ASSUME NEW repository \in Repositories,
             EnqueueArchiveJob(repository) \/ EnqueueMigrationJob(repository)
      PROVE  QueueInv'
  BY <1>2, InvEnqueue DEF EnqueueArchiveJob, EnqueueMigrationJob
<1>3. CASE Stop \/ StopReturns
  <2>1. TypeOK' /\ WorkersCreated' /\ Running' = Running
    BY <1>3 DEF QueueInv, TypeOK, WorkersCreated, Running, Stop, StopReturns
  <2>2. QED
    BY <1>3, <2>1, InvSameJobs DEF Stop, StopReturns
<1>4. ASSUME NEW w \in Worker, WorkerStep(w)
      PROVE  QueueInv'
  <2>1. CASE Wake(w)
    BY <2>1, InvMove DEF Wake, WorkerPC
  <2>2. CASE Poll(w)
    BY <2>2, InvMove DEF Poll, WorkerPC, QueueInv, TypeOK
  <2>3. ASSUME NEW job \in queue, Take(w, job)
        PROVE  QueueInv'
    BY <2>3, InvTake
  <2>4. CASE FindNothing(w)
    BY <2>4, InvMove DEF FindNothing, WorkerPC, QueueInv, TypeOK
  <2>5. CASE Finish(w)
    BY <2>5, InvFinish
  <2>6. CASE Signal(w)
    BY <2>6, InvMove DEF Signal, WorkerPC
  <2>7. QED
    BY <1>4, <2>1, <2>2, <2>3, <2>4, <2>5, <2>6 DEF WorkerStep
<1>5. ASSUME NEW w \in Worker, Quit(w)
      PROVE  QueueInv'
  BY <1>5, InvMove DEF Quit, WorkerPC, QueueInv, TypeOK
<1>6. CASE UNCHANGED vars
  <2>1. TypeOK' /\ WorkersCreated' /\ Running' = Running
    BY <1>6 DEF QueueInv, TypeOK, WorkersCreated, Running, vars
  <2>2. QED
    BY <1>6, <2>1, InvSameJobs DEF vars
<1>7. QED
  BY <1>1, <1>2, <1>3, <1>4, <1>5, <1>6 DEF Next

\* QueueInv holds throughout: jobs, map, counters and workers of
\* internal/queue/queue.go stay consistent.
THEOREM QueueConsistent == Spec => []QueueInv
<1>1. QED
  BY InvInit, InvStep, PTL DEF Spec

\* Every variable keeps its type; in particular no counter of active jobs
\* becomes negative.
THEOREM TypeCorrect == Spec => []TypeOK
<1>1. QueueInv => TypeOK
  BY DEF QueueInv
<1>2. QED
  BY <1>1, QueueConsistent, PTL

\* jobMap and the heap describe the same jobs, one per repository.
THEOREM MapAgreesWithQueue == Spec => []QueueMapAgrees
<1>1. QueueInv => QueueMapAgrees
  BY DEF QueueInv
<1>2. QED
  BY <1>1, QueueConsistent, PTL

\* The configured limits bound the running handlers, whatever the number of
\* workers that calls of Start have created.
THEOREM LimitsHold == Spec => []LimitsRespected
<1>1. QueueInv => LimitsRespected
  BY DEF QueueInv, CountersAgree, LimitsRespected
<1>2. QED
  BY <1>1, QueueConsistent, PTL
-----------------------------------------------------------------------------
(* The refinement.                                                         *)

\* The pool that the queue manager implements counts as many running jobs of
\* a kind as there are workers running one: no job has two workers.
LEMMA RunningJobsCount ==
  ASSUME QueueInv, NEW isArchive \in BOOLEAN
  PROVE  Cardinality(OfKind(RunningJobs, isArchive)) = active[isArchive]
<1> DEFINE S == RunningOf(isArchive)
           T == OfKind(RunningJobs, isArchive)
           f == [w \in S |-> held[w]]
<1>1. f \in Bijection(S, T)
  <2>1. \A w \in S : held[w] \in T
    BY DEF RunningOf, OfKind, RunningJobs, QueueInv, JobsAccounted
  <2>2. \A job \in T : \E w \in S : held[w] = job
    BY DEF RunningOf, OfKind, RunningJobs, QueueInv, JobsAccounted
  <2>3. \A v, w \in S : held[v] = held[w] => v = w
    BY DEF RunningOf, QueueInv, JobsAccounted
  <2> HIDE DEF S, T
  <2>4. QED
    BY <2>1, <2>2, <2>3 DEF Bijection, Injection, Surjection, IsInjective
<1>2. ExistsBijection(S, T)
  BY <1>1 DEF ExistsBijection
<1>3. IsFiniteSet(S)
  BY RunningOfSubset, WorkersCount
<1>4. Cardinality(T) = Cardinality(S)
  <2> HIDE DEF S, T
  <2>1. QED
    BY <1>2, <1>3, FS_Bijection
<1>5. QED
  BY <1>4 DEF QueueInv, CountersAgree

\* The pool counts as this module does.
LEMMA PoolCardinality == \A S : Pool!Cardinality(S) = Cardinality(S)
  BY DEF Pool!Cardinality, Cardinality

\* Each step of the queue manager is a step of the pool or changes nothing
\* the pool speaks of.
LEMMA PoolStep ==
  QueueInv /\ QueueInv' /\ [Next]_vars => [Pool!PoolNext]_(Pool!poolVars)
<1> SUFFICES ASSUME QueueInv, QueueInv', [Next]_vars
             PROVE  Pool!PoolNext \/ UNCHANGED <<queue, RunningJobs, finished>>
  BY DEF Pool!poolVars
<1>1. ASSUME UNCHANGED <<queue, held, finished>>, Running' = Running
      PROVE  UNCHANGED <<queue, RunningJobs, finished>>
  BY <1>1 DEF RunningJobs
<1>2. CASE Start
  <2>1. Running' = Running
    BY <1>2, WorkerParts DEF QueueInv, TypeOK, WorkersCreated, Start, Running
  <2>2. QED
    BY <1>1, <1>2, <2>1 DEF Start
<1>3. ASSUME NEW repository \in Repositories, NEW isArchive \in BOOLEAN,
             Enqueue(repository, isArchive)
      PROVE  Pool!PoolNext
  <2>0. [repository |-> repository, isArchive |-> isArchive,
         added |-> clock + 1] \in Job
    BY <1>3 DEF QueueInv, TypeOK, Enqueue, Job
  <2> PICK new \in Job : new = [repository |-> repository,
                               isArchive |-> isArchive, added |-> clock + 1]
    BY <2>0
  <2>1. new.added = clock + 1 /\ new.repository = repository
    OBVIOUS
  <2>2. queue' = queue \cup {new} /\ UNCHANGED <<held, pc, finished>>
    BY <1>3 DEF Enqueue
  <2>3. new \notin queue \cup RunningJobs \cup finished
    <3>1. \A job \in queue \cup RunningJobs \cup finished :
            job \in Job /\ job.added <= clock
      BY DEF QueueInv, JobsAccounted, RunningJobs, TypeOK, Running
    <3>2. clock \in Nat
      BY DEF QueueInv, TypeOK
    <3>3. QED
      BY <2>1, <3>1, <3>2
  <2>4. \A other \in queue : other.repository # new.repository
    BY <1>3, <2>1 DEF Enqueue, QueueInv, QueueMapAgrees
  <2>5. Pool!Cardinality(queue) < MaxQueueSize
    BY <1>3, PoolCardinality DEF Enqueue
  <2>6. RunningJobs' = RunningJobs
    BY <2>2 DEF RunningJobs, Running
  <2>7. Pool!Accept(new)
    BY <2>2, <2>3, <2>4, <2>5, <2>6 DEF Pool!Accept
  <2>8. QED
    BY <2>7 DEF Pool!PoolNext, Pool!Job, Job
<1>4. CASE Stop \/ StopReturns
  BY <1>1, <1>4 DEF Stop, StopReturns, Running
<1>5. ASSUME NEW w \in Worker, NEW job \in queue, Take(w, job)
      PROVE  Pool!PoolNext
  <2>1. job \in Job /\ w.isArchive \in BOOLEAN /\ job.isArchive = w.isArchive
    BY <1>5, WorkerParts DEF Take, QueueInv, TypeOK
  <2>2. Running' = Running \cup {w} /\ w \notin Running
    BY <1>5 DEF Take, MoveTo, QueueInv, TypeOK, Running
  <2>3. RunningJobs' = RunningJobs \cup {job}
    BY <1>5, <2>2 DEF Take, RunningJobs, Running, QueueInv, TypeOK
  <2>4. Pool!Cardinality(Pool!OfKind(RunningJobs, job.isArchive))
          < Pool!Limit(job.isArchive)
    <3>1. Cardinality(OfKind(RunningJobs, job.isArchive)) < Limit(job.isArchive)
      BY <1>5, <2>1, RunningJobsCount DEF Take
    <3>2. Pool!OfKind(RunningJobs, job.isArchive) = OfKind(RunningJobs, job.isArchive)
      BY DEF Pool!OfKind, OfKind
    <3>3. Pool!Limit(job.isArchive) = Limit(job.isArchive)
      BY DEF Pool!Limit, Limit
    <3>4. QED
      BY <3>1, <3>2, <3>3, PoolCardinality
  <2>5. Pool!Begin(job)
    BY <1>5, <2>3, <2>4 DEF Pool!Begin, Take
  <2>6. QED
    BY <2>1, <2>5 DEF Pool!PoolNext, Pool!Job, Job
<1>6. ASSUME NEW w \in Worker, Finish(w)
      PROVE  Pool!PoolNext
  <2>1. w \in Running /\ Running' = Running \ {w} /\ held[w] \in Job
    BY <1>6 DEF Finish, MoveTo, QueueInv, TypeOK, JobsAccounted, Running
  <2>2. RunningJobs' = RunningJobs \ {held[w]} /\ held[w] \in RunningJobs
    BY <1>6, <2>1 DEF Finish, RunningJobs, Running, QueueInv, TypeOK, JobsAccounted
  <2> PICK job \in Job : job = held[w]
    BY <2>1
  <2>3. Pool!End(job)
    BY <1>6, <2>2 DEF Pool!End, Finish
  <2>4. QED
    BY <2>3 DEF Pool!PoolNext, Pool!Job, Job
<1>7. ASSUME NEW w \in Worker,
             Wake(w) \/ Poll(w) \/ FindNothing(w) \/ Signal(w) \/ Quit(w)
      PROVE  UNCHANGED <<queue, RunningJobs, finished>>
  <2>1. Running' = Running
    BY <1>7 DEF Wake, Poll, FindNothing, Signal, Quit, MoveTo, QueueInv, TypeOK,
                Running
  <2>2. QED
    BY <1>1, <1>7, <2>1 DEF Wake, Poll, FindNothing, Signal, Quit
<1>8. CASE UNCHANGED vars
  BY <1>1, <1>8 DEF vars, Running
<1>9. QED
  BY <1>2, <1>3, <1>4, <1>5, <1>6, <1>7, <1>8
     DEF Next, WorkerStep, EnqueueArchiveJob, EnqueueMigrationJob

\* The queue manager of internal/queue keeps the promise of JobPool: bounded,
\* without duplicates, within its limits, every accepted job run once.
THEOREM QueueManagerImplementsJobPool == Spec => ImplementsJobPool
<1>1. Init => Pool!PoolInit
  BY DEF Init, Pool!PoolInit, Running, RunningJobs
<1>2. QED
  BY <1>1, PoolStep, QueueConsistent, PTL DEF ImplementsJobPool, Pool!PoolSpec, Spec
=============================================================================
