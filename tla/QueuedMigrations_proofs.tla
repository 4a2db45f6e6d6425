----------------------- MODULE QueuedMigrations_proofs -----------------------
(***************************************************************************)
(* Queue mode's safety properties, for any repositories, calls, requests   *)
(* and limits.                                                             *)
(*                                                                         *)
(* A repository in progress has work behind it because the work is handed  *)
(* on: from the call to the archive job it enqueues, and from that job to  *)
(* the migration job.  The job that has handed on still runs for a while,  *)
(* so what counts is the jobs whose handler is not about to return.  A     *)
(* repository reported succeeded exists because, unless it was requested   *)
(* again, there is at most one such job of it, and nobody else touches the *)
(* target.                                                                 *)
(***************************************************************************)
EXTENDS QueuedMigrations, TLAPS

\* Jobs that wait or whose handler has still something to do.
ActiveJobs == {job \in waiting \cup running : phase[job] # "return"}

\* A job waits or runs.
JobsPlaced == waiting \cap running = {}

\* A call that works on a repository knows which.  A retry has its repository
\* and never begins to validate it: that takes the mutex it holds.
CallsBusy ==
  \A c \in Callers :
    /\ pc[c] \in {"validate", "report", "enqueue"} => todo[c] # <<>>
    /\ migratorMu = c => pc[c] \in {"lock", "next"} /\ todo[c] # <<>>

\* InProgressHasWork, counting the jobs that have still something to do.
ProgressHasWork ==
  \A repository \in Repositories :
    status[repository] = "in_progress" =>
      \/ \E job \in ActiveJobs : job.repository = repository
      \/ CallWorksOn(repository)
      \/ repository \in stranded

\* The attempts of a repository that is not requested again meanwhile.
AttemptAlone(repository) ==
  /\ \A a, b \in ActiveJobs :
       a.repository = repository /\ b.repository = repository => a = b
  /\ \A c \in Callers :
       pc[c] \in {"validate", "enqueue"} /\ Head(todo[c]) = repository =>
         /\ status[repository] # "succeeded"
         /\ \A job \in ActiveJobs : job.repository # repository
  /\ \A job \in ActiveJobs :
       job.repository = repository =>
         /\ status[repository] # "succeeded"
         /\ phase[job] = "imported" => repository \in target
  /\ status[repository] = "succeeded" => repository \in target

OneAttempt == \A repository \in Repositories \ overlapped : AttemptAlone(repository)

\* The inductive invariant.
MigrationsInv == TypeOK /\ JobsPlaced /\ CallsBusy /\ ProgressHasWork /\ OneAttempt

Holding == {"next", "validate", "report", "enqueue"}
-----------------------------------------------------------------------------
(* Types.                                                                  *)

\* A job is about a repository.
LEMMA JobRepository == \A job \in Job : job.repository \in Repositories
BY DEF Job

\* The first repository a call has to do, and the rest.
LEMMA TodoType ==
  ASSUME TypeOK, NEW c \in Callers, todo[c] # <<>>
  PROVE  /\ Head(todo[c]) \in Repositories
         /\ Tail(todo[c]) \in Seq(Repositories)
<1>1. todo[c] \in Seq(Repositories)
  BY DEF TypeOK
<1> QED
  BY <1>1

\* What updateStatus does to the statuses.
LEMMA StatusUpdated ==
  ASSUME TypeOK, NEW repository \in Repositories, NEW new \in Statuses,
         UpdateStatus(repository, new)
  PROVE  /\ status' \in [Repositories -> Statuses]
         /\ status'[repository] = new
         /\ \A other \in Repositories \ {repository} : status'[other] = status[other]
         /\ stranded' = stranded \ {repository}
         /\ stranded' \in SUBSET Repositories
BY DEF TypeOK, UpdateStatus

\* A step of a handler keeps the types.
LEMMA JobStepTyped ==
  ASSUME TypeOK, NEW job, NEW from \in Phase, NEW to \in Phase \ {"idle"},
         PhaseFrom(job, from, to),
         status' \in [Repositories -> Statuses],
         target' \in SUBSET Repositories, stranded' \in SUBSET Repositories,
         UNCHANGED <<waiting, running, finished, clock, mayDelete, overlapped, callVars>>
  PROVE  TypeOK'
<1>1. phase' \in [Job -> Phase]
  BY DEF TypeOK, PhaseFrom
<1>2. \A j \in Job : phase'[j] # "idle" <=> j \in running'
  BY DEF TypeOK, PhaseFrom
<1> QED
  BY <1>1, <1>2 DEF TypeOK, callVars

\* A step of a call that holds qmi.mu keeps the types.
LEMMA CallStepTyped ==
  ASSUME TypeOK, NEW c \in Callers, NEW from \in Holding, NEW to \in Holding,
         CallAt(c, from, to),
         todo' \in [Callers -> Seq(Repositories)],
         status' \in [Repositories -> Statuses],
         target' \in SUBSET Repositories, stranded' \in SUBSET Repositories,
         overlapped' \in SUBSET Repositories,
         UNCHANGED <<jobVars, deletes, qmiMu, migratorMu>>
  PROVE  TypeOK'
<1>1. pc' \in [Callers -> CallPC]
  BY DEF TypeOK, CallAt, Holding, CallPC
<1>2. \A d \in Callers :
        pc'[d] \in {"next", "validate", "report", "enqueue"} <=> qmiMu' = d
  BY DEF TypeOK, CallAt, Holding
<1> QED
  BY <1>1, <1>2 DEF TypeOK, jobVars
-----------------------------------------------------------------------------
(* Steps of handlers.                                                      *)

\* A handler that goes on, and may clear the target on its way, is still at
\* work on its repository.
LEMMA GoesOnKeepsInv ==
  ASSUME MigrationsInv, NEW job \in running,
         NEW from \in Phase \ {"idle", "return"},
         NEW to \in Phase \ {"idle", "return", "imported"},
         GoesOn(job, from, to),
         target' = target \/ target' = target \ {job.repository}
  PROVE  MigrationsInv'
<1> USE DEF MigrationsInv
<1> DEFINE r == job.repository
<1>1. job \in Job /\ r \in Repositories
  BY JobRepository DEF TypeOK
<1>2. PhaseFrom(job, from, to) /\ UpdateStatus(r, "in_progress")
  BY DEF GoesOn
<1>3. /\ status' \in [Repositories -> Statuses]
      /\ status'[r] = "in_progress"
      /\ \A other \in Repositories \ {r} : status'[other] = status[other]
      /\ stranded' = stranded \ {r}
      /\ stranded' \in SUBSET Repositories
  BY <1>1, <1>2, StatusUpdated DEF Statuses
<1>4. UNCHANGED <<waiting, running, finished, clock, mayDelete, overlapped, callVars>>
  BY DEF GoesOn
<1>5. TypeOK'
  <2>1. target' \in SUBSET Repositories
    BY DEF TypeOK
  <2> QED
    BY <1>2, <1>3, <1>4, <2>1, JobStepTyped
<1>6. /\ ActiveJobs' = ActiveJobs
      /\ job \in ActiveJobs
      /\ phase'[job] = to
      /\ \A other \in ActiveJobs \ {job} : phase'[other] = phase[other]
  BY <1>1, <1>2, <1>4 DEF TypeOK, PhaseFrom, ActiveJobs
<1>7. \A repository : CallWorksOn(repository)' <=> CallWorksOn(repository)
  BY <1>4 DEF CallWorksOn, callVars
<1>8. JobsPlaced' /\ CallsBusy'
  BY <1>4 DEF JobsPlaced, CallsBusy, callVars
<1>9. ProgressHasWork'
  BY <1>3, <1>6, <1>7 DEF ProgressHasWork
<1>10. ASSUME NEW repository \in Repositories \ overlapped'
       PROVE  AttemptAlone(repository)'
  <2>1. AttemptAlone(repository)
    BY <1>4, <1>10 DEF OneAttempt
  <2>2. CASE repository = r
    BY <1>3, <1>4, <1>6, <2>1, <2>2 DEF AttemptAlone, callVars
  <2>3. CASE repository # r
    BY <1>3, <1>4, <1>6, <2>1, <2>3 DEF AttemptAlone, callVars
  <2> QED
    BY <2>2, <2>3
<1> QED
  BY <1>5, <1>8, <1>9, <1>10 DEF OneAttempt

\* A handler that reports a failure leaves nothing in progress.
LEMMA FailureKeepsInv ==
  ASSUME MigrationsInv, NEW job \in running,
         NEW from \in Phase \ {"idle", "return"}, NEW to \in {"report", "return"},
         PhaseFrom(job, from, to), UpdateStatus(job.repository, "failed"),
         target' = target \/ target' = target \ {job.repository},
         UNCHANGED <<waiting, running, finished, clock, mayDelete, overlapped, callVars>>
  PROVE  MigrationsInv'
<1> USE DEF MigrationsInv
<1> DEFINE r == job.repository
<1>1. job \in Job /\ r \in Repositories
  BY JobRepository DEF TypeOK
<1>3. /\ status' \in [Repositories -> Statuses]
      /\ status'[r] = "failed"
      /\ \A other \in Repositories \ {r} : status'[other] = status[other]
      /\ stranded' = stranded \ {r}
      /\ stranded' \in SUBSET Repositories
  BY <1>1, StatusUpdated DEF Statuses
<1>5. TypeOK'
  <2>1. target' \in SUBSET Repositories
    BY DEF TypeOK
  <2>2. from \in Phase /\ to \in Phase \ {"idle"}
    BY DEF Phase
  <2> QED
    BY <1>3, <2>1, <2>2, JobStepTyped
<1>6. /\ ActiveJobs' \subseteq ActiveJobs
      /\ \A other \in ActiveJobs \ {job} : other \in ActiveJobs'
      /\ job \in ActiveJobs
      /\ job \in ActiveJobs' => phase'[job] = "report"
      /\ \A other \in ActiveJobs \ {job} : phase'[other] = phase[other]
  BY <1>1 DEF TypeOK, PhaseFrom, ActiveJobs
<1>7. \A repository : CallWorksOn(repository)' <=> CallWorksOn(repository)
  BY DEF CallWorksOn, callVars
<1>8. JobsPlaced' /\ CallsBusy'
  BY DEF JobsPlaced, CallsBusy, callVars
<1>9. ProgressHasWork'
  BY <1>3, <1>6, <1>7 DEF ProgressHasWork
<1>10. ASSUME NEW repository \in Repositories \ overlapped'
       PROVE  AttemptAlone(repository)'
  <2>1. AttemptAlone(repository)
    BY <1>10 DEF OneAttempt
  <2>2. CASE repository = r
    <3>1. \A other \in ActiveJobs' : other.repository = r => phase'[other] = "report"
      BY <1>6, <2>1, <2>2 DEF AttemptAlone
    <3> QED
      BY <1>3, <1>6, <2>1, <2>2, <3>1 DEF AttemptAlone, callVars
  <2>3. CASE repository # r
    BY <1>3, <1>6, <2>1, <2>3 DEF AttemptAlone, callVars
  <2> QED
    BY <2>2, <2>3
<1> QED
  BY <1>5, <1>8, <1>9, <1>10 DEF OneAttempt
-----------------------------------------------------------------------------
(* Steps of calls.                                                         *)

\* A call that neither begins to validate nor goes on to enqueue disturbs no
\* attempt, as long as it makes no success known.
LEMMA AttemptsUndisturbed ==
  ASSUME OneAttempt, NEW c \in Callers,
         UNCHANGED <<jobVars, target, overlapped>>,
         pc'[c] \notin {"validate", "enqueue"},
         \A d \in Callers \ {c} : pc'[d] = pc[d] /\ todo'[d] = todo[d],
         \A repository \in Repositories :
           status'[repository] = "succeeded" => status[repository] = "succeeded"
  PROVE  OneAttempt'
<1> SUFFICES ASSUME NEW repository \in Repositories \ overlapped'
             PROVE  AttemptAlone(repository)'
  BY DEF OneAttempt
<1>1. AttemptAlone(repository)
  BY DEF OneAttempt
<1>2. ActiveJobs' = ActiveJobs /\ phase' = phase /\ target' = target
  BY DEF ActiveJobs, jobVars
<1>3. \A d \in Callers :
        pc'[d] \in {"validate", "enqueue"} => pc[d] = pc'[d] /\ todo'[d] = todo[d]
  OBVIOUS
<1> QED
  BY <1>1, <1>2, <1>3 DEF AttemptAlone

\* A request for a repository arrives.
LEMMA StartMigrationKeepsInv ==
  ASSUME MigrationsInv, NEW c \in Callers, NEW request \in Requests,
         NEW withDelete \in BOOLEAN, StartMigration(c, request, withDelete)
  PROVE  MigrationsInv'
<1> USE DEF MigrationsInv
<1>1. /\ pc[c] = "none" /\ pc' = [pc EXCEPT ![c] = "lock"]
      /\ todo' = [todo EXCEPT ![c] = request]
      /\ UNCHANGED <<jobVars, repoVars, qmiMu, migratorMu>>
  BY DEF StartMigration, CallAt
<1>2. /\ pc' \in [Callers -> CallPC] /\ pc'[c] = "lock"
      /\ todo' \in [Callers -> Seq(Repositories)]
      /\ \A d \in Callers \ {c} : pc'[d] = pc[d] /\ todo'[d] = todo[d]
  BY <1>1, CallersAssumption DEF TypeOK, CallPC
<1>3. TypeOK'
  <2>1. deletes' \in SUBSET Callers
    BY DEF TypeOK, StartMigration
  <2>2. \A d \in Callers :
          pc'[d] \in {"next", "validate", "report", "enqueue"} <=> qmiMu' = d
    BY <1>1, <1>2 DEF TypeOK
  <2> QED
    BY <1>1, <1>2, <2>1, <2>2 DEF TypeOK, jobVars, repoVars
<1>4. JobsPlaced'
  BY <1>1 DEF JobsPlaced, jobVars
<1>5. migratorMu # c
  BY <1>1 DEF CallsBusy
<1>6. CallsBusy'
  BY <1>1, <1>2, <1>5 DEF CallsBusy
<1>7. ProgressHasWork'
  <2>1. \A repository : CallWorksOn(repository) => CallWorksOn(repository)'
    BY <1>1, <1>2, <1>5 DEF CallWorksOn
  <2>2. ActiveJobs' = ActiveJobs
    BY <1>1 DEF ActiveJobs, jobVars
  <2> QED
    BY <1>1, <2>1, <2>2 DEF ProgressHasWork, repoVars
<1>8. OneAttempt'
  BY <1>1, <1>2, AttemptsUndisturbed DEF repoVars
<1> QED
  BY <1>3, <1>4, <1>6, <1>7, <1>8

\* A retry resets the status and keeps m.mu: the repository is the call's.
LEMMA RetryMigrationKeepsInv ==
  ASSUME MigrationsInv, NEW c \in Callers, NEW repository \in Repositories,
         RetryMigration(c, repository)
  PROVE  MigrationsInv'
<1> USE DEF MigrationsInv
<1>1. /\ pc[c] = "none" /\ pc' = [pc EXCEPT ![c] = "lock"]
      /\ migratorMu = NoCaller /\ migratorMu' = c
      /\ status' = [status EXCEPT ![repository] = "in_progress"]
      /\ todo' = [todo EXCEPT ![c] = <<repository>>]
      /\ UNCHANGED <<jobVars, target, stranded, overlapped, deletes, qmiMu>>
  BY DEF RetryMigration, CallAt
<1>2. /\ pc' \in [Callers -> CallPC] /\ pc'[c] = "lock"
      /\ todo' \in [Callers -> Seq(Repositories)] /\ todo'[c] = <<repository>>
      /\ \A d \in Callers \ {c} : pc'[d] = pc[d] /\ todo'[d] = todo[d]
      /\ status' \in [Repositories -> Statuses]
  BY <1>1 DEF TypeOK, CallPC, Statuses
<1>3. TypeOK'
  <2>1. \A d \in Callers :
          pc'[d] \in {"next", "validate", "report", "enqueue"} <=> qmiMu' = d
    BY <1>1, <1>2 DEF TypeOK
  <2> QED
    BY <1>1, <1>2, <2>1 DEF TypeOK, jobVars
<1>4. JobsPlaced'
  BY <1>1 DEF JobsPlaced, jobVars
<1>5. CallsBusy'
  BY <1>1, <1>2 DEF CallsBusy
<1>6. ProgressHasWork'
  <2>1. \A other : CallWorksOn(other) => CallWorksOn(other)'
    BY <1>1, <1>2, CallersAssumption DEF CallWorksOn
  <2>2. CallWorksOn(repository)'
    <3>1. todo'[c] # <<>> /\ Head(todo'[c]) = repository
      BY <1>2
    <3> QED
      BY <1>1, <3>1 DEF CallWorksOn
  <2>3. ActiveJobs' = ActiveJobs
    BY <1>1 DEF ActiveJobs, jobVars
  <2>4. \A other \in Repositories \ {repository} : status'[other] = status[other]
    BY <1>1 DEF TypeOK
  <2> QED
    BY <1>1, <2>1, <2>2, <2>3, <2>4 DEF ProgressHasWork
<1>7. OneAttempt'
  <2>1. \A other \in Repositories :
          status'[other] = "succeeded" => status[other] = "succeeded"
    BY <1>1 DEF TypeOK
  <2> QED
    BY <1>1, <1>2, <2>1, AttemptsUndisturbed
<1> QED
  BY <1>3, <1>4, <1>5, <1>6, <1>7

\* A call takes qmi.mu.
LEMMA LockQueueKeepsInv ==
  ASSUME MigrationsInv, NEW c \in Callers, LockQueue(c)
  PROVE  MigrationsInv'
<1> USE DEF MigrationsInv
<1>1. /\ pc[c] = "lock" /\ pc' = [pc EXCEPT ![c] = "next"]
      /\ qmiMu = NoCaller /\ qmiMu' = c
      /\ UNCHANGED <<jobVars, repoVars, todo, deletes, migratorMu>>
  BY DEF LockQueue, CallAt, QueueUnlocked
<1>2. /\ pc' \in [Callers -> CallPC] /\ pc'[c] = "next"
      /\ \A d \in Callers \ {c} : pc'[d] = pc[d]
  BY <1>1 DEF TypeOK, CallPC
<1>3. TypeOK'
  <2>1. \A d \in Callers :
          pc'[d] \in {"next", "validate", "report", "enqueue"} <=> qmiMu' = d
    BY <1>1, <1>2, CallersAssumption DEF TypeOK
  <2> QED
    BY <1>1, <1>2, <2>1 DEF TypeOK, jobVars, repoVars
<1>4. JobsPlaced'
  BY <1>1 DEF JobsPlaced, jobVars
<1>5. CallsBusy'
  BY <1>1, <1>2 DEF CallsBusy
<1>6. ProgressHasWork'
  <2>1. \A repository : CallWorksOn(repository) => CallWorksOn(repository)'
    BY <1>1, <1>2 DEF CallWorksOn
  <2>2. ActiveJobs' = ActiveJobs
    BY <1>1 DEF ActiveJobs, jobVars
  <2> QED
    BY <1>1, <2>1, <2>2 DEF ProgressHasWork, repoVars
<1>7. OneAttempt'
  BY <1>1, <1>2, AttemptsUndisturbed DEF repoVars
<1> QED
  BY <1>3, <1>4, <1>5, <1>6, <1>7

\* A call that cannot create its clients strands what a retry has reset.
LEMMA ClientsFailKeepsInv ==
  ASSUME MigrationsInv, NEW c \in Callers, ClientsFail(c)
  PROVE  MigrationsInv'
<1> USE DEF MigrationsInv
<1>1. /\ pc[c] = "lock" /\ pc' = [pc EXCEPT ![c] = "done"]
      /\ qmiMu = NoCaller
      /\ todo' = [todo EXCEPT ![c] = <<>>]
      /\ migratorMu' = IF migratorMu = c THEN NoCaller ELSE migratorMu
      /\ stranded' = IF migratorMu = c THEN stranded \cup {Head(todo[c])} ELSE stranded
      /\ UNCHANGED <<jobVars, status, target, overlapped, deletes, qmiMu>>
  BY DEF ClientsFail, CallAt, QueueUnlocked
<1>2. /\ pc' \in [Callers -> CallPC] /\ pc'[c] = "done"
      /\ todo' \in [Callers -> Seq(Repositories)]
      /\ \A d \in Callers \ {c} : pc'[d] = pc[d] /\ todo'[d] = todo[d]
  BY <1>1 DEF TypeOK, CallPC
<1>3. TypeOK'
  <2>1. \A d \in Callers :
          pc'[d] \in {"next", "validate", "report", "enqueue"} <=> qmiMu' = d
    BY <1>1, <1>2 DEF TypeOK
  <2>2. migratorMu' \in Callers \cup {NoCaller}
    BY <1>1 DEF TypeOK
  <2>3. stranded' \in SUBSET Repositories
    <3>1. migratorMu = c => Head(todo[c]) \in Repositories
      BY TodoType DEF CallsBusy
    <3> QED
      BY <1>1, <3>1 DEF TypeOK
  <2> QED
    BY <1>1, <1>2, <2>1, <2>2, <2>3 DEF TypeOK, jobVars
<1>4. JobsPlaced'
  BY <1>1 DEF JobsPlaced, jobVars
<1>5. CallsBusy'
  BY <1>1, <1>2, CallersAssumption DEF CallsBusy
<1>6. ProgressHasWork'
  <2>1. \A repository \in Repositories :
          CallWorksOn(repository) => CallWorksOn(repository)' \/ repository \in stranded'
    BY <1>1, <1>2 DEF CallWorksOn
  <2>2. ActiveJobs' = ActiveJobs /\ stranded \subseteq stranded'
    BY <1>1 DEF ActiveJobs, jobVars
  <2> QED
    BY <1>1, <2>1, <2>2 DEF ProgressHasWork
<1>7. OneAttempt'
  BY <1>1, <1>2, AttemptsUndisturbed
<1> QED
  BY <1>3, <1>4, <1>5, <1>6, <1>7

\* A call that returns has enqueued all its repositories; a retry never has.
LEMMA ReturnKeepsInv ==
  ASSUME MigrationsInv, NEW c \in Callers, Return(c)
  PROVE  MigrationsInv'
<1> USE DEF MigrationsInv
<1>1. /\ pc[c] = "next" /\ pc' = [pc EXCEPT ![c] = "done"]
      /\ todo[c] = <<>>
      /\ qmiMu' = NoCaller
      /\ migratorMu' = IF migratorMu = c THEN NoCaller ELSE migratorMu
      /\ UNCHANGED <<jobVars, repoVars, todo, deletes>>
  BY DEF Return, CallAt
<1>2. /\ pc' \in [Callers -> CallPC] /\ pc'[c] = "done"
      /\ \A d \in Callers \ {c} : pc'[d] = pc[d]
  BY <1>1 DEF TypeOK, CallPC
<1>3. migratorMu' = migratorMu /\ migratorMu # c
  BY <1>1 DEF CallsBusy
<1>4. TypeOK'
  <2>1. \A d \in Callers :
          pc'[d] \in {"next", "validate", "report", "enqueue"} <=> qmiMu' = d
    BY <1>1, <1>2, CallersAssumption DEF TypeOK
  <2> QED
    BY <1>1, <1>2, <1>3, <2>1 DEF TypeOK, jobVars, repoVars
<1>5. JobsPlaced'
  BY <1>1 DEF JobsPlaced, jobVars
<1>6. CallsBusy'
  BY <1>1, <1>2, <1>3 DEF CallsBusy
<1>7. ProgressHasWork'
  <2>1. \A repository : CallWorksOn(repository) => CallWorksOn(repository)'
    BY <1>1, <1>2, <1>3 DEF CallWorksOn
  <2>2. ActiveJobs' = ActiveJobs
    BY <1>1 DEF ActiveJobs, jobVars
  <2> QED
    BY <1>1, <2>1, <2>2 DEF ProgressHasWork, repoVars
<1>8. OneAttempt'
  BY <1>1, <1>2, AttemptsUndisturbed DEF repoVars
<1> QED
  BY <1>4, <1>5, <1>6, <1>7, <1>8

\* A job that waits has its handler still before it.
LEMMA WaitingActive ==
  ASSUME TypeOK, JobsPlaced
  PROVE  waiting \subseteq ActiveJobs
BY DEF TypeOK, JobsPlaced, ActiveJobs

\* A call that cannot enqueue strands the repository unless a job of it waits.
LEMMA ArchiveRejectedKeepsInv ==
  ASSUME MigrationsInv, NEW c \in Callers, ArchiveRejected(c)
  PROVE  MigrationsInv'
<1> USE DEF MigrationsInv
<1> DEFINE r == Head(todo[c])
<1>1. /\ pc[c] = "enqueue" /\ CallAt(c, "enqueue", "next")
      /\ pc' = [pc EXCEPT ![c] = "next"]
      /\ todo' = [todo EXCEPT ![c] = Tail(@)]
      /\ stranded' = IF \E job \in waiting : job.repository = r
                     THEN stranded ELSE stranded \cup {r}
      /\ UNCHANGED <<jobVars, status, target, overlapped, deletes, qmiMu, migratorMu>>
  BY DEF ArchiveRejected, CallAt
<1>2. todo[c] # <<>> /\ migratorMu # c
  BY <1>1 DEF CallsBusy
<1>3. /\ pc'[c] = "next"
      /\ todo' \in [Callers -> Seq(Repositories)]
      /\ \A d \in Callers \ {c} : pc'[d] = pc[d] /\ todo'[d] = todo[d]
  <2>1. Tail(todo[c]) \in Seq(Repositories)
    BY <1>2, TodoType
  <2> QED
    BY <1>1, <2>1 DEF TypeOK
<1>4. TypeOK'
  <2>1. stranded' \in SUBSET Repositories
    <3>1. r \in Repositories
      BY <1>2, TodoType
    <3> QED
      BY <1>1, <3>1 DEF TypeOK
  <2>2. status' \in [Repositories -> Statuses] /\ target' \in SUBSET Repositories
        /\ overlapped' \in SUBSET Repositories
    BY <1>1 DEF TypeOK
  <2> QED
    BY <1>1, <1>3, <2>1, <2>2, CallStepTyped DEF Holding
<1>5. JobsPlaced'
  BY <1>1 DEF JobsPlaced, jobVars
<1>6. CallsBusy'
  BY <1>1, <1>2, <1>3 DEF CallsBusy
<1>7. ProgressHasWork'
  <2>1. \A repository \in Repositories \ {r} :
          CallWorksOn(repository) => CallWorksOn(repository)'
    BY <1>1, <1>2, <1>3 DEF CallWorksOn
  <2>2. (\E job \in ActiveJobs : job.repository = r) \/ r \in stranded'
    BY <1>1, WaitingActive
  <2>3. ActiveJobs' = ActiveJobs /\ stranded \subseteq stranded'
    BY <1>1 DEF ActiveJobs, jobVars
  <2> QED
    BY <1>1, <2>1, <2>2, <2>3 DEF ProgressHasWork
<1>8. OneAttempt'
  BY <1>1, <1>3, AttemptsUndisturbed
<1> QED
  BY <1>4, <1>5, <1>6, <1>7, <1>8

\* EnqueueMigration reports a repository that is not valid.
LEMMA ReportInvalidKeepsInv ==
  ASSUME MigrationsInv, NEW c \in Callers, ReportInvalid(c)
  PROVE  MigrationsInv'
<1> USE DEF MigrationsInv
<1> DEFINE r == Head(todo[c])
<1>1. /\ pc[c] = "report" /\ CallAt(c, "report", "next")
      /\ pc' = [pc EXCEPT ![c] = "next"]
      /\ UpdateStatus(r, "failed") /\ migratorMu = NoCaller
      /\ todo' = [todo EXCEPT ![c] = Tail(@)]
      /\ UNCHANGED <<jobVars, target, overlapped, deletes, qmiMu, migratorMu>>
  BY DEF ReportInvalid, CallAt, UpdateStatus
<1>2. todo[c] # <<>> /\ r \in Repositories /\ Tail(todo[c]) \in Seq(Repositories)
  BY <1>1, TodoType DEF CallsBusy
<1>3. /\ status' \in [Repositories -> Statuses]
      /\ status'[r] = "failed"
      /\ \A other \in Repositories \ {r} : status'[other] = status[other]
      /\ stranded' = stranded \ {r}
      /\ stranded' \in SUBSET Repositories
  BY <1>1, <1>2, StatusUpdated DEF Statuses
<1>4. /\ pc'[c] = "next"
      /\ todo' \in [Callers -> Seq(Repositories)]
      /\ \A d \in Callers \ {c} : pc'[d] = pc[d] /\ todo'[d] = todo[d]
  BY <1>1, <1>2 DEF TypeOK
<1>5. TypeOK'
  <2>1. target' \in SUBSET Repositories /\ overlapped' \in SUBSET Repositories
    BY <1>1 DEF TypeOK
  <2> QED
    BY <1>1, <1>3, <1>4, <2>1, CallStepTyped DEF Holding
<1>6. JobsPlaced'
  BY <1>1 DEF JobsPlaced, jobVars
<1>7. CallsBusy'
  BY <1>1, <1>4, CallersAssumption DEF CallsBusy
<1>8. ProgressHasWork'
  <2>1. \A repository \in Repositories \ {r} :
          CallWorksOn(repository) => CallWorksOn(repository)'
    BY <1>1, <1>4 DEF CallWorksOn
  <2>2. ActiveJobs' = ActiveJobs
    BY <1>1 DEF ActiveJobs, jobVars
  <2> QED
    BY <1>3, <2>1, <2>2 DEF ProgressHasWork
<1>9. OneAttempt'
  <2>1. \A repository \in Repositories :
          status'[repository] = "succeeded" => status[repository] = "succeeded"
    BY <1>3
  <2> QED
    BY <1>1, <1>4, <2>1, AttemptsUndisturbed
<1> QED
  BY <1>5, <1>6, <1>7, <1>8, <1>9

\* A call begins to validate a repository: it is the call's from now on.  If a
\* job of it waits or runs it is requested again, and its attempts are no
\* longer alone.
LEMMA BeginValidationKeepsInv ==
  ASSUME MigrationsInv, NEW c \in Callers, BeginValidation(c)
  PROVE  MigrationsInv'
<1> USE DEF MigrationsInv
<1> DEFINE r == Head(todo[c])
<1>1. /\ pc[c] = "next" /\ CallAt(c, "next", "validate")
      /\ pc' = [pc EXCEPT ![c] = "validate"]
      /\ todo[c] # <<>>
      /\ UpdateStatus(r, "in_progress") /\ migratorMu = NoCaller
      /\ overlapped' = IF HasJob(r) THEN overlapped \cup {r} ELSE overlapped
      /\ UNCHANGED <<jobVars, target, todo, deletes, qmiMu, migratorMu>>
  BY DEF BeginValidation, CallAt, UpdateStatus
<1>2. r \in Repositories
  BY <1>1, TodoType
<1>3. /\ status' \in [Repositories -> Statuses]
      /\ status'[r] = "in_progress"
      /\ \A other \in Repositories \ {r} : status'[other] = status[other]
      /\ stranded' = stranded \ {r}
      /\ stranded' \in SUBSET Repositories
  BY <1>1, <1>2, StatusUpdated DEF Statuses
<1>4. /\ pc'[c] = "validate"
      /\ \A d \in Callers \ {c} : pc'[d] = pc[d]
  BY <1>1 DEF TypeOK
<1>5. TypeOK'
  <2>1. /\ target' \in SUBSET Repositories /\ overlapped' \in SUBSET Repositories
        /\ todo' \in [Callers -> Seq(Repositories)]
    BY <1>1, <1>2 DEF TypeOK
  <2> QED
    BY <1>1, <1>3, <2>1, CallStepTyped DEF Holding
<1>6. JobsPlaced'
  BY <1>1 DEF JobsPlaced, jobVars
<1>7. CallsBusy'
  BY <1>1, <1>4, CallersAssumption DEF CallsBusy
<1>8. ActiveJobs' = ActiveJobs /\ phase' = phase
  BY <1>1 DEF ActiveJobs, jobVars
<1>9. ProgressHasWork'
  <2>1. \A repository : CallWorksOn(repository) => CallWorksOn(repository)'
    BY <1>1, <1>4 DEF CallWorksOn
  <2>2. CallWorksOn(r)'
    BY <1>1, <1>4 DEF CallWorksOn
  <2> QED
    BY <1>1, <1>3, <1>8, <2>1, <2>2 DEF ProgressHasWork
<1>10. ASSUME NEW repository \in Repositories \ overlapped'
       PROVE  AttemptAlone(repository)'
  <2>1. AttemptAlone(repository)
    BY <1>1, <1>10 DEF OneAttempt
  <2>2. \A d \in Callers \ {c} : pc'[d] \notin {"validate", "enqueue"}
    BY <1>1, <1>4 DEF TypeOK
  <2>3. CASE repository = r
    <3>1. \A job \in ActiveJobs : job.repository # r
      BY <1>1, <1>10, <2>3 DEF HasJob, ActiveJobs
    <3> QED
      BY <1>3, <1>8, <2>1, <2>3, <3>1 DEF AttemptAlone
  <2>4. CASE repository # r
    BY <1>1, <1>3, <1>8, <2>1, <2>2, <2>4 DEF AttemptAlone
  <2> QED
    BY <2>3, <2>4
<1> QED
  BY <1>5, <1>6, <1>7, <1>9, <1>10 DEF OneAttempt

\* A call that has validated its repository still works on it.
LEMMA ValidatedKeepsInv ==
  ASSUME MigrationsInv, NEW c \in Callers, Validated(c)
  PROVE  MigrationsInv'
<1> USE DEF MigrationsInv
<1> DEFINE r == Head(todo[c])
<1>1. /\ pc[c] = "validate" /\ CallAt(c, "validate", "enqueue")
      /\ pc' = [pc EXCEPT ![c] = "enqueue"]
      /\ target' = target \/ target' = target \ {r}
      /\ UpdateStatus(r, "in_progress") /\ migratorMu = NoCaller
      /\ UNCHANGED <<jobVars, overlapped, todo, deletes, qmiMu, migratorMu>>
  BY DEF Validated, CallAt, UpdateStatus, ClearTarget
<1>2. todo[c] # <<>> /\ r \in Repositories
  BY <1>1, TodoType DEF CallsBusy
<1>3. /\ status' \in [Repositories -> Statuses]
      /\ status'[r] = "in_progress"
      /\ \A other \in Repositories \ {r} : status'[other] = status[other]
      /\ stranded' = stranded \ {r}
      /\ stranded' \in SUBSET Repositories
  BY <1>1, <1>2, StatusUpdated DEF Statuses
<1>4. /\ pc'[c] = "enqueue"
      /\ \A d \in Callers \ {c} : pc'[d] = pc[d]
  BY <1>1 DEF TypeOK
<1>5. TypeOK'
  <2>1. /\ target' \in SUBSET Repositories /\ overlapped' \in SUBSET Repositories
        /\ todo' \in [Callers -> Seq(Repositories)]
    BY <1>1 DEF TypeOK
  <2> QED
    BY <1>1, <1>3, <2>1, CallStepTyped DEF Holding
<1>6. JobsPlaced'
  BY <1>1 DEF JobsPlaced, jobVars
<1>7. CallsBusy'
  BY <1>1, <1>2, <1>4, CallersAssumption DEF CallsBusy
<1>8. ActiveJobs' = ActiveJobs /\ phase' = phase
  BY <1>1 DEF ActiveJobs, jobVars
<1>9. ProgressHasWork'
  <2>1. \A repository : CallWorksOn(repository) => CallWorksOn(repository)'
    BY <1>1, <1>4 DEF CallWorksOn
  <2>2. CallWorksOn(r)'
    BY <1>1, <1>2, <1>4 DEF CallWorksOn
  <2> QED
    BY <1>1, <1>3, <1>8, <2>1, <2>2 DEF ProgressHasWork
<1>10. ASSUME NEW repository \in Repositories \ overlapped'
       PROVE  AttemptAlone(repository)'
  <2>1. AttemptAlone(repository)
    BY <1>1, <1>10 DEF OneAttempt
  <2>2. \A d \in Callers \ {c} : pc'[d] \notin {"validate", "enqueue"}
    BY <1>1, <1>4 DEF TypeOK
  <2>3. CASE repository = r
    <3>1. \A job \in ActiveJobs : job.repository # r
      BY <1>1, <2>1, <2>3 DEF AttemptAlone
    <3> QED
      BY <1>3, <1>8, <2>1, <2>3, <3>1 DEF AttemptAlone
  <2>4. CASE repository # r
    BY <1>1, <1>3, <1>8, <2>1, <2>2, <2>4 DEF AttemptAlone
  <2> QED
    BY <2>3, <2>4
<1> QED
  BY <1>5, <1>6, <1>7, <1>9, <1>10 DEF OneAttempt

\* A call that finds its repository not valid reports it.
LEMMA ValidationFailsKeepsInv ==
  ASSUME MigrationsInv, NEW c \in Callers, ValidationFails(c)
  PROVE  MigrationsInv'
<1> USE DEF MigrationsInv
<1> DEFINE r == Head(todo[c])
<1>1. /\ pc[c] = "validate" /\ CallAt(c, "validate", "report")
      /\ pc' = [pc EXCEPT ![c] = "report"]
      /\ target' = target \/ target' = target \ {r}
      /\ UpdateStatus(r, "failed") /\ migratorMu = NoCaller
      /\ UNCHANGED <<jobVars, overlapped, todo, deletes, qmiMu, migratorMu>>
  BY DEF ValidationFails, CallAt, UpdateStatus, MayHaveCleared
<1>2. todo[c] # <<>> /\ r \in Repositories
  BY <1>1, TodoType DEF CallsBusy
<1>3. /\ status' \in [Repositories -> Statuses]
      /\ status'[r] = "failed"
      /\ \A other \in Repositories \ {r} : status'[other] = status[other]
      /\ stranded' = stranded \ {r}
      /\ stranded' \in SUBSET Repositories
  BY <1>1, <1>2, StatusUpdated DEF Statuses
<1>4. /\ pc'[c] = "report"
      /\ \A d \in Callers \ {c} : pc'[d] = pc[d]
  BY <1>1 DEF TypeOK
<1>5. TypeOK'
  <2>1. /\ target' \in SUBSET Repositories /\ overlapped' \in SUBSET Repositories
        /\ todo' \in [Callers -> Seq(Repositories)]
    BY <1>1 DEF TypeOK
  <2> QED
    BY <1>1, <1>3, <2>1, CallStepTyped DEF Holding
<1>6. JobsPlaced'
  BY <1>1 DEF JobsPlaced, jobVars
<1>7. CallsBusy'
  BY <1>1, <1>2, <1>4, CallersAssumption DEF CallsBusy
<1>8. ActiveJobs' = ActiveJobs /\ phase' = phase
  BY <1>1 DEF ActiveJobs, jobVars
<1>9. ProgressHasWork'
  <2>1. \A repository \in Repositories \ {r} :
          CallWorksOn(repository) => CallWorksOn(repository)'
    BY <1>1, <1>4 DEF CallWorksOn
  <2> QED
    BY <1>3, <1>8, <2>1 DEF ProgressHasWork
<1>10. ASSUME NEW repository \in Repositories \ overlapped'
       PROVE  AttemptAlone(repository)'
  <2>1. AttemptAlone(repository)
    BY <1>1, <1>10 DEF OneAttempt
  <2>2. \A d \in Callers : pc'[d] \notin {"validate", "enqueue"}
    BY <1>1, <1>4 DEF TypeOK
  <2>3. CASE repository = r
    <3>1. \A job \in ActiveJobs : job.repository # r
      BY <1>1, <2>1, <2>3 DEF AttemptAlone
    <3> QED
      BY <1>3, <1>8, <2>1, <2>2, <2>3, <3>1 DEF AttemptAlone
  <2>4. CASE repository # r
    BY <1>1, <1>3, <1>8, <2>1, <2>2, <2>4 DEF AttemptAlone
  <2> QED
    BY <2>3, <2>4
<1> QED
  BY <1>5, <1>6, <1>7, <1>9, <1>10 DEF OneAttempt
-----------------------------------------------------------------------------
(* Steps that put a job into the pool.                                     *)

\* A job that is enqueued is a new one, waits, and has its handler before it.
LEMMA EnqueuedActive ==
  ASSUME MigrationsInv, NEW repository \in Repositories, NEW isArchive \in BOOLEAN,
         NEW withDelete, clock < MaxJobs,
         Enqueued(repository, isArchive, withDelete)
  PROVE  LET new == NewJob(repository, isArchive)
         IN  /\ new \in Job /\ new.repository = repository
             /\ new \notin waiting \cup running \cup finished
             /\ phase[new] = "idle"
             /\ waiting' = waiting \cup {new}
             /\ UNCHANGED <<running, finished>>
             /\ clock' \in 0..MaxJobs
             /\ {waiting', running', finished', mayDelete'} \subseteq SUBSET Job
<1> DEFINE new == NewJob(repository, isArchive)
<1>1. new \in Job /\ new.repository = repository
  BY JobsAssumption DEF MigrationsInv, TypeOK, NewJob, Job
<1>2. /\ new \notin waiting \cup running \cup finished
      /\ waiting' = waiting \cup {new}
      /\ UNCHANGED <<running, finished>>
      /\ clock' = clock + 1
      /\ mayDelete' = IF withDelete THEN mayDelete \cup {new} ELSE mayDelete
  BY DEF Enqueued, Accept
<1>3. phase[new] = "idle"
  BY <1>1, <1>2 DEF MigrationsInv, TypeOK
<1>4. clock' \in 0..MaxJobs
  BY <1>2, JobsAssumption DEF MigrationsInv, TypeOK
<1>5. {waiting', running', finished', mayDelete'} \subseteq SUBSET Job
  BY <1>1, <1>2 DEF MigrationsInv, TypeOK
<1> QED
  BY <1>1, <1>2, <1>3, <1>4, <1>5

\* The call hands its repository on to the archive job.
LEMMA EnqueueArchiveKeepsInv ==
  ASSUME MigrationsInv, NEW c \in Callers, EnqueueArchive(c)
  PROVE  MigrationsInv'
<1> USE DEF MigrationsInv
<1> DEFINE r == Head(todo[c])
           new == NewJob(r, TRUE)
<1>1. /\ pc[c] = "enqueue" /\ pc' = [pc EXCEPT ![c] = "next"]
      /\ clock < MaxJobs /\ Enqueued(r, TRUE, c \in deletes)
      /\ todo' = [todo EXCEPT ![c] = Tail(@)]
      /\ UNCHANGED <<phase, repoVars, deletes, qmiMu, migratorMu>>
  BY DEF EnqueueArchive, CallAt
<1>2. /\ todo[c] # <<>> /\ migratorMu # c
      /\ r \in Repositories /\ Tail(todo[c]) \in Seq(Repositories)
  BY <1>1, TodoType DEF CallsBusy
<1>3. /\ new \in Job /\ new.repository = r
      /\ new \notin waiting \cup running \cup finished
      /\ phase[new] = "idle"
      /\ waiting' = waiting \cup {new}
      /\ UNCHANGED <<running, finished>>
      /\ clock' \in 0..MaxJobs
      /\ {waiting', running', finished', mayDelete'} \subseteq SUBSET Job
  BY <1>1, <1>2, EnqueuedActive
<1>4. /\ pc' \in [Callers -> CallPC] /\ pc'[c] = "next"
      /\ todo' \in [Callers -> Seq(Repositories)]
      /\ \A d \in Callers \ {c} : pc'[d] = pc[d] /\ todo'[d] = todo[d]
  BY <1>1, <1>2 DEF TypeOK, CallPC
<1>5. TypeOK'
  <2>1. \A d \in Callers :
          pc'[d] \in {"next", "validate", "report", "enqueue"} <=> qmiMu' = d
    BY <1>1, <1>4 DEF TypeOK
  <2> QED
    BY <1>1, <1>3, <1>4, <2>1 DEF TypeOK, repoVars
<1>6. JobsPlaced'
  BY <1>3 DEF JobsPlaced
<1>7. CallsBusy'
  BY <1>1, <1>2, <1>4 DEF CallsBusy
<1>8. ActiveJobs' = ActiveJobs \cup {new} /\ phase' = phase
  BY <1>1, <1>3 DEF ActiveJobs
<1>9. ProgressHasWork'
  <2>1. \A repository \in Repositories \ {r} :
          CallWorksOn(repository) => CallWorksOn(repository)'
    BY <1>1, <1>4 DEF CallWorksOn
  <2> QED
    BY <1>1, <1>3, <1>8, <2>1 DEF ProgressHasWork, repoVars
<1>10. ASSUME NEW repository \in Repositories \ overlapped'
       PROVE  AttemptAlone(repository)'
  <2>1. AttemptAlone(repository)
    BY <1>1, <1>10 DEF OneAttempt, repoVars
  <2>2. \A d \in Callers : pc'[d] \notin {"validate", "enqueue"}
    BY <1>1, <1>4 DEF TypeOK
  <2>3. CASE repository = r
    <3>1. /\ \A job \in ActiveJobs : job.repository # r
          /\ status[r] # "succeeded"
      BY <1>1, <2>1, <2>3 DEF AttemptAlone
    <3> QED
      BY <1>1, <1>3, <1>8, <2>1, <2>2, <2>3, <3>1 DEF AttemptAlone, repoVars
  <2>4. CASE repository # r
    BY <1>1, <1>3, <1>8, <2>1, <2>2, <2>4 DEF AttemptAlone, repoVars
  <2> QED
    BY <2>3, <2>4
<1> QED
  BY <1>5, <1>6, <1>7, <1>9, <1>10 DEF OneAttempt

\* The archive job hands its repository on to the migration job, and returns.
LEMMA HandOverKeepsInv ==
  ASSUME MigrationsInv, NEW job \in running, HandOver(job)
  PROVE  MigrationsInv'
<1> USE DEF MigrationsInv
<1> DEFINE r == job.repository
           new == NewJob(r, FALSE)
<1>1. /\ phase[job] = "handover" /\ phase' = [phase EXCEPT ![job] = "return"]
      /\ clock < MaxJobs /\ Enqueued(r, FALSE, job \in mayDelete)
      /\ UNCHANGED <<repoVars, callVars>>
  BY DEF HandOver, PhaseFrom
<1>2. job \in Job /\ r \in Repositories
  BY JobRepository DEF TypeOK
<1>3. /\ new \in Job /\ new.repository = r
      /\ new \notin waiting \cup running \cup finished
      /\ phase[new] = "idle"
      /\ waiting' = waiting \cup {new}
      /\ UNCHANGED <<running, finished>>
      /\ clock' \in 0..MaxJobs
      /\ {waiting', running', finished', mayDelete'} \subseteq SUBSET Job
  BY <1>1, <1>2, EnqueuedActive
<1>4. /\ phase' \in [Job -> Phase]
      /\ phase'[job] = "return"
      /\ \A other \in Job \ {job} : phase'[other] = phase[other]
  BY <1>1 DEF TypeOK, Phase
<1>5. TypeOK'
  <2>1. \A j \in Job : phase'[j] # "idle" <=> j \in running'
    BY <1>2, <1>3, <1>4 DEF TypeOK
  <2> QED
    BY <1>1, <1>3, <1>4, <2>1 DEF TypeOK, repoVars, callVars
<1>6. JobsPlaced' /\ CallsBusy'
  BY <1>1, <1>3 DEF JobsPlaced, CallsBusy, callVars
<1>7. /\ ActiveJobs' = (ActiveJobs \ {job}) \cup {new}
      /\ job \in ActiveJobs
      /\ ActiveJobs \subseteq Job
  BY <1>1, <1>3, <1>4 DEF ActiveJobs, TypeOK
<1>8. /\ \A other \in ActiveJobs \ {job} : phase'[other] = phase[other]
      /\ phase'[new] = "idle"
  BY <1>1, <1>3, <1>4, <1>7
<1>9. ProgressHasWork'
  <2>1. \A repository : CallWorksOn(repository) => CallWorksOn(repository)'
    BY <1>1 DEF CallWorksOn, callVars
  <2> QED
    BY <1>1, <1>3, <1>7, <2>1 DEF ProgressHasWork, repoVars
<1>10. ASSUME NEW repository \in Repositories \ overlapped'
       PROVE  AttemptAlone(repository)'
  <2>1. AttemptAlone(repository)
    BY <1>1, <1>10 DEF OneAttempt, repoVars
  <2>2. CASE repository = r
    <3>1. /\ \A other \in ActiveJobs \ {job} : other.repository # r
          /\ status[r] # "succeeded"
          /\ \A c \in Callers : ~(pc[c] \in {"validate", "enqueue"} /\ Head(todo[c]) = r)
      BY <1>7, <2>1, <2>2 DEF AttemptAlone
    <3> QED
      BY <1>1, <1>3, <1>7, <1>8, <2>2, <3>1 DEF AttemptAlone, repoVars, callVars
  <2>3. CASE repository # r
    BY <1>1, <1>3, <1>7, <1>8, <2>1, <2>3 DEF AttemptAlone, repoVars, callVars
  <2> QED
    BY <2>2, <2>3
<1> QED
  BY <1>5, <1>6, <1>9, <1>10 DEF OneAttempt
-----------------------------------------------------------------------------
(* The other steps of jobs.                                                *)

\* A worker takes a job: it stays active.
LEMMA BeginJobKeepsInv ==
  ASSUME MigrationsInv, NEW job \in waiting, BeginJob(job)
  PROVE  MigrationsInv'
<1> USE DEF MigrationsInv
<1> DEFINE to == IF job.isArchive THEN "initialize" ELSE "lock"
<1>1. /\ waiting' = waiting \ {job} /\ running' = running \cup {job}
      /\ phase' = [phase EXCEPT ![job] = to]
      /\ UNCHANGED <<finished, clock, mayDelete, repoVars, callVars>>
  BY DEF BeginJob, Begin
<1>2. job \in Job /\ job \notin running /\ phase[job] = "idle"
  BY DEF TypeOK, JobsPlaced
<1>3. /\ phase' \in [Job -> Phase]
      /\ phase'[job] \in {"initialize", "lock"}
      /\ \A other \in Job \ {job} : phase'[other] = phase[other]
  BY <1>1, <1>2 DEF TypeOK, Phase
<1>4. TypeOK'
  <2>1. \A j \in Job : phase'[j] # "idle" <=> j \in running'
    BY <1>1, <1>2, <1>3 DEF TypeOK
  <2>2. {waiting', running', finished', mayDelete'} \subseteq SUBSET Job
    BY <1>1 DEF TypeOK
  <2> QED
    BY <1>1, <1>3, <2>1, <2>2 DEF TypeOK, repoVars, callVars
<1>5. JobsPlaced' /\ CallsBusy'
  BY <1>1 DEF JobsPlaced, CallsBusy, callVars
<1>6. /\ ActiveJobs' = ActiveJobs /\ ActiveJobs \subseteq Job
      /\ \A other \in ActiveJobs : phase'[other] = "imported" => phase[other] = "imported"
  BY <1>1, <1>2, <1>3 DEF ActiveJobs, TypeOK
<1>7. ProgressHasWork'
  <2>1. \A repository : CallWorksOn(repository) => CallWorksOn(repository)'
    BY <1>1 DEF CallWorksOn, callVars
  <2> QED
    BY <1>1, <1>6, <2>1 DEF ProgressHasWork, repoVars
<1>8. ASSUME NEW repository \in Repositories \ overlapped'
      PROVE  AttemptAlone(repository)'
  <2>1. AttemptAlone(repository)
    BY <1>1, <1>8 DEF OneAttempt, repoVars
  <2> QED
    BY <1>1, <1>6, <2>1 DEF AttemptAlone, repoVars, callVars
<1> QED
  BY <1>4, <1>5, <1>7, <1>8 DEF OneAttempt

\* A handler that takes qmi.mu has changed nothing yet.
LEMMA LockForImportPhaseKeepsInv ==
  ASSUME MigrationsInv, NEW job \in running, LockForImportPhase(job)
  PROVE  MigrationsInv'
<1> USE DEF MigrationsInv
<1>1. /\ phase[job] = "lock" /\ PhaseFrom(job, "lock", "locked")
      /\ phase' = [phase EXCEPT ![job] = "locked"]
      /\ UNCHANGED <<waiting, running, finished, clock, mayDelete, repoVars, callVars>>
  BY DEF LockForImportPhase, PhaseFrom
<1>2. job \in Job
  BY DEF TypeOK
<1>3. TypeOK'
  <2>1. /\ status' \in [Repositories -> Statuses] /\ target' \in SUBSET Repositories
        /\ stranded' \in SUBSET Repositories /\ UNCHANGED overlapped
    BY <1>1 DEF TypeOK, repoVars
  <2>2. "lock" \in Phase /\ "locked" \in Phase \ {"idle"}
    BY DEF Phase
  <2> QED
    BY <1>1, <2>1, <2>2, JobStepTyped
<1>4. JobsPlaced' /\ CallsBusy'
  BY <1>1 DEF JobsPlaced, CallsBusy, callVars
<1>5. /\ ActiveJobs' = ActiveJobs /\ phase'[job] = "locked"
      /\ \A other \in ActiveJobs \ {job} : phase'[other] = phase[other]
  BY <1>1, <1>2 DEF ActiveJobs, TypeOK
<1>6. ProgressHasWork'
  <2>1. \A repository : CallWorksOn(repository) => CallWorksOn(repository)'
    BY <1>1 DEF CallWorksOn, callVars
  <2> QED
    BY <1>1, <1>5, <2>1 DEF ProgressHasWork, repoVars
<1>7. ASSUME NEW repository \in Repositories \ overlapped'
      PROVE  AttemptAlone(repository)'
  <2>1. AttemptAlone(repository)
    BY <1>1, <1>7 DEF OneAttempt, repoVars
  <2> QED
    BY <1>1, <1>5, <2>1 DEF AttemptAlone, repoVars, callVars
<1> QED
  BY <1>3, <1>4, <1>6, <1>7 DEF OneAttempt

\* GitHub completes an import: the repository exists from now on.
LEMMA ImportKeepsInv ==
  ASSUME MigrationsInv, NEW job \in running, Import(job)
  PROVE  MigrationsInv'
<1> USE DEF MigrationsInv
<1> DEFINE r == job.repository
<1>1. /\ phase[job] = "import" /\ PhaseFrom(job, "import", "imported")
      /\ phase' = [phase EXCEPT ![job] = "imported"]
      /\ target' = target \cup {r}
      /\ UNCHANGED <<waiting, running, finished, clock, mayDelete, status, stranded,
                     overlapped, callVars>>
  BY DEF Import, PhaseFrom
<1>2. job \in Job /\ r \in Repositories
  BY JobRepository DEF TypeOK
<1>3. TypeOK'
  <2>1. /\ status' \in [Repositories -> Statuses] /\ target' \in SUBSET Repositories
        /\ stranded' \in SUBSET Repositories
    BY <1>1, <1>2 DEF TypeOK
  <2>2. "import" \in Phase /\ "imported" \in Phase \ {"idle"}
    BY DEF Phase
  <2> QED
    BY <1>1, <2>1, <2>2, JobStepTyped
<1>4. JobsPlaced' /\ CallsBusy'
  BY <1>1 DEF JobsPlaced, CallsBusy, callVars
<1>5. /\ ActiveJobs' = ActiveJobs
      /\ \A other \in ActiveJobs \ {job} : phase'[other] = phase[other]
  BY <1>1, <1>2 DEF ActiveJobs, TypeOK
<1>6. ProgressHasWork'
  <2>1. \A repository : CallWorksOn(repository) => CallWorksOn(repository)'
    BY <1>1 DEF CallWorksOn, callVars
  <2> QED
    BY <1>1, <1>5, <2>1 DEF ProgressHasWork
<1>7. ASSUME NEW repository \in Repositories \ overlapped'
      PROVE  AttemptAlone(repository)'
  <2>1. AttemptAlone(repository)
    BY <1>1, <1>7 DEF OneAttempt
  <2> QED
    BY <1>1, <1>5, <2>1 DEF AttemptAlone, callVars
<1> QED
  BY <1>3, <1>4, <1>6, <1>7 DEF OneAttempt

\* A handler that reports a success has seen the import end, and nobody else
\* works on the repository.
LEMMA SucceedKeepsInv ==
  ASSUME MigrationsInv, NEW job \in running, Succeed(job)
  PROVE  MigrationsInv'
<1> USE DEF MigrationsInv
<1> DEFINE r == job.repository
<1>1. /\ phase[job] = "imported" /\ PhaseFrom(job, "imported", "return")
      /\ phase' = [phase EXCEPT ![job] = "return"]
      /\ UpdateStatus(r, "succeeded")
      /\ UNCHANGED <<waiting, running, finished, clock, mayDelete, target, overlapped,
                     callVars>>
  BY DEF Succeed, PhaseFrom
<1>2. job \in Job /\ r \in Repositories
  BY JobRepository DEF TypeOK
<1>3. /\ status' \in [Repositories -> Statuses]
      /\ status'[r] = "succeeded"
      /\ \A other \in Repositories \ {r} : status'[other] = status[other]
      /\ stranded' = stranded \ {r}
      /\ stranded' \in SUBSET Repositories
  BY <1>1, <1>2, StatusUpdated DEF Statuses
<1>4. TypeOK'
  <2>1. target' \in SUBSET Repositories
    BY <1>1 DEF TypeOK
  <2>2. "imported" \in Phase /\ "return" \in Phase \ {"idle"}
    BY DEF Phase
  <2> QED
    BY <1>1, <1>3, <2>1, <2>2, JobStepTyped
<1>5. JobsPlaced' /\ CallsBusy'
  BY <1>1 DEF JobsPlaced, CallsBusy, callVars
<1>6. /\ ActiveJobs' = ActiveJobs \ {job} /\ job \in ActiveJobs
      /\ \A other \in ActiveJobs' : phase'[other] = phase[other]
  BY <1>1, <1>2 DEF ActiveJobs, TypeOK
<1>7. ProgressHasWork'
  <2>1. \A repository : CallWorksOn(repository) => CallWorksOn(repository)'
    BY <1>1 DEF CallWorksOn, callVars
  <2> QED
    BY <1>3, <1>6, <2>1 DEF ProgressHasWork
<1>8. ASSUME NEW repository \in Repositories \ overlapped'
      PROVE  AttemptAlone(repository)'
  <2>1. AttemptAlone(repository)
    BY <1>1, <1>8 DEF OneAttempt
  <2>2. CASE repository = r
    <3>1. /\ \A other \in ActiveJobs' : other.repository # r
          /\ \A c \in Callers : ~(pc[c] \in {"validate", "enqueue"} /\ Head(todo[c]) = r)
          /\ r \in target
      BY <1>1, <1>6, <2>1, <2>2 DEF AttemptAlone
    <3> QED
      BY <1>1, <2>2, <3>1 DEF AttemptAlone, callVars
  <2>3. CASE repository # r
    BY <1>1, <1>3, <1>6, <2>1, <2>3 DEF AttemptAlone, callVars
  <2> QED
    BY <2>2, <2>3
<1> QED
  BY <1>4, <1>5, <1>7, <1>8 DEF OneAttempt

\* A handler that has returned had nothing left to do.
LEMMA EndJobKeepsInv ==
  ASSUME MigrationsInv, NEW job \in running, EndJob(job)
  PROVE  MigrationsInv'
<1> USE DEF MigrationsInv
<1>1. /\ phase[job] = "return" /\ phase' = [phase EXCEPT ![job] = "idle"]
      /\ running' = running \ {job} /\ finished' = finished \cup {job}
      /\ UNCHANGED <<waiting, clock, mayDelete, repoVars, callVars>>
  BY DEF EndJob, End, PhaseFrom
<1>2. job \in Job /\ job \notin waiting
  BY DEF TypeOK, JobsPlaced
<1>3. /\ phase' \in [Job -> Phase]
      /\ phase'[job] = "idle"
      /\ \A other \in Job \ {job} : phase'[other] = phase[other]
  BY <1>1, <1>2 DEF TypeOK, Phase
<1>4. TypeOK'
  <2>1. \A j \in Job : phase'[j] # "idle" <=> j \in running'
    BY <1>1, <1>2, <1>3 DEF TypeOK
  <2>2. {waiting', running', finished', mayDelete'} \subseteq SUBSET Job
    BY <1>1, <1>2 DEF TypeOK
  <2> QED
    BY <1>1, <1>3, <2>1, <2>2 DEF TypeOK, repoVars, callVars
<1>5. JobsPlaced' /\ CallsBusy'
  BY <1>1 DEF JobsPlaced, CallsBusy, callVars
<1>6. /\ ActiveJobs' = ActiveJobs
      /\ \A other \in ActiveJobs : phase'[other] = phase[other]
  BY <1>1, <1>2, <1>3 DEF ActiveJobs, TypeOK
<1>7. ProgressHasWork'
  <2>1. \A repository : CallWorksOn(repository) => CallWorksOn(repository)'
    BY <1>1 DEF CallWorksOn, callVars
  <2> QED
    BY <1>1, <1>6, <2>1 DEF ProgressHasWork, repoVars
<1>8. ASSUME NEW repository \in Repositories \ overlapped'
      PROVE  AttemptAlone(repository)'
  <2>1. AttemptAlone(repository)
    BY <1>1, <1>8 DEF OneAttempt, repoVars
  <2> QED
    BY <1>1, <1>6, <2>1 DEF AttemptAlone, repoVars, callVars
<1> QED
  BY <1>4, <1>5, <1>7, <1>8 DEF OneAttempt
-----------------------------------------------------------------------------
(* The invariant.                                                          *)

\* Every step of a call keeps the invariant.
LEMMA CallKeepsInv ==
  ASSUME MigrationsInv, NEW c \in Callers, Call(c)
  PROVE  MigrationsInv'
BY LockQueueKeepsInv, ClientsFailKeepsInv, BeginValidationKeepsInv, ValidatedKeepsInv,
   ValidationFailsKeepsInv, ReportInvalidKeepsInv, EnqueueArchiveKeepsInv,
   ArchiveRejectedKeepsInv, ReturnKeepsInv
   DEF Call

\* Every step of a handler keeps the invariant.
LEMMA HandleKeepsInv ==
  ASSUME MigrationsInv, NEW job \in running, Handle(job) \/ PollPending(job)
  PROVE  MigrationsInv'
<1> DEFINE AtWork == Phase \ {"idle", "return"}
           Pending == Phase \ {"idle", "return", "imported"}
<1>1. CASE Fail(job)
  <2>1. PICK from \in {"initialize", "prepare", "generate", "export", "start", "import",
                       "imported"} :
          /\ PhaseFrom(job, from, IF job.isArchive THEN "return" ELSE "report")
          /\ target' = target \/ target' = target \ {job.repository}
    BY <1>1 DEF Fail, MayHaveCleared
  <2>2. /\ UpdateStatus(job.repository, "failed")
        /\ UNCHANGED <<waiting, running, finished, clock, mayDelete, overlapped, callVars>>
    BY <1>1 DEF Fail
  <2>3. from \in AtWork
    BY DEF Phase
  <2>4. (IF job.isArchive THEN "return" ELSE "report") \in {"report", "return"}
    OBVIOUS
  <2> QED
    BY <2>1, <2>2, <2>3, <2>4, FailureKeepsInv
<1>2. CASE ReportFailure(job)
  BY <1>2, FailureKeepsInv DEF ReportFailure, Phase
<1>3. CASE HandOverRejected(job)
  BY <1>3, FailureKeepsInv DEF HandOverRejected, Phase
<1>4. CASE InitializeArchive(job) \/ StartImportPhase(job) \/ PrepareForMigration(job)
           \/ GenerateArchive(job) \/ StartRepositoryMigration(job)
  <2>1. PICK from \in AtWork, to \in Pending :
          /\ GoesOn(job, from, to)
          /\ target' = target \/ target' = target \ {job.repository}
    BY <1>4 DEF InitializeArchive, StartImportPhase, PrepareForMigration, GenerateArchive,
                StartRepositoryMigration, ClearTarget, Phase
  <2> QED
    BY <2>1, GoesOnKeepsInv
<1>5. CASE PollPending(job) \/ Exported(job)
  <2>1. PICK from \in AtWork, to \in Pending :
          GoesOn(job, from, to) /\ target' = target
    BY <1>5 DEF PollPending, Exported, Phase
  <2> QED
    BY <2>1, GoesOnKeepsInv
<1> QED
  BY <1>1, <1>2, <1>3, <1>4, <1>5, HandOverKeepsInv, ImportKeepsInv, SucceedKeepsInv,
     LockForImportPhaseKeepsInv, EndJobKeepsInv
     DEF Handle

\* No job and no call at first.
LEMMA InitInv == Init => MigrationsInv
<1> SUFFICES ASSUME Init PROVE MigrationsInv
  OBVIOUS
<1> USE DEF Init, PoolInit
<1>1. TypeOK
  <2>1. clock \in 0..MaxJobs
    BY JobsAssumption
  <2>2. todo \in [Callers -> Seq(Repositories)]
    OBVIOUS
  <2>3. phase \in [Job -> Phase] /\ pc \in [Callers -> CallPC]
        /\ status \in [Repositories -> Statuses]
    BY DEF Phase, CallPC, Statuses
  <2>4. \A c \in Callers :
          pc[c] \in {"next", "validate", "report", "enqueue"} <=> qmiMu = c
    BY CallersAssumption
  <2> QED
    BY <2>1, <2>2, <2>3, <2>4 DEF TypeOK
<1>2. ActiveJobs = {}
  BY DEF ActiveJobs
<1>3. JobsPlaced /\ CallsBusy /\ ProgressHasWork
  BY CallersAssumption DEF JobsPlaced, CallsBusy, ProgressHasWork
<1>4. OneAttempt
  BY <1>2 DEF OneAttempt, AttemptAlone
<1> QED
  BY <1>1, <1>3, <1>4 DEF MigrationsInv

\* Nothing happens.
LEMMA StutterKeepsInv ==
  ASSUME MigrationsInv, UNCHANGED vars
  PROVE  MigrationsInv'
<1> USE DEF vars, jobVars, repoVars, callVars
<1>1. TypeOK'
  BY DEF MigrationsInv, TypeOK
<1>2. JobsPlaced' /\ CallsBusy'
  BY DEF MigrationsInv, JobsPlaced, CallsBusy
<1>3. ActiveJobs' = ActiveJobs
  BY DEF ActiveJobs
<1>4. ProgressHasWork'
  BY <1>3 DEF MigrationsInv, ProgressHasWork, CallWorksOn
<1>5. OneAttempt'
  BY <1>3 DEF MigrationsInv, OneAttempt, AttemptAlone
<1> QED
  BY <1>1, <1>2, <1>4, <1>5 DEF MigrationsInv

\* The inductive invariant of queue mode: work is handed on from the call to
\* the archive job to the migration job, a retry never gets to validate, and a
\* repository not requested again has one attempt at a time.
THEOREM WorkIsHandedOn == Spec => []MigrationsInv
<1>1. Init => MigrationsInv
  BY InitInv
<1>2. MigrationsInv /\ [Next]_vars => MigrationsInv'
  <2> SUFFICES ASSUME MigrationsInv, [Next]_vars PROVE MigrationsInv'
    OBVIOUS
  <2>1. CASE \E c \in Callers, request \in Requests, withDelete \in BOOLEAN :
               StartMigration(c, request, withDelete)
    BY <2>1, StartMigrationKeepsInv
  <2>2. CASE \E c \in Callers, repository \in Repositories : RetryMigration(c, repository)
    BY <2>2, RetryMigrationKeepsInv
  <2>3. CASE \E c \in Callers : Call(c)
    BY <2>3, CallKeepsInv
  <2>4. CASE \E job \in waiting : BeginJob(job)
    BY <2>4, BeginJobKeepsInv
  <2>5. CASE \E job \in running : Handle(job) \/ PollPending(job)
    BY <2>5, HandleKeepsInv
  <2>6. CASE UNCHANGED vars
    BY <2>6, StutterKeepsInv
  <2> QED
    BY <2>1, <2>2, <2>3, <2>4, <2>5, <2>6 DEF Next
<1> QED
  BY <1>1, <1>2, PTL DEF Spec

\* The types hold, and qmi.mu is held by the call that enqueues.
THEOREM MigrationsTypeCorrect == Spec => []TypeOK
<1>1. MigrationsInv => TypeOK
  BY DEF MigrationsInv
<1> QED
  BY <1>1, WorkIsHandedOn, PTL

\* A repository in progress has a job, or a call about to give it one, or was
\* stranded, for any number of repositories, calls and jobs.
THEOREM ProgressIsWorkedOn == Spec => []InProgressHasWork
<1>1. MigrationsInv => InProgressHasWork
  BY DEF MigrationsInv, ProgressHasWork, InProgressHasWork, HasJob, ActiveJobs
<1> QED
  BY <1>1, WorkIsHandedOn, PTL

\* A repository reported succeeded exists in the target organisation, unless
\* it was requested again during an attempt.
THEOREM SuccessIsReal == Spec => []SucceededHasTarget
<1>1. MigrationsInv => SucceededHasTarget
  BY DEF MigrationsInv, OneAttempt, AttemptAlone, SucceededHasTarget
<1> QED
  BY <1>1, WorkIsHandedOn, PTL
=============================================================================
