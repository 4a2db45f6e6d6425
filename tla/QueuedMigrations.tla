-------------------------- MODULE QueuedMigrations --------------------------
(***************************************************************************)
(* Migrations in queue mode: internal/migrator/queue.go around the queue   *)
(* manager, with the parts of migrator.go, repository.go and status.go it  *)
(* runs.  The queue manager is the JobPool it implements.                  *)
(*                                                                         *)
(* A call of StartMigration validates each repository and enqueues its     *)
(* archive job, holding qmi.mu throughout.  The archive handler exports an *)
(* archive and enqueues the repository's migration job; the migration      *)
(* handler prepares the target, exports once more and imports.  All of     *)
(* them write the one status the migrator keeps for the repository, under  *)
(* m.mu, one write at a time: between two writes of one goroutine the      *)
(* others run.                                                             *)
(***************************************************************************)
EXTENDS JobPool, Sequences

CONSTANTS
  Callers,     \* calls of StartMigration and RetryMigration
  Retriers,    \* those that may be calls of RetryMigration
  Requests,    \* the lists of repositories requests can name
  NoCaller     \* a mutex nobody holds

ASSUME CallersAssumption ==
  /\ NoCaller \notin Callers
  /\ Retriers \subseteq Callers
  /\ \A request \in Requests : request \in Seq(Repositories) /\ request # <<>>

Statuses == {"absent", "in_progress", "failed", "succeeded"}
Terminal == {"failed", "succeeded"}

\* Where the handler of a running job is, named for what it does next.
Phase == {"idle", "initialize", "lock", "locked", "prepare", "generate", "export",
          "handover", "start", "import", "imported", "report", "return"}

\* Where a call is: not made; at qmi.mu; about to take up the next repository;
\* validating it; reporting that it is not valid; enqueueing it; returned.
CallPC == {"none", "lock", "next", "validate", "report", "enqueue", "done"}

VARIABLES
  clock,       \* jobs enqueued so far
  phase,       \* where the handler of each job is
  mayDelete,   \* the jobs whose request has DeleteIfExists set
  status,      \* the Status of the repository's entry in m.migrations
  target,      \* the repositories that exist in the target organisation
  pc,          \* where each call is
  todo,        \* the repositories the call has still to enqueue
  deletes,     \* the calls whose request has DeleteIfExists set
  qmiMu,       \* the call that holds qmi.mu; a handler holds it in phase "locked"
  migratorMu,  \* the call of RetryMigration that holds m.mu
  stranded,    \* repositories a call left in progress without a job (history)
  overlapped   \* repositories requested again during an attempt (history)

callVars == <<pc, todo, deletes, qmiMu, migratorMu>>
jobVars == <<waiting, running, finished, clock, phase, mayDelete>>
repoVars == <<status, target, stranded, overlapped>>
vars == <<jobVars, repoVars, callVars>>

Init ==
  /\ PoolInit
  /\ clock = 0
  /\ phase = [job \in Job |-> "idle"]
  /\ mayDelete = {}
  /\ status = [repository \in Repositories |-> "absent"]
  /\ target \in SUBSET Repositories
  /\ pc = [c \in Callers |-> "none"]
  /\ todo = [c \in Callers |-> <<>>]
  /\ deletes = {}
  /\ qmiMu = NoCaller
  /\ migratorMu = NoCaller
  /\ stranded = {}
  /\ overlapped = {}
-----------------------------------------------------------------------------
(* What the handlers and the calls do to a repository.                     *)

\* updateStatus: needs m.mu, creates the entry or overwrites its Status.
UpdateStatus(repository, new) ==
  /\ migratorMu = NoCaller
  /\ status' = [status EXCEPT ![repository] = new]
  /\ stranded' = stranded \ {repository}

\* CheckCloudRepositoryExists answers "no" when it cannot tell.
CheckTarget(repository, exists) == exists => repository \in target

\* The check of the target and what follows from it, when no call fails: with
\* DeleteIfExists a repository found is deleted, without it a repository found
\* is a conflict.
ClearTarget(repository, mayBeDeleted) ==
  \E exists \in BOOLEAN :
    /\ CheckTarget(repository, exists)
    /\ exists => mayBeDeleted
    /\ target' = IF exists THEN target \ {repository} ELSE target

\* What has become of the target when one of these calls, or one after them,
\* fails.
MayHaveCleared(repository, mayBeDeleted) ==
  \/ UNCHANGED target
  \/ mayBeDeleted /\ target' = target \ {repository}

\* A job of the repository waits or runs.
HasJob(repository) == \E job \in waiting \cup running : job.repository = repository

NewJob(repository, isArchive) ==
  [repository |-> repository, isArchive |-> isArchive, added |-> clock + 1]

\* EnqueueArchiveJob or EnqueueMigrationJob returns nil, and when it does not.
Enqueued(repository, isArchive, withDelete) ==
  /\ Accept(NewJob(repository, isArchive))
  /\ clock' = clock + 1
  /\ mayDelete' = IF withDelete THEN mayDelete \cup {NewJob(repository, isArchive)}
                  ELSE mayDelete

Rejected(repository) ==
  \/ \E job \in waiting : job.repository = repository
  \/ Cardinality(waiting) >= MaxQueueSize
-----------------------------------------------------------------------------
(* Calls of StartMigration and RetryMigration.                             *)

CallAt(c, from, to) ==
  /\ pc[c] = from
  /\ pc' = [pc EXCEPT ![c] = to]

StartMigration(c, request, withDelete) ==
  /\ CallAt(c, "none", "lock")
  /\ todo' = [todo EXCEPT ![c] = request]
  /\ deletes' = IF withDelete THEN deletes \cup {c} ELSE deletes
  /\ UNCHANGED <<jobVars, repoVars, qmiMu, migratorMu>>

\* RetryMigration keeps m.mu until it returns.  The status it resets was made
\* by validateRepositoryForQueue, which does not record DeleteIfExists.
RetryMigration(c, repository) ==
  /\ c \in Retriers
  /\ CallAt(c, "none", "lock")
  /\ status[repository] = "failed"
  /\ migratorMu = NoCaller
  /\ migratorMu' = c
  /\ status' = [status EXCEPT ![repository] = "in_progress"]
  /\ todo' = [todo EXCEPT ![c] = <<repository>>]
  /\ UNCHANGED <<jobVars, target, stranded, overlapped, deletes, qmiMu>>

\* Neither a call nor a migration handler holds qmi.mu.
QueueUnlocked ==
  /\ qmiMu = NoCaller
  /\ \A job \in running : phase[job] # "locked"

\* EnqueueMigration takes qmi.mu ...
LockQueue(c) ==
  /\ CallAt(c, "lock", "next")
  /\ QueueUnlocked
  /\ qmiMu' = c
  /\ UNCHANGED <<jobVars, repoVars, todo, deletes, migratorMu>>

\* ... and returns an error when it cannot create its clients.  The status
\* that a retry has reset stays as it is.
ClientsFail(c) ==
  /\ CallAt(c, "lock", "done")
  /\ QueueUnlocked
  /\ todo' = [todo EXCEPT ![c] = <<>>]
  /\ migratorMu' = IF migratorMu = c THEN NoCaller ELSE migratorMu
  /\ stranded' = IF migratorMu = c THEN stranded \cup {Head(todo[c])} ELSE stranded
  /\ UNCHANGED <<jobVars, status, target, overlapped, deletes, qmiMu>>

\* The first writes of validateRepositoryForQueue, whatever the repository's
\* status is.
BeginValidation(c) ==
  /\ CallAt(c, "next", "validate")
  /\ todo[c] # <<>>
  /\ LET repository == Head(todo[c])
     IN  /\ UpdateStatus(repository, "in_progress")
         /\ overlapped' = IF HasJob(repository) THEN overlapped \cup {repository}
                          ELSE overlapped
  /\ UNCHANGED <<jobVars, target, todo, deletes, qmiMu, migratorMu>>

Validated(c) ==
  /\ CallAt(c, "validate", "enqueue")
  /\ ClearTarget(Head(todo[c]), c \in deletes)
  /\ UpdateStatus(Head(todo[c]), "in_progress")
  /\ UNCHANGED <<jobVars, overlapped, todo, deletes, qmiMu, migratorMu>>

\* The source is missing, a call to GitHub fails, or the target exists.
ValidationFails(c) ==
  /\ CallAt(c, "validate", "report")
  /\ MayHaveCleared(Head(todo[c]), c \in deletes)
  /\ UpdateStatus(Head(todo[c]), "failed")
  /\ UNCHANGED <<jobVars, overlapped, todo, deletes, qmiMu, migratorMu>>

\* EnqueueMigration reports the failure once more.
ReportInvalid(c) ==
  /\ CallAt(c, "report", "next")
  /\ UpdateStatus(Head(todo[c]), "failed")
  /\ todo' = [todo EXCEPT ![c] = Tail(@)]
  /\ UNCHANGED <<jobVars, target, overlapped, deletes, qmiMu, migratorMu>>

EnqueueArchive(c) ==
  /\ CallAt(c, "enqueue", "next")
  /\ clock < MaxJobs
  /\ Enqueued(Head(todo[c]), TRUE, c \in deletes)
  /\ todo' = [todo EXCEPT ![c] = Tail(@)]
  /\ UNCHANGED <<phase, repoVars, deletes, qmiMu, migratorMu>>

\* The error is kept for the result; the status stays in progress.  That
\* strands the repository unless an earlier job of it waits.
ArchiveRejected(c) ==
  /\ CallAt(c, "enqueue", "next")
  /\ Rejected(Head(todo[c]))
  /\ todo' = [todo EXCEPT ![c] = Tail(@)]
  /\ stranded' = IF \E job \in waiting : job.repository = Head(todo[c])
                 THEN stranded ELSE stranded \cup {Head(todo[c])}
  /\ UNCHANGED <<jobVars, status, target, overlapped, deletes, qmiMu, migratorMu>>

\* Faulty variant: qmi.mu is not released.
ReturnKeepingLock(c) ==
  /\ CallAt(c, "next", "done")
  /\ todo[c] = <<>>
  /\ migratorMu' = IF migratorMu = c THEN NoCaller ELSE migratorMu
  /\ UNCHANGED <<jobVars, repoVars, todo, deletes, qmiMu>>

Return(c) ==
  /\ CallAt(c, "next", "done")
  /\ todo[c] = <<>>
  /\ qmiMu' = NoCaller
  /\ migratorMu' = IF migratorMu = c THEN NoCaller ELSE migratorMu
  /\ UNCHANGED <<jobVars, repoVars, todo, deletes>>

Call(c) ==
  \/ LockQueue(c)
  \/ ClientsFail(c)
  \/ BeginValidation(c)
  \/ Validated(c)
  \/ ValidationFails(c)
  \/ ReportInvalid(c)
  \/ EnqueueArchive(c)
  \/ ArchiveRejected(c)
  \/ Return(c)
-----------------------------------------------------------------------------
(* Running jobs.                                                           *)

PhaseFrom(job, from, to) ==
  /\ job \in running
  /\ phase[job] = from
  /\ phase' = [phase EXCEPT ![job] = to]

BeginJob(job) ==
  /\ Begin(job)
  /\ phase' = [phase EXCEPT ![job] = IF job.isArchive THEN "initialize" ELSE "lock"]
  /\ UNCHANGED <<clock, mayDelete, repoVars, callVars>>

\* A step of a handler that reports "in progress" and goes on.
GoesOn(job, from, to) ==
  /\ PhaseFrom(job, from, to)
  /\ UpdateStatus(job.repository, "in_progress")
  /\ UNCHANGED <<waiting, running, finished, clock, mayDelete, overlapped, callVars>>

\* Faulty variant: an error is returned and logged, and the status left alone.
FailSilently(job) ==
  /\ \E from \in {"initialize", "prepare", "generate", "export", "start", "import",
               "imported"} :
       PhaseFrom(job, from, "return")
  /\ migratorMu = NoCaller
  /\ UNCHANGED <<waiting, running, finished, clock, mayDelete, repoVars, callVars>>

\* Any step that talks to GitHub can fail, and an export or import can end
\* in a failed state: the handler reports it.
Fail(job) ==
  /\ \E from \in {"initialize", "prepare", "generate", "export", "start", "import",
               "imported"} :
       /\ PhaseFrom(job, from, IF job.isArchive THEN "return" ELSE "report")
       /\ IF from \in {"prepare", "start"}
          THEN MayHaveCleared(job.repository, job \in mayDelete)
          ELSE UNCHANGED target
  /\ UpdateStatus(job.repository, "failed")
  /\ UNCHANGED <<waiting, running, finished, clock, mayDelete, overlapped, callVars>>

\* performMigration reports the failure of one of its steps once more.
ReportFailure(job) ==
  /\ PhaseFrom(job, "report", "return")
  /\ UpdateStatus(job.repository, "failed")
  /\ UNCHANGED <<waiting, running, finished, clock, mayDelete, target, overlapped,
                 callVars>>

\* handleArchiveJob creates its clients.
InitializeArchive(job) ==
  /\ GoesOn(job, "initialize", "generate")
  /\ UNCHANGED target

\* handleMigrationJob takes qmi.mu for its first write, so it waits while a
\* call enqueues, ...
LockForImportPhase(job) ==
  /\ QueueUnlocked
  /\ PhaseFrom(job, "lock", "locked")
  /\ UNCHANGED <<waiting, running, finished, clock, mayDelete, repoVars, callVars>>

\* ... and holds it until it has taken m.mu and written.
StartImportPhase(job) ==
  /\ GoesOn(job, "locked", "prepare")
  /\ UNCHANGED target

\* prepareForMigration: validate the source, clear the target, create the
\* migration source.
PrepareForMigration(job) ==
  /\ GoesOn(job, "prepare", "generate")
  /\ ClearTarget(job.repository, job \in mayDelete)

\* GenerateMigrationArchive, by the handler of either kind.
GenerateArchive(job) ==
  /\ GoesOn(job, "generate", "export")
  /\ UNCHANGED target

\* A poll that finds the export, or the import, still pending.
PollPending(job) ==
  /\ \E at \in {"export", "import"} : GoesOn(job, at, at)
  /\ UNCHANGED target

Exported(job) ==
  /\ GoesOn(job, "export", IF job.isArchive THEN "handover" ELSE "start")
  /\ UNCHANGED target

\* Faulty variant: the handler returns without enqueueing the second phase.
ForgetHandOver(job) ==
  /\ PhaseFrom(job, "handover", "return")
  /\ UNCHANGED <<waiting, running, finished, clock, mayDelete, repoVars, callVars>>

\* The archive handler enqueues the second phase while its own job runs.
HandOver(job) ==
  /\ PhaseFrom(job, "handover", "return")
  /\ clock < MaxJobs
  /\ Enqueued(job.repository, FALSE, job \in mayDelete)
  /\ UNCHANGED <<repoVars, callVars>>

HandOverRejected(job) ==
  /\ PhaseFrom(job, "handover", "return")
  /\ Rejected(job.repository)
  /\ UpdateStatus(job.repository, "failed")
  /\ UNCHANGED <<waiting, running, finished, clock, mayDelete, target, overlapped,
                 callVars>>

\* startMigration: clear the target again and start GitHub's import.
StartRepositoryMigration(job) ==
  /\ GoesOn(job, "start", "import")
  /\ ClearTarget(job.repository, job \in mayDelete)

\* GitHub completes the import; the poll has yet to see it.
Import(job) ==
  /\ PhaseFrom(job, "import", "imported")
  /\ job.repository \notin target
  /\ target' = target \cup {job.repository}
  /\ UNCHANGED <<waiting, running, finished, clock, mayDelete, status, stranded,
                 overlapped, callVars>>

\* Faulty variant: an import that GitHub has queued is taken for a success.
SucceedEarly(job) ==
  /\ \E from \in {"import", "imported"} : PhaseFrom(job, from, "return")
  /\ UpdateStatus(job.repository, "succeeded")
  /\ UNCHANGED <<waiting, running, finished, clock, mayDelete, target, overlapped,
                 callVars>>

Succeed(job) ==
  /\ PhaseFrom(job, "imported", "return")
  /\ UpdateStatus(job.repository, "succeeded")
  /\ UNCHANGED <<waiting, running, finished, clock, mayDelete, target, overlapped,
                 callVars>>

\* Faulty variant: the slot is not released when the handler returns.
EndJobKeepingSlot(job) ==
  /\ PhaseFrom(job, "return", "idle")
  /\ UNCHANGED <<waiting, running, finished, clock, mayDelete, repoVars, callVars>>

EndJob(job) ==
  /\ PhaseFrom(job, "return", "idle")
  /\ End(job)
  /\ UNCHANGED <<clock, mayDelete, repoVars, callVars>>

Handle(job) ==
  \/ Fail(job)
  \/ ReportFailure(job)
  \/ InitializeArchive(job)
  \/ LockForImportPhase(job)
  \/ StartImportPhase(job)
  \/ PrepareForMigration(job)
  \/ GenerateArchive(job)
  \/ Exported(job)
  \/ HandOver(job)
  \/ HandOverRejected(job)
  \/ StartRepositoryMigration(job)
  \/ Import(job)
  \/ Succeed(job)
  \/ EndJob(job)

Next ==
  \/ \E c \in Callers, request \in Requests, withDelete \in BOOLEAN :
       StartMigration(c, request, withDelete)
  \/ \E c \in Callers, repository \in Repositories : RetryMigration(c, repository)
  \/ \E c \in Callers : Call(c)
  \/ \E job \in waiting : BeginJob(job)
  \/ \E job \in running : Handle(job) \/ PollPending(job)

Spec == Init /\ [][Next]_vars

(***************************************************************************)
(* A goroutine that can go on does; both mutexes are fair; the workers     *)
(* take waiting jobs (NoStarvation of QueueManager); GitHub ends every     *)
(* export and import, one way or the other.                                *)
(***************************************************************************)
Fairness ==
  /\ \A c \in Callers : WF_vars(Call(c))
  /\ \A job \in Job : WF_vars(BeginJob(job) \/ Handle(job))

FairSpec == Spec /\ Fairness
-----------------------------------------------------------------------------
(* Properties.                                                             *)

\* Every variable has its type, a job has a handler while it runs, and qmi.mu
\* is held by the call that enqueues.
TypeOK ==
  /\ {waiting, running, finished, mayDelete} \subseteq SUBSET Job
  /\ clock \in 0..MaxJobs
  /\ phase \in [Job -> Phase]
  /\ \A job \in Job : phase[job] # "idle" <=> job \in running
  /\ status \in [Repositories -> Statuses]
  /\ {target, stranded, overlapped} \subseteq SUBSET Repositories
  /\ pc \in [Callers -> CallPC]
  /\ todo \in [Callers -> Seq(Repositories)]
  /\ deletes \in SUBSET Callers
  /\ migratorMu \in Callers \cup {NoCaller}
  /\ \A c \in Callers :
       pc[c] \in {"next", "validate", "report", "enqueue"} <=> qmiMu = c

\* A call is about to enqueue the repository, or has reset it for a retry.
CallWorksOn(repository) ==
  \E c \in Callers :
    /\ pc[c] \in {"validate", "enqueue"} \/ migratorMu = c
    /\ todo[c] # <<>> /\ Head(todo[c]) = repository

\* A repository reported in progress has a job, or a call is about to give it
\* one, however calls, both kinds of handlers and the rejection of jobs
\* interleave.  The exception are the calls that strand it: the queue was full
\* after the validation (queue.go:160-171), or a retry failed after its reset.
InProgressHasWork ==
  \A repository \in Repositories :
    status[repository] = "in_progress" =>
      \/ HasJob(repository)
      \/ CallWorksOn(repository)
      \/ repository \in stranded

\* A repository reported succeeded exists in the target organisation, although
\* requests and handlers delete what they find there.  Only requesting it again
\* during an attempt can break this: the second request may delete what the
\* first has imported and not yet reported.
SucceededHasTarget ==
  \A repository \in Repositories \ overlapped :
    status[repository] = "succeeded" => repository \in target

\* A retry in queue mode still holds m.mu.
RetryHoldsLock == migratorMu # NoCaller

\* Every migration in progress is eventually reported failed or succeeded,
\* through both jobs, unless it was stranded or a retry blocks every report.
Settles ==
  \A repository \in Repositories :
    status[repository] = "in_progress"
      ~> \/ status[repository] \in Terminal
         \/ repository \in stranded
         \/ RetryHoldsLock

\* Every call gets qmi.mu and gives it up again, whatever the handlers do.
CallsReturn ==
  \A c \in Callers : pc[c] = "lock" ~> (pc[c] = "done" \/ RetryHoldsLock)

\* "Starts a new migration attempt" (migrator.go:500): a call of RetryMigration
\* returns.  It does not: validateRepositoryForQueue locks m.mu, which the call
\* holds.
RetryReturns ==
  \A c \in Callers : migratorMu = c ~> pc[c] = "done"

\* "Maximum 5 concurrent archive generations" (docs/queue.md:21): the handlers
\* wait for no more exports than that.  The migration handlers export, too.
ArchiveLimitRespected ==
  Cardinality({job \in running : phase[job] = "export"}) <= MaxArchiveGenerations
=============================================================================
