-------------------------- MODULE DirectMigrations --------------------------
(***************************************************************************)
(* Migrations in direct mode (the queue is disabled): internal/migrator/   *)
(* migrator.go with status.go and webhook.go, over MigrationStore.         *)
(*                                                                         *)
(* StartMigration and RetryMigration check and reset a repository's status *)
(* under m.mu and leave the work to a goroutine, the attempt.  Every       *)
(* status update of an attempt changes the one status of the repository,   *)
(* whichever attempt it belongs to, and starts a goroutine that saves a    *)
(* copy and, when the update changed something, one that sends a webhook:  *)
(* it copies the status when it runs and then tries to deliver the copy.   *)
(* The failure of an attempt is written twice, by the step that failed and *)
(* by performMigration: in between the repository can be started again.    *)
(***************************************************************************)
EXTENDS MigrationStore

NoStatus == NoRow    \* a repository that has no entry in m.migrations

\* Where the goroutine of an attempt is, named for what it does next.
AttemptPC == {"initiate", "migrate", "report"}

Attempt == [repository : Repositories, number : Time, pc : AttemptPC,
            targetOrg : Organisations \cup {NoOrganisation}]

\* A webhook goroutine: it has yet to copy the status, or it delivers a copy,
\* which tells of a success or of something else.
Notice == [repository : Repositories, tells : {"unread", "success", "other"}]

VARIABLES
  up,          \* the process runs
  migrations,  \* m.migrations: the status of each repository
  clock,       \* per repository: attempts started so far
  attempts,    \* the attempts under way
  notices,     \* the webhooks to be sent
  announced,   \* those whose success a webhook has told since the last start (history)
  untold,      \* those for which a webhook that tells of it gave up (history)
  lastLoad,    \* the time of the last start of the process, 0 for none (history)
  late,        \* per repository: failures reported after a later start (history)
  unarchived   \* those with a failure that could not be archived (history)

migratorVars == <<up, migrations, clock, attempts, notices>>
historyVars == <<announced, untold, lastLoad, late, unarchived>>
vars == <<storeVars, migratorVars, historyVars>>

MigratorTypeOK ==
  /\ up \in BOOLEAN
  /\ migrations \in [Repositories -> MigrationStatus \cup {NoStatus}]
  /\ clock \in [Repositories -> 0 .. MaxAttempts]
  /\ attempts \subseteq Attempt
  /\ notices \subseteq Notice
  /\ announced \subseteq Repositories
  /\ untold \subseteq Repositories
  /\ lastLoad \in [Repositories -> 0 .. MaxAttempts + 1]
  /\ late \in [Repositories -> Nat]
  /\ unarchived \subseteq Repositories

MigratorInit ==
  /\ up = TRUE
  /\ migrations = [repository \in Repositories |-> NoStatus]
  /\ clock = [repository \in Repositories |-> 0]
  /\ attempts = {}
  /\ notices = {}
  /\ announced = {}
  /\ untold = {}
  /\ lastLoad = [repository \in Repositories |-> 0]
  /\ late = [repository \in Repositories |-> 0]
  /\ unarchived = {}

\* The entry was read from storage and not reset since.
FromStorage(repository) == lastLoad[repository] = clock[repository] + 1

Has(repository, status) ==
  migrations[repository] # NoStatus /\ migrations[repository].status = status

AttemptsOf(repository) == {a \in attempts : a.repository = repository}

\* The attempts whose failure is not written yet.
AtWork(repository) == {a \in AttemptsOf(repository) : a.pc # "report"}
-----------------------------------------------------------------------------
(* Requests.                                                               *)

\* Faulty variant: the time of the next attempt is counted twice.
FreshTwice(repository, org) ==
  [status |-> "in_progress", updatedAt |-> clock[repository] + 2, targetOrg |-> org]

\* Faulty variant: the reset loses the options.
FreshWithoutOptions(repository, org) ==
  [status |-> "in_progress", updatedAt |-> clock[repository] + 1,
   targetOrg |-> NoOrganisation]

\* The entry of a new attempt, or a failed entry reset for it.
Fresh(repository, org) ==
  [status |-> "in_progress", updatedAt |-> clock[repository] + 1, targetOrg |-> org]

\* The goroutine of a new attempt; the reset itself is not saved.
Begin(repository, entryOrg, requestOrg) ==
  /\ clock[repository] < MaxAttempts
  /\ clock' = [clock EXCEPT ![repository] = @ + 1]
  /\ migrations' = [migrations EXCEPT ![repository] = Fresh(repository, entryOrg)]
  /\ attempts' = attempts \cup
       {[repository |-> repository, number |-> clock[repository] + 1,
         pc |-> "initiate", targetOrg |-> requestOrg]}
  /\ announced' = announced \ {repository}
  /\ untold' = untold \ {repository}
  /\ UNCHANGED <<up, open, rows, saves, notices, lastLoad, late>>

\* Faulty variant: nothing is archived.
BeginUnarchived(repository, entryOrg, requestOrg) ==
  /\ Begin(repository, entryOrg, requestOrg)
  /\ UNCHANGED <<history, faults, unarchived>>

\* ArchiveMigrationAttempt comes before the reset and cannot prevent it.
ArchiveThenBegin(repository, entryOrg, requestOrg) ==
  /\ ArchiveAttempt(repository, migrations[repository])
  /\ unarchived' = IF UNCHANGED history THEN unarchived \cup {repository} ELSE unarchived
  /\ Begin(repository, entryOrg, requestOrg)

\* Faulty variant: the check is left to an earlier critical section.
StartUnchecked(repository, org) ==
  /\ Begin(repository, org, org)
  /\ UNCHANGED <<history, faults, unarchived>>

\* A request for a repository without a status.
StartNew(repository, org) ==
  /\ migrations[repository] = NoStatus
  /\ Begin(repository, org, org)
  /\ UNCHANGED <<history, faults, unarchived>>

\* Faulty variant: whatever has come to an end is migrated again.
StartAnyAgain(repository, org) ==
  /\ Has(repository, "failed") \/ Has(repository, "succeeded")
  /\ ArchiveThenBegin(repository, migrations[repository].targetOrg, org)

\* A request for a failed repository: its status is archived and reset, but
\* keeps the options it had, whatever this request says.
StartAgain(repository, org) ==
  /\ Has(repository, "failed")
  /\ ArchiveThenBegin(repository, migrations[repository].targetOrg, org)

\* StartMigration; a repository in progress or migrated is skipped.
StartMigration(repository, org) ==
  /\ up
  /\ StartNew(repository, org) \/ StartAgain(repository, org)

\* RetryMigration: the new attempt has the options of the status, but for an
\* organisation that the call names.
RetryMigration(repository, org) ==
  LET target == IF org = NoOrganisation THEN migrations[repository].targetOrg ELSE org
  IN /\ up
     /\ Has(repository, "failed")
     /\ ArchiveThenBegin(repository, target, target)
-----------------------------------------------------------------------------
(* Attempts.                                                               *)

\* Faulty variant: the status is compared with itself, after the assignment.
UpdateStatusSilently(repository, new) ==
  LET status == [migrations[repository] EXCEPT
                   !.status = new, !.updatedAt = clock[repository]]
  IN /\ migrations' = [migrations EXCEPT ![repository] = status]
     /\ SaveLater(repository, status)
     /\ UNCHANGED notices

\* updateStatusWithContext.  It keeps the start and the options of the entry;
\* a webhook follows when the status changes, or the stage or state within it.
UpdateStatus(repository, new) ==
  LET status == [migrations[repository] EXCEPT
                   !.status = new, !.updatedAt = clock[repository]]
  IN /\ migrations' = [migrations EXCEPT ![repository] = status]
     /\ SaveLater(repository, status)
     /\ \/ notices' = notices \cup {[repository |-> repository, tells |-> "unread"]}
        \/ migrations[repository].status = new /\ UNCHANGED notices

Move(attempt, pc) == attempts' = (attempts \ {attempt}) \cup {[attempt EXCEPT !.pc = pc]}

Rest ==
  <<up, clock, open, rows, history, faults, announced, untold, lastLoad, unarchived>>

\* "Migration process initiated" and every later update of the attempt until
\* it ends: the entry is in progress.
Progress(attempt) ==
  /\ attempt.pc \in {"initiate", "migrate"}
  /\ UpdateStatus(attempt.repository, "in_progress")
  /\ Move(attempt, "migrate")
  /\ UNCHANGED <<Rest, late>>

\* monitorMigration sees the state SUCCEEDED.
Succeed(attempt) ==
  /\ attempt.pc = "migrate"
  /\ UpdateStatus(attempt.repository, "succeeded")
  /\ attempts' = attempts \ {attempt}
  /\ UNCHANGED <<Rest, late>>

\* Faulty variant: the step returns its error and nobody writes it.
FailSilently(attempt) ==
  /\ attempt.pc = "migrate"
  /\ attempts' = attempts \ {attempt}
  /\ UNCHANGED <<Rest, migrations, saves, notices, late>>

\* The step that fails writes the failure, whatever the reason ...
Fail(attempt) ==
  /\ attempt.pc = "migrate"
  /\ UpdateStatus(attempt.repository, "failed")
  /\ Move(attempt, "report")
  /\ UNCHANGED <<Rest, late>>

\* ... and performMigration writes it again, whatever the status is by then: that
\* of a later attempt, if one has begun.
ReportFailure(attempt) ==
  /\ attempt.pc = "report"
  /\ UpdateStatus(attempt.repository, "failed")
  /\ attempts' = attempts \ {attempt}
  /\ late' = [late EXCEPT ![attempt.repository] =
                IF attempt.number < clock[attempt.repository] THEN @ + 1 ELSE @]
  /\ UNCHANGED Rest

AttemptStep ==
  \E attempt \in attempts :
    Progress(attempt) \/ Succeed(attempt) \/ Fail(attempt) \/ ReportFailure(attempt)
-----------------------------------------------------------------------------
(* Webhooks.                                                               *)

\* What no webhook changes.
Elsewhere == <<up, migrations, clock, attempts, storeVars, lastLoad, late, unarchived>>

\* sendWebhookNotification copies the status when it runs, not the one it was
\* started for.
CopyStatus(notice) ==
  /\ notice.tells = "unread"
  /\ notices' = (notices \ {notice}) \cup
       {[notice EXCEPT !.tells =
           IF Has(notice.repository, "succeeded") THEN "success" ELSE "other"]}
  /\ UNCHANGED <<Elsewhere, announced, untold>>

\* One of four tries is answered with success; the status may be another one
\* by then.
Deliver(notice) ==
  /\ notice.tells # "unread"
  /\ notices' = notices \ {notice}
  /\ announced' = IF notice.tells = "success" THEN announced \cup {notice.repository}
                  ELSE announced
  /\ UNCHANGED <<Elsewhere, untold>>

\* The request cannot be made, or the last try has failed: the error is logged.
GiveUpDelivery(notice) ==
  /\ notice.tells # "unread"
  /\ notices' = notices \ {notice}
  /\ untold' = IF notice.tells = "success" THEN untold \cup {notice.repository}
               ELSE untold
  /\ UNCHANGED <<Elsewhere, announced>>

Notify(notice) == CopyStatus(notice) \/ Deliver(notice) \/ GiveUpDelivery(notice)
-----------------------------------------------------------------------------
(* The life of the process.                                                *)

\* Close, the last thing Server.Shutdown does: attempts go on without storage.
CloseMigrator ==
  /\ up /\ open
  /\ Close
  /\ UNCHANGED <<faults, migratorVars, historyVars>>

\* The process ends, after Close or by a crash, and with it what it had not
\* saved.
Exit ==
  /\ up
  /\ IF open THEN Fault ELSE UNCHANGED faults
  /\ Close
  /\ up' = FALSE
  /\ migrations' = [repository \in Repositories |-> NoStatus]
  /\ attempts' = {}
  /\ notices' = {}
  /\ announced' = {}
  /\ untold' = {}
  /\ UNCHANGED <<clock, lastLoad, late, unarchived>>

\* NewMigrator reads what the rows say; nothing is started or marked failed.
Load(statuses) ==
  /\ up' = TRUE
  /\ migrations' = statuses
  /\ lastLoad' = [repository \in Repositories |-> clock[repository] + 1]
  /\ UNCHANGED <<clock, attempts, notices, announced, untold, late>>

Restart ==
  /\ ~up
  /\ Initialize
  /\ \E missed \in Missable :
       /\ Load(LoadedBut(missed))
       /\ unarchived' = unarchived \cup missed
       /\ IF missed = {} THEN UNCHANGED faults ELSE Fault
-----------------------------------------------------------------------------
(* Properties.                                                             *)

\* A repository in progress has an attempt that will settle it, unless its
\* status was read from storage: what a crash interrupted stays in progress.
InProgressHasAttempt ==
  \A repository \in Repositories :
    up /\ Has(repository, "in_progress")
      => AttemptsOf(repository) # {} \/ FromStorage(repository)

\* Check and reset are one critical section: no repository is migrated twice
\* at a time, but for the attempts that a late report lets in.  It marks as
\* failed what a later attempt works on, and each does so for one start at most.
AtMostOneAtWork ==
  \A repository \in Repositories :
    Cardinality(AtWork(repository)) <= 1 + late[repository]

\* A success is final while the process runs: only a late report can undo it,
\* by itself or by the attempts it has let in.
SucceededStays ==
  [][\A repository \in Repositories :
       up /\ up' /\ Has(repository, "succeeded") /\ late'[repository] = 0
         => migrations'[repository] = migrations[repository]]_vars

\* A failure that storage knows is in the archive before the row tells of the
\* next attempt, in whatever order the saves arrive, unless archiving or
\* reading it failed.
RecordedFailuresKept ==
  [][\A repository \in Repositories \ unarchived :
       LET row == rows[repository]
           next == rows'[repository]
       IN /\ row # NoRow /\ row.status = "failed"
          /\ next.updatedAt > row.updatedAt
          => \E i \in DOMAIN history[repository] :
               /\ history[repository][i].status = "failed"
               /\ history[repository][i].updatedAt = row.updatedAt]_vars

\* A success does not slip past the webhooks: each copies the status when it
\* runs, earlier ones may still be on their way with what was true before, but
\* once all have ended, one that told of the success was delivered, or given up
\* after its last try (webhook.go:150-155).
SuccessAnnounced ==
  \A repository \in Repositories :
    /\ up /\ Has(repository, "succeeded") /\ ~FromStorage(repository)
    /\ \A notice \in notices : notice.repository # repository
    => repository \in announced \cup untold

\* Only a status that was read from storage can send a retry nowhere.
EmptyTargetOnlyFromStorage ==
  \A attempt \in attempts :
    attempt.targetOrg = NoOrganisation => lastLoad[attempt.repository] > 0

\* What a status says is stored: once a repository is settled and nothing of it
\* is being saved, its row holds its status.  docs/storage.md says each status
\* change is persisted in real time.
StoredIsLastKnown ==
  \A repository \in Repositories :
    /\ up /\ open
    /\ migrations[repository] # NoStatus
    /\ AttemptsOf(repository) = {}
    /\ \A save \in saves : save.repository # repository
    => /\ rows[repository] # NoRow
       /\ rows[repository].status = migrations[repository].status
=============================================================================
