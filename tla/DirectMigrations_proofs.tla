----------------------- MODULE DirectMigrations_proofs -----------------------
(***************************************************************************)
(* What the migrator's and the storage's steps keep, for any number of     *)
(* repositories, organisations, attempts and faults and for each of the    *)
(* three databases.  MigrationServer_proofs puts it together with the      *)
(* scheduler's steps.                                                      *)
(*                                                                         *)
(* The argument has three parts.  Of attempts: the check lets one in when  *)
(* the status is not in progress, and then no more are at work than        *)
(* failures were reported late, for each of these marked as failed what    *)
(* another attempt had in progress.  Of webhooks: a success that none has  *)
(* told yet has one that is going to.  Of statuses: whatever the saves,    *)
(* the row and the entry of a repository say, a failure that is older than *)
(* the last attempt was archived when a later attempt reset it, and an     *)
(* entry that an attempt has not touched yet says what the row says.       *)
(***************************************************************************)
EXTENDS DirectMigrations, TLAPS, FiniteSetTheorems

\* Nothing saves to a closed storage; a process that has ended keeps nothing.
ClosedAndDown ==
  /\ ~open => saves = {}
  /\ ~up => /\ ~open /\ attempts = {} /\ notices = {}
            /\ \A repository \in Repositories : migrations[repository] = NoStatus

AttemptsKnown ==
  \A attempt \in attempts :
    migrations[attempt.repository] # NoStatus /\ clock[attempt.repository] > 0

Working(repository) == Cardinality(AtWork(repository))

\* AtMostOneAtWork, and what the check of a request goes by: unless the status
\* is in progress, or the latest attempt has still to write its failure again,
\* the late reports account for all that are at work.
WorkCounted(repository) ==
  /\ Working(repository) <= 1 + late[repository]
  /\ ~Has(repository, "in_progress") => Working(repository) <= late[repository]
  /\ \A attempt \in AttemptsOf(repository) :
       attempt.pc = "report" /\ attempt.number = clock[repository] =>
         /\ Working(repository) <= late[repository]
         /\ late[repository] = 0 => Has(repository, "failed")

AttemptsCounted ==
  /\ IsFiniteSet(attempts)
  /\ \A attempt \in attempts : attempt.number <= clock[attempt.repository]
  /\ \A repository \in Repositories : WorkCounted(repository)

\* A success that no webhook has told, or failed to tell, has one that will copy
\* it or has copied it.
SuccessNoticed ==
  \A repository \in Repositories :
    up /\ Has(repository, "succeeded") /\ ~FromStorage(repository) =>
      \/ repository \in announced \cup untold
      \/ \E notice \in notices :
           notice.repository = repository /\ notice.tells \in {"unread", "success"}

EmptyTargetLoaded ==
  \A repository \in Repositories :
    migrations[repository] # NoStatus /\ migrations[repository].targetOrg = NoOrganisation
      => lastLoad[repository] > 0

SavesOf(repository) == {save \in saves : save.repository = repository}

\* What is known of a repository's attempts: what is being saved, what was
\* saved last, and what the process says.
Known(repository) ==
  {save.status : save \in SavesOf(repository)}
    \cup ({rows[repository], migrations[repository]} \ {NoRow})

KnownInTime ==
  \A repository \in Repositories :
    \A status \in Known(repository) : status.updatedAt <= clock[repository]

\* A failure of that time is in the archive.
Filed(repository, time) ==
  \E i \in DOMAIN history[repository] :
    /\ history[repository][i].status = "failed"
    /\ history[repository][i].updatedAt = time

FailuresFiled ==
  \A repository \in Repositories \ unarchived :
    \A status \in Known(repository) :
      status.status = "failed" /\ status.updatedAt # clock[repository]
        => Filed(repository, status.updatedAt)

\* An entry that no attempt has touched since the last start of the process.
AsLoaded ==
  up => \A repository \in Repositories :
    /\ /\ migrations[repository] # NoStatus
       /\ migrations[repository].updatedAt # clock[repository]
       => /\ SavesOf(repository) = {} /\ rows[repository] # NoRow
          /\ rows[repository].updatedAt = migrations[repository].updatedAt
    /\ migrations[repository] = NoStatus /\ repository \notin unarchived
       => SavesOf(repository) = {} /\ rows[repository] = NoRow

MigratorTypes == StoreTypeOK /\ MigratorTypeOK
AttemptsInv == AttemptsKnown /\ AttemptsCounted /\ InProgressHasAttempt
TargetsInv == EmptyTargetLoaded /\ EmptyTargetOnlyFromStorage
FilingInv == KnownInTime /\ FailuresFiled /\ AsLoaded

MigratorInv ==
  MigratorTypes /\ ClosedAndDown /\ AttemptsInv /\ SuccessNoticed /\ TargetsInv /\ FilingInv
-----------------------------------------------------------------------------
(* What the invariant says.                                                *)

LEMMA CountedIsOne == AttemptsCounted => AtMostOneAtWork
BY DEF AttemptsCounted, WorkCounted, Working, AtMostOneAtWork

LEMMA NoticedIsAnnounced == SuccessNoticed => SuccessAnnounced
BY DEF SuccessNoticed, SuccessAnnounced
-----------------------------------------------------------------------------
(* Counting.                                                               *)

LEMMA OneMore ==
  ASSUME NEW S, IsFiniteSet(S), NEW x
  PROVE  /\ IsFiniteSet(S \cup {x})
         /\ Cardinality(S) \in Nat /\ Cardinality(S \cup {x}) \in Nat
         /\ Cardinality(S \cup {x}) <= Cardinality(S) + 1
<1>1. Cardinality(S) \in Nat
  BY FS_CardinalityType
<1>2. /\ IsFiniteSet(S \cup {x})
      /\ Cardinality(S \cup {x}) = IF x \in S THEN Cardinality(S) ELSE Cardinality(S) + 1
  BY FS_AddElement
<1> QED
  BY <1>1, <1>2

LEMMA OneLess ==
  ASSUME NEW S, IsFiniteSet(S), NEW x \in S
  PROVE  /\ IsFiniteSet(S \ {x})
         /\ Cardinality(S) \in Nat /\ Cardinality(S \ {x}) \in Nat
         /\ Cardinality(S \ {x}) = Cardinality(S) - 1
<1>1. Cardinality(S) \in Nat
  BY FS_CardinalityType
<1>2. IsFiniteSet(S \ {x}) /\ Cardinality(S \ {x}) = Cardinality(S) - 1
  BY FS_RemoveElement
<1>3. Cardinality(S \ {x}) \in Nat
  BY <1>2, FS_CardinalityType
<1> QED
  BY <1>1, <1>2, <1>3

\* The attempts at work of a repository are finitely many.
LEMMA WorkingNumber ==
  ASSUME IsFiniteSet(attempts), NEW repository
  PROVE  IsFiniteSet(AtWork(repository)) /\ Working(repository) \in Nat
<1>1. AtWork(repository) \subseteq attempts
  BY DEF AtWork, AttemptsOf
<1>2. IsFiniteSet(AtWork(repository))
  BY <1>1, FS_Subset
<1> QED
  BY <1>2, FS_CardinalityType DEF Working

-----------------------------------------------------------------------------
(* The operators.                                                          *)

Updated(before, new, time) == [before EXCEPT !.status = new, !.updatedAt = time]

LEMMA UpdatedStatus ==
  ASSUME NEW before \in MigrationStatus, NEW new \in Statuses, NEW time \in Time
  PROVE  /\ Updated(before, new, time) \in MigrationStatus
         /\ Updated(before, new, time).status = new
         /\ Updated(before, new, time).updatedAt = time
         /\ Updated(before, new, time).targetOrg = before.targetOrg
BY DEF MigrationStatus, Updated

Moved(attempt, next) == [attempt EXCEPT !.pc = next]

LEMMA MovedAttempt ==
  ASSUME NEW attempt \in Attempt, NEW next \in AttemptPC
  PROVE  /\ Moved(attempt, next) \in Attempt
         /\ Moved(attempt, next).pc = next
         /\ Moved(attempt, next).repository = attempt.repository
         /\ Moved(attempt, next).number = attempt.number
         /\ Moved(attempt, next).targetOrg = attempt.targetOrg
BY DEF Attempt, Moved

\* No database loses what the migrator goes by.
LEMMA WithoutTarget ==
  ASSUME NEW status \in MigrationStatus
  PROVE  LET without == [status EXCEPT !.targetOrg = NoOrganisation]
         IN /\ without \in MigrationStatus
            /\ without.status = status.status /\ without.updatedAt = status.updatedAt
            /\ without.targetOrg = NoOrganisation
BY DEF MigrationStatus

LEMMA UpsertKeeps ==
  ASSUME NEW status \in MigrationStatus
  PROVE  /\ Upsert(status) \in MigrationStatus
         /\ Upsert(status).status = status.status
         /\ Upsert(status).updatedAt = status.updatedAt
BY WithoutTarget, StoreAssumption DEF Upsert, SQLiteRow, MySQLRow, PostgresRow

LEMMA ArchivedKeeps ==
  ASSUME NEW status \in MigrationStatus
  PROVE  /\ Archived(status) \in MigrationStatus
         /\ Archived(status).status = status.status
         /\ Archived(status).updatedAt = status.updatedAt
BY WithoutTarget, StoreAssumption DEF Archived, SQLiteArchived, MySQLArchived, PostgresArchived

LEMMA LoadedKeeps ==
  ASSUME NEW row \in MigrationStatus \cup {NoRow}
  PROVE  /\ Loaded(row) \in MigrationStatus \cup {NoRow}
         /\ Loaded(row) = NoRow <=> row = NoRow
         /\ row # NoRow => /\ Loaded(row).status = row.status
                           /\ Loaded(row).updatedAt = row.updatedAt
<1>1. CASE row = NoRow
  BY <1>1 DEF Loaded
<1>2. CASE row \in MigrationStatus
  BY <1>2, WithoutTarget, StoreAssumption DEF Loaded, SQLiteStatus, MySQLStatus, PostgresStatus
<1> QED
  BY <1>1, <1>2

\* Time is known of an entry that an attempt can update.
LEMMA EntryOfAttempt ==
  ASSUME MigratorInv, NEW attempt \in attempts
  PROVE  /\ up /\ attempt \in Attempt /\ attempt.repository \in Repositories
         /\ migrations[attempt.repository] \in MigrationStatus
         /\ clock[attempt.repository] \in Time
<1>1. /\ attempts \subseteq Attempt /\ up
      /\ migrations \in [Repositories -> MigrationStatus \cup {NoStatus}]
      /\ clock \in [Repositories -> 0 .. MaxAttempts]
  BY DEF MigratorInv, MigratorTypes, MigratorTypeOK, ClosedAndDown
<1>2. attempt.repository \in Repositories
  BY <1>1 DEF Attempt
<1>3. migrations[attempt.repository] # NoStatus /\ clock[attempt.repository] > 0
  BY DEF MigratorInv, AttemptsInv, AttemptsKnown
<1> QED
  BY <1>1, <1>2, <1>3, StoreAssumption DEF Time
-----------------------------------------------------------------------------
(* Status updates of attempts.                                             *)

\* An update by an attempt, whatever else the step does.
Updating(attempt, new) ==
  /\ new \in Statuses
  /\ UpdateStatus(attempt.repository, new)
  /\ UNCHANGED Rest

\* What an update writes.
LEMMA UpdatingEffect ==
  ASSUME MigratorInv, NEW attempt \in attempts, NEW new, Updating(attempt, new)
  PROVE  \E status \in MigrationStatus :
           /\ status.status = new
           /\ status.updatedAt = clock[attempt.repository]
           /\ status.targetOrg = migrations[attempt.repository].targetOrg
           /\ migrations' = [migrations EXCEPT ![attempt.repository] = status]
           /\ saves' = IF open
                       THEN saves \cup {[repository |-> attempt.repository, status |-> status]}
                       ELSE saves
           /\ notices' = notices \cup {[repository |-> attempt.repository, tells |-> "unread"]}
              \/ (migrations[attempt.repository].status = new /\ notices' = notices)
<1> DEFINE repository == attempt.repository
           status == Updated(migrations[repository], new, clock[repository])
<1>1. migrations[repository] \in MigrationStatus /\ clock[repository] \in Time
      /\ new \in Statuses
  BY EntryOfAttempt DEF Updating
<1>2. /\ status \in MigrationStatus
      /\ status.status = new /\ status.updatedAt = clock[repository]
      /\ status.targetOrg = migrations[repository].targetOrg
  BY <1>1, UpdatedStatus
<1>3. /\ migrations' = [migrations EXCEPT ![repository] = status]
      /\ saves' = IF open THEN saves \cup {[repository |-> repository, status |-> status]}
                  ELSE saves
      /\ notices' = notices \cup {[repository |-> repository, tells |-> "unread"]}
         \/ (migrations[repository].status = new /\ notices' = notices)
  BY DEF Updating, UpdateStatus, SaveLater, Updated
<1> HIDE DEF status
<1> QED
  BY <1>2, <1>3

\* All but the attempts' own part of the invariant.
LEMMA UpdatingKeeps ==
  ASSUME MigratorInv, NEW attempt \in attempts, NEW new, Updating(attempt, new)
  PROVE  /\ StoreTypeOK'
         /\ migrations' \in [Repositories -> MigrationStatus \cup {NoStatus}]
         /\ migrations'[attempt.repository] # NoStatus
         /\ migrations'[attempt.repository].status = new
         /\ \A other \in Repositories \ {attempt.repository} :
              migrations'[other] = migrations[other]
         /\ notices' \subseteq Notice
         /\ ~open' => saves' = {}
         /\ SuccessNoticed' /\ EmptyTargetLoaded' /\ FilingInv'
<1> DEFINE repository == attempt.repository
<1>1. /\ up /\ repository \in Repositories
      /\ migrations[repository] \in MigrationStatus /\ clock[repository] \in Time
      /\ NoRow \notin MigrationStatus /\ NoStatus = NoRow
  BY EntryOfAttempt, StoreAssumption DEF NoStatus
<1>2. PICK status \in MigrationStatus :
        /\ status.status = new
        /\ status.updatedAt = clock[repository]
        /\ status.targetOrg = migrations[repository].targetOrg
        /\ migrations' = [migrations EXCEPT ![repository] = status]
        /\ saves' = IF open THEN saves \cup {[repository |-> repository, status |-> status]}
                    ELSE saves
        /\ notices' = notices \cup {[repository |-> repository, tells |-> "unread"]}
           \/ (migrations[repository].status = new /\ notices' = notices)
  BY UpdatingEffect
<1>3. /\ new \in Statuses
      /\ UNCHANGED <<up, clock, open, rows, history, faults, announced, untold, lastLoad,
                     unarchived>>
  BY DEF Updating, Rest
<1>4. /\ open \in BOOLEAN /\ rows \in [Repositories -> MigrationStatus \cup {NoRow}]
      /\ history \in [Repositories -> Seq(MigrationStatus)]
      /\ saves \subseteq Save /\ faults \in 0 .. MaxFaults
      /\ migrations \in [Repositories -> MigrationStatus \cup {NoStatus}]
      /\ notices \subseteq Notice
      /\ clock \in [Repositories -> 0 .. MaxAttempts]
  BY DEF MigratorInv, MigratorTypes, StoreTypeOK, MigratorTypeOK
<1>5. /\ migrations' \in [Repositories -> MigrationStatus \cup {NoStatus}]
      /\ migrations'[repository] = status /\ status # NoStatus
      /\ \A other \in Repositories \ {repository} : migrations'[other] = migrations[other]
  BY <1>1, <1>2, <1>4
<1>6. saves' \subseteq Save
  BY <1>1, <1>2, <1>4 DEF Save
<1>7. StoreTypeOK'
  BY <1>3, <1>4, <1>6 DEF StoreTypeOK
<1>8. notices' \subseteq Notice
  BY <1>1, <1>2, <1>3, <1>4 DEF Notice
<1>9. ~open' => saves' = {}
  BY <1>2, <1>3 DEF MigratorInv, ClosedAndDown
<1>10. SuccessNoticed'
  <2> SUFFICES ASSUME NEW r \in Repositories,
                      up', Has(r, "succeeded")', ~FromStorage(r)', r \notin announced \cup untold
               PROVE  \E notice \in notices' :
                        notice.repository = r /\ notice.tells \in {"unread", "success"}
    BY <1>3 DEF SuccessNoticed
  <2>1. notices \subseteq notices'
    BY <1>2
  <2>2. CASE [repository |-> r, tells |-> "unread"] \in notices'
    BY <2>2
  <2>3. CASE [repository |-> r, tells |-> "unread"] \notin notices'
    <3>1. r = repository => migrations[repository].status = new
      BY <2>3, <1>2
    <3>2. Has(r, "succeeded") /\ ~FromStorage(r)
      BY <3>1, <1>1, <1>2, <1>3, <1>5 DEF Has, FromStorage
    <3> QED
      BY <3>2, <2>1, <1>1 DEF MigratorInv, SuccessNoticed
  <2> QED
    BY <2>2, <2>3
<1>11. EmptyTargetLoaded'
  <2> SUFFICES ASSUME NEW r \in Repositories,
                      migrations'[r] # NoStatus, migrations'[r].targetOrg = NoOrganisation
               PROVE  lastLoad[r] > 0
    BY <1>3 DEF EmptyTargetLoaded
  <2>1. migrations[r] # NoStatus /\ migrations[r].targetOrg = NoOrganisation
    BY <1>1, <1>2, <1>5
  <2> QED
    BY <2>1 DEF MigratorInv, TargetsInv, EmptyTargetLoaded
<1>12. /\ SavesOf(repository)' \subseteq
            SavesOf(repository) \cup {[repository |-> repository, status |-> status]}
       /\ \A r \in Repositories \ {repository} : SavesOf(r)' = SavesOf(r)
  BY <1>2 DEF SavesOf
<1>13. /\ Known(repository)' \subseteq Known(repository) \cup {status}
       /\ \A r \in Repositories \ {repository} : Known(r)' = Known(r)
  BY <1>3, <1>5, <1>12 DEF Known
<1>14. \A r, time : Filed(r, time)' <=> Filed(r, time)
  BY <1>3 DEF Filed
<1>15. KnownInTime'
  <2> SUFFICES ASSUME NEW r \in Repositories, NEW s \in Known(r)'
               PROVE  s.updatedAt <= clock[r]
    BY <1>3 DEF KnownInTime
  <2>1. CASE s \in Known(r)
    BY <2>1 DEF MigratorInv, FilingInv, KnownInTime
  <2>2. CASE r = repository /\ s = status
    BY <2>2, <1>1, <1>2, StoreAssumption DEF Time
  <2> QED
    BY <2>1, <2>2, <1>13
<1>16. FailuresFiled'
  <2> SUFFICES ASSUME NEW r \in Repositories \ unarchived, NEW s \in Known(r)',
                      s.status = "failed", s.updatedAt # clock[r]
               PROVE  Filed(r, s.updatedAt)
    BY <1>3, <1>14 DEF FailuresFiled
  <2>1. s \in Known(r)
    BY <1>2, <1>13
  <2> QED
    BY <2>1 DEF MigratorInv, FilingInv, FailuresFiled
<1>17. AsLoaded'
  BY <1>1, <1>2, <1>3, <1>5, <1>12 DEF MigratorInv, FilingInv, AsLoaded
<1> QED
  BY <1>2, <1>5, <1>7, <1>8, <1>9, <1>10, <1>11, <1>15, <1>16, <1>17 DEF FilingInv

\* A step of an attempt that updates the status and moves on or ends.
LEMMA AttemptMovesOn ==
  ASSUME MigratorInv, NEW attempt \in attempts, NEW new, Updating(attempt, new),
         NEW next \in AttemptPC,
         attempts \ {attempt} \subseteq attempts',
         attempts' \subseteq (attempts \ {attempt}) \cup {Moved(attempt, next)},
         late' \in [Repositories -> Nat],
         \A r \in Repositories \ {attempt.repository} : late'[r] = late[r]
  PROVE  /\ MigratorTypes' /\ ClosedAndDown' /\ AttemptsKnown'
         /\ SuccessNoticed' /\ TargetsInv' /\ FilingInv'
         /\ \A r \in Repositories \ {attempt.repository} :
              /\ AttemptsOf(r)' = AttemptsOf(r)
              /\ \A status : Has(r, status)' <=> Has(r, status)
         /\ Has(attempt.repository, new)'
         /\ WorkCounted(attempt.repository)' => AttemptsCounted'
<1>1. /\ up /\ attempt \in Attempt /\ attempt.repository \in Repositories
  BY EntryOfAttempt
<1>2. /\ Moved(attempt, next) \in Attempt
      /\ Moved(attempt, next).pc = next
      /\ Moved(attempt, next).repository = attempt.repository
      /\ Moved(attempt, next).number = attempt.number
      /\ Moved(attempt, next).targetOrg = attempt.targetOrg
  BY <1>1, MovedAttempt
<1>3. UNCHANGED <<up, clock, open, rows, history, faults, announced, untold, lastLoad,
                  unarchived>>
  BY DEF Updating, Rest
<1>4. /\ StoreTypeOK'
      /\ migrations' \in [Repositories -> MigrationStatus \cup {NoStatus}]
      /\ migrations'[attempt.repository] # NoStatus
      /\ migrations'[attempt.repository].status = new
      /\ \A other \in Repositories \ {attempt.repository} :
           migrations'[other] = migrations[other]
      /\ notices' \subseteq Notice
      /\ ~open' => saves' = {}
      /\ SuccessNoticed' /\ EmptyTargetLoaded' /\ FilingInv'
  BY UpdatingKeeps
<1>5. \A a \in attempts' : \E b \in attempts :
        a.repository = b.repository /\ a.targetOrg = b.targetOrg /\ a.number = b.number
  BY <1>2
<1>6. MigratorTypes'
  BY <1>2, <1>3, <1>4 DEF MigratorInv, MigratorTypes, MigratorTypeOK
<1>7. ClosedAndDown'
  BY <1>1, <1>3, <1>4 DEF ClosedAndDown
<1>8. AttemptsKnown'
  <2> SUFFICES ASSUME NEW a \in attempts'
               PROVE  migrations'[a.repository] # NoStatus /\ clock[a.repository] > 0
    BY <1>3 DEF AttemptsKnown
  <2>1. PICK b \in attempts : a.repository = b.repository
    BY <1>5
  <2>2. migrations[b.repository] # NoStatus /\ clock[b.repository] > 0
        /\ b.repository \in Repositories
    BY EntryOfAttempt DEF MigratorInv, AttemptsInv, AttemptsKnown
  <2> QED
    BY <2>1, <2>2, <1>4
<1>9. TargetsInv'
  <2> SUFFICES ASSUME NEW a \in attempts', a.targetOrg = NoOrganisation
               PROVE  lastLoad[a.repository] > 0
    BY <1>3, <1>4 DEF TargetsInv, EmptyTargetOnlyFromStorage
  <2> QED
    BY <1>5 DEF MigratorInv, TargetsInv, EmptyTargetOnlyFromStorage
<1>10. \A r \in Repositories \ {attempt.repository} : AttemptsOf(r)' = AttemptsOf(r)
  BY <1>2 DEF AttemptsOf
<1>11. \A r \in Repositories \ {attempt.repository} :
         \A status : Has(r, status)' <=> Has(r, status)
  BY <1>4 DEF Has
<1>12. Has(attempt.repository, new)'
  BY <1>4 DEF Has
<1>13. ASSUME WorkCounted(attempt.repository)'
       PROVE  AttemptsCounted'
  <2>1. /\ IsFiniteSet(attempts)
        /\ \A a \in attempts : a.number <= clock[a.repository]
        /\ \A r \in Repositories : WorkCounted(r)
    BY DEF MigratorInv, AttemptsInv, AttemptsCounted
  <2>2. IsFiniteSet(attempts \cup {Moved(attempt, next)})
    BY <2>1, OneMore
  <2>3. IsFiniteSet(attempts')
    <3>1. attempts' \subseteq attempts \cup {Moved(attempt, next)}
      OBVIOUS
    <3> QED
      BY <2>2, <3>1, FS_Subset
  <2>4. \A a \in attempts' : a.number <= clock'[a.repository]
    BY <2>1, <1>3, <1>5
  <2>5. \A r \in Repositories \ {attempt.repository} : WorkCounted(r)'
    <3> SUFFICES ASSUME NEW r \in Repositories \ {attempt.repository}
                 PROVE  WorkCounted(r)'
      OBVIOUS
    <3>1. AtWork(r)' = AtWork(r) /\ late'[r] = late[r] /\ clock'[r] = clock[r]
      BY <1>3, <1>10 DEF AtWork
    <3> QED
      BY <3>1, <2>1, <1>10, <1>11 DEF WorkCounted, Working
  <2> QED
    BY <2>3, <2>4, <2>5, <1>13 DEF AttemptsCounted
<1> QED
  BY <1>4, <1>6, <1>7, <1>8, <1>9, <1>10, <1>11, <1>12, <1>13

\* What is known of the repository of an attempt before it moves.
LEMMA CountedBefore ==
  ASSUME MigratorInv, NEW attempt \in attempts
  PROVE  LET repository == attempt.repository
         IN /\ WorkCounted(repository) /\ IsFiniteSet(AtWork(repository))
            /\ Working(repository) \in Nat
            /\ late \in [Repositories -> Nat] /\ late[repository] \in Nat
            /\ attempt.number <= clock[repository]
            /\ attempt.number \in Nat /\ clock[repository] \in Nat
            /\ attempt \in AttemptsOf(repository)
            /\ attempt.pc # "report" => attempt \in AtWork(repository)
<1>1. attempt.repository \in Repositories /\ clock[attempt.repository] \in Time
      /\ attempt \in Attempt
  BY EntryOfAttempt
<1>2. attempt.number \in Time
  BY <1>1 DEF Attempt
<1>3. late \in [Repositories -> Nat]
  BY DEF MigratorInv, MigratorTypes, MigratorTypeOK
<1>4. /\ IsFiniteSet(attempts) /\ WorkCounted(attempt.repository)
      /\ attempt.number <= clock[attempt.repository]
  BY <1>1 DEF MigratorInv, AttemptsInv, AttemptsCounted
<1>5. attempt \in AttemptsOf(attempt.repository)
      /\ (attempt.pc # "report" => attempt \in AtWork(attempt.repository))
  BY DEF AttemptsOf, AtWork
<1>6. IsFiniteSet(AtWork(attempt.repository)) /\ Working(attempt.repository) \in Nat
  BY <1>4, WorkingNumber
<1>7. late[attempt.repository] \in Nat
  BY <1>1, <1>3
<1>8. attempt.number \in Nat /\ clock[attempt.repository] \in Nat
  BY <1>1, <1>2 DEF Time
<1> QED
  BY <1>3, <1>4, <1>5, <1>6, <1>7, <1>8

LEMMA ProgressInv ==
  ASSUME MigratorInv, NEW attempt \in attempts, Progress(attempt)
  PROVE  MigratorInv'
<1> DEFINE repository == attempt.repository
           after == Moved(attempt, "migrate")
<1>1. /\ Updating(attempt, "in_progress")
      /\ attempts' = (attempts \ {attempt}) \cup {after}
      /\ attempt.pc \in {"initiate", "migrate"} /\ late' = late
  BY DEF Progress, Updating, Move, Moved, Statuses
<1>2. /\ repository \in Repositories /\ after.repository = repository /\ after.pc = "migrate"
      /\ "migrate" \in AttemptPC /\ late \in [Repositories -> Nat]
  BY EntryOfAttempt, MovedAttempt
     DEF AttemptPC, MigratorInv, MigratorTypes, MigratorTypeOK
<1>3. /\ MigratorTypes' /\ ClosedAndDown' /\ AttemptsKnown'
      /\ SuccessNoticed' /\ TargetsInv' /\ FilingInv'
      /\ \A r \in Repositories \ {repository} :
           /\ AttemptsOf(r)' = AttemptsOf(r)
           /\ \A status : Has(r, status)' <=> Has(r, status)
      /\ Has(repository, "in_progress")'
      /\ WorkCounted(repository)' => AttemptsCounted'
  BY <1>1, <1>2, AttemptMovesOn
<1> HIDE DEF after
<1>4. WorkCounted(repository)'
  <2>1. /\ WorkCounted(repository) /\ IsFiniteSet(AtWork(repository))
        /\ Working(repository) \in Nat /\ late[repository] \in Nat
        /\ attempt \in AtWork(repository)
    BY <1>1, CountedBefore
  <2>2. clock'[repository] = clock[repository] /\ late'[repository] = late[repository]
    BY <1>1 DEF Updating, Rest
  <2>3. AtWork(repository)' = (AtWork(repository) \ {attempt}) \cup {after}
    BY <1>1, <1>2 DEF AtWork, AttemptsOf
  <2>4. /\ Working(repository)' \in Nat /\ Working(repository) > 0
        /\ Working(repository)' <= Working(repository)
    <3> DEFINE W == AtWork(repository)
               V == W \ {attempt}
    <3>1. /\ IsFiniteSet(V) /\ Cardinality(V) \in Nat
          /\ Cardinality(V) = Cardinality(W) - 1 /\ Cardinality(W) \in Nat
      <4> HIDE DEF W
      <4> QED
        BY <2>1, OneLess DEF W
    <3>2. Working(repository)' = Cardinality(V \cup {after})
      BY <2>3 DEF Working
    <3> HIDE DEF V
    <3>3. /\ Cardinality(V \cup {after}) \in Nat
          /\ Cardinality(V \cup {after}) <= Cardinality(V) + 1
      BY <3>1, OneMore
    <3>4. Working(repository) = Cardinality(W)
      BY DEF Working
    <3> HIDE DEF W
    <3> QED
      BY <3>1, <3>2, <3>3, <3>4
  <2>5. Working(repository)' <= 1 + late'[repository]
    BY <2>1, <2>2, <2>4 DEF WorkCounted
  <2>6. ASSUME NEW a \in AttemptsOf(repository)', a.pc = "report",
               a.number = clock'[repository]
        PROVE  /\ Working(repository)' <= late'[repository]
               /\ late'[repository] = 0 => Has(repository, "failed")'
    <3>1. a \in AttemptsOf(repository)
      BY <2>6, <1>1, <1>2 DEF AttemptsOf
    <3>2. Working(repository) <= late[repository]
      BY <3>1, <2>1, <2>2, <2>6 DEF WorkCounted
    <3> QED
      BY <3>2, <2>1, <2>2, <2>4
  <2> QED
    BY <2>5, <2>6, <1>3 DEF WorkCounted
<1>5. InProgressHasAttempt'
  <2>1. after \in AttemptsOf(repository)'
    BY <1>1, <1>2 DEF AttemptsOf
  <2>2. \A r \in Repositories : FromStorage(r)' <=> FromStorage(r)
    BY <1>1 DEF Updating, Rest, FromStorage
  <2>3. up
    BY EntryOfAttempt
  <2> QED
    BY <2>1, <2>2, <2>3, <1>3 DEF MigratorInv, AttemptsInv, InProgressHasAttempt
<1> QED
  BY <1>3, <1>4, <1>5 DEF MigratorInv, AttemptsInv

\* An attempt that writes success or failure and is no longer at work.
LEMMA SettleInv ==
  ASSUME MigratorInv, NEW attempt \in attempts, NEW new \in {"succeeded", "failed"},
         Updating(attempt, new),
         \/ /\ attempt.pc = "migrate" /\ late' = late
            /\ new = "succeeded" /\ attempts' = attempts \ {attempt}
         \/ /\ attempt.pc = "migrate" /\ late' = late
            /\ new = "failed"
            /\ attempts' = (attempts \ {attempt}) \cup {Moved(attempt, "report")}
         \/ /\ attempt.pc = "report" /\ new = "failed" /\ attempts' = attempts \ {attempt}
            /\ late' = [late EXCEPT ![attempt.repository] =
                          IF attempt.number < clock[attempt.repository] THEN @ + 1 ELSE @]
  PROVE  MigratorInv'
<1> DEFINE repository == attempt.repository
           after == Moved(attempt, "report")
<1>1. /\ repository \in Repositories /\ after.repository = repository /\ after.pc = "report"
      /\ "report" \in AttemptPC /\ late \in [Repositories -> Nat]
  BY EntryOfAttempt, MovedAttempt
     DEF AttemptPC, MigratorInv, MigratorTypes, MigratorTypeOK
<1>2. /\ attempts \ {attempt} \subseteq attempts'
      /\ attempts' \subseteq (attempts \ {attempt}) \cup {after}
  OBVIOUS
<1>3. /\ late' \in [Repositories -> Nat]
      /\ \A r \in Repositories \ {repository} : late'[r] = late[r]
  BY <1>1
<1>4. /\ MigratorTypes' /\ ClosedAndDown' /\ AttemptsKnown'
      /\ SuccessNoticed' /\ TargetsInv' /\ FilingInv'
      /\ \A r \in Repositories \ {repository} :
           /\ AttemptsOf(r)' = AttemptsOf(r)
           /\ \A status : Has(r, status)' <=> Has(r, status)
      /\ Has(repository, new)'
      /\ WorkCounted(repository)' => AttemptsCounted'
  BY <1>1, <1>2, <1>3, AttemptMovesOn
<1> HIDE DEF after
<1>5. /\ WorkCounted(repository) /\ IsFiniteSet(AtWork(repository))
      /\ Working(repository) \in Nat /\ late[repository] \in Nat
      /\ attempt \in AttemptsOf(repository)
      /\ attempt.number <= clock[repository]
      /\ attempt.number \in Nat /\ clock[repository] \in Nat
      /\ attempt.pc # "report" => attempt \in AtWork(repository)
  BY CountedBefore
<1>6. clock'[repository] = clock[repository]
  BY DEF Updating, Rest
<1>7. WorkCounted(repository)'
  <2>1. CASE attempt.pc = "migrate"
    <3>1. AtWork(repository)' = AtWork(repository) \ {attempt}
      BY <2>1, <1>1 DEF after, AtWork, AttemptsOf
    <3>2. Working(repository)' = Working(repository) - 1 /\ Working(repository)' \in Nat
      <4> DEFINE W == AtWork(repository)
      <4>1. /\ Working(repository)' = Cardinality(W \ {attempt})
            /\ Working(repository) = Cardinality(W)
        BY <3>1 DEF Working
      <4>2. attempt \in W /\ IsFiniteSet(W)
        BY <2>1, <1>5
      <4> HIDE DEF W
      <4> QED
        BY <4>1, <4>2, OneLess
    <3>3. late'[repository] = late[repository]
      BY <2>1
    <3>4. Working(repository)' <= late'[repository]
      BY <3>2, <3>3, <1>5 DEF WorkCounted
    <3>5. ASSUME NEW a \in AttemptsOf(repository)', a.pc = "report",
                 a.number = clock'[repository], new = "succeeded"
          PROVE  late'[repository] # 0
      <4>1. a \in AttemptsOf(repository)
        BY <3>5, <2>1 DEF AttemptsOf
      <4>2. Working(repository) <= late[repository]
        BY <4>1, <3>5, <1>5, <1>6 DEF WorkCounted
      <4> QED
        BY <4>2, <3>2, <3>3, <1>5
    <3>6. Working(repository)' <= 1 + late'[repository]
      BY <3>2, <3>3, <3>4, <1>5
    <3> QED
      BY <3>4, <3>5, <3>6, <1>4 DEF WorkCounted
  <2>2. CASE attempt.pc = "report"
    <3>1. AtWork(repository)' = AtWork(repository)
      BY <2>2 DEF AtWork, AttemptsOf
    <3>2. Working(repository)' = Working(repository)
      BY <3>1 DEF Working
    <3>3. late'[repository] = IF attempt.number < clock[repository]
                              THEN late[repository] + 1 ELSE late[repository]
      BY <2>2, <1>1
    <3>4. Working(repository)' <= late'[repository] /\ late'[repository] \in Nat
      <4>1. CASE attempt.number < clock[repository]
        BY <4>1, <3>2, <3>3, <1>5 DEF WorkCounted
      <4>2. CASE attempt.number = clock[repository]
        <5>1. Working(repository) <= late[repository]
          BY <4>2, <2>2, <1>5 DEF WorkCounted
        <5> QED
          BY <5>1, <4>2, <3>2, <3>3, <1>5
      <4> QED
        BY <4>1, <4>2, <1>5
    <3>5. Working(repository)' <= 1 + late'[repository]
      BY <3>2, <3>4, <1>5
    <3>6. Has(repository, "failed")'
      BY <2>2, <1>4
    <3> QED
      BY <3>4, <3>5, <3>6 DEF WorkCounted
  <2> QED
    BY <2>1, <2>2
<1>8. InProgressHasAttempt'
  <2>1. ~Has(repository, "in_progress")'
    BY <1>4 DEF Has
  <2>2. \A r \in Repositories : FromStorage(r)' <=> FromStorage(r)
    BY DEF Updating, Rest, FromStorage
  <2>3. up
    BY EntryOfAttempt
  <2> QED
    BY <2>1, <2>2, <2>3, <1>4 DEF MigratorInv, AttemptsInv, InProgressHasAttempt
<1> QED
  BY <1>4, <1>7, <1>8 DEF MigratorInv, AttemptsInv

LEMMA AttemptStepInv == MigratorInv /\ AttemptStep => MigratorInv'
<1> SUFFICES ASSUME MigratorInv, NEW attempt \in attempts,
                    Progress(attempt) \/ Succeed(attempt) \/ Fail(attempt)
                      \/ ReportFailure(attempt)
             PROVE  MigratorInv'
  BY DEF AttemptStep
<1>1. CASE Progress(attempt)
  BY <1>1, ProgressInv
<1>2. CASE Succeed(attempt)
  <2>1. /\ Updating(attempt, "succeeded") /\ attempts' = attempts \ {attempt}
        /\ attempt.pc = "migrate" /\ late' = late
    BY <1>2 DEF Succeed, Updating, Statuses
  <2> QED
    BY <2>1, SettleInv
<1>3. CASE Fail(attempt)
  <2>1. /\ Updating(attempt, "failed")
        /\ attempts' = (attempts \ {attempt}) \cup {Moved(attempt, "report")}
        /\ attempt.pc = "migrate" /\ late' = late
    BY <1>3 DEF Fail, Updating, Statuses, Move, Moved
  <2> QED
    BY <2>1, SettleInv
<1>4. CASE ReportFailure(attempt)
  <2>1. /\ Updating(attempt, "failed") /\ attempts' = attempts \ {attempt}
        /\ attempt.pc = "report"
        /\ late' = [late EXCEPT ![attempt.repository] =
                      IF attempt.number < clock[attempt.repository] THEN @ + 1 ELSE @]
    BY <1>4 DEF ReportFailure, Updating, Statuses
  <2> QED
    BY <2>1, SettleInv
<1> QED
  BY <1>1, <1>2, <1>3, <1>4
-----------------------------------------------------------------------------
(* Requests.                                                               *)

\* A new attempt of a repository that has none at work, after whatever its
\* failures needed to be archived.
Starting(repository, entryOrg, requestOrg) ==
  /\ up
  /\ Begin(repository, entryOrg, requestOrg)
  /\ entryOrg \in Organisations \cup {NoOrganisation}
  /\ requestOrg \in Organisations \cup {NoOrganisation}
  /\ NoOrganisation \in {entryOrg, requestOrg} => lastLoad[repository] > 0
  /\ Working(repository) <= late[repository]
  /\ faults' \in 0 .. MaxFaults
  /\ history' \in [Repositories -> Seq(MigrationStatus)]
  /\ unarchived \subseteq unarchived' /\ unarchived' \subseteq Repositories
  /\ \A r \in Repositories, time \in Time : Filed(r, time) => Filed(r, time)'
  /\ repository \notin unarchived' =>
       \A status \in Known(repository) :
         status.status = "failed" /\ status.updatedAt = clock[repository]
           => Filed(repository, status.updatedAt)'

\* What is known of a repository is a status.
LEMMA KnownTypes ==
  ASSUME MigratorTypes, NEW repository \in Repositories, NEW status \in Known(repository)
  PROVE  status \in MigrationStatus /\ status.updatedAt \in Time
<1>1. status \in MigrationStatus
  BY DEF MigratorTypes, StoreTypeOK, MigratorTypeOK, Known, SavesOf, Save, NoStatus
<1> QED
  BY <1>1 DEF MigrationStatus

LEMMA StartingFiles ==
  ASSUME MigratorInv,
         NEW repository \in Repositories, NEW entryOrg, NEW requestOrg,
         Starting(repository, entryOrg, requestOrg),
         NEW entry \in MigrationStatus, entry.status = "in_progress",
         entry.updatedAt = clock[repository] + 1,
         migrations' = [migrations EXCEPT ![repository] = entry]
  PROVE  FilingInv'
<1>1. /\ UNCHANGED <<up, open, rows, saves>>
      /\ clock' = [clock EXCEPT ![repository] = clock[repository] + 1]
      /\ clock \in [Repositories -> 0 .. MaxAttempts]
      /\ migrations \in [Repositories -> MigrationStatus \cup {NoStatus}]
      /\ NoStatus = NoRow /\ NoRow \notin MigrationStatus
      /\ MaxAttempts \in Nat
  BY StoreAssumption
     DEF Starting, Begin, MigratorInv, MigratorTypes, MigratorTypeOK, NoStatus
<1>2. /\ migrations'[repository] = entry
      /\ \A r \in Repositories \ {repository} :
           migrations'[r] = migrations[r] /\ clock'[r] = clock[r]
      /\ clock'[repository] = clock[repository] + 1
  BY <1>1
<1>3. /\ \A r \in Repositories : SavesOf(r)' = SavesOf(r)
      /\ \A r \in Repositories \ {repository} : Known(r)' = Known(r)
      /\ Known(repository)' \subseteq Known(repository) \cup {entry}
  BY <1>1, <1>2 DEF Known, SavesOf
<1>4. KnownInTime'
  <2> SUFFICES ASSUME NEW r \in Repositories, NEW s \in Known(r)'
               PROVE  s.updatedAt <= clock'[r]
    BY DEF KnownInTime
  <2>1. clock[r] <= clock'[r] /\ clock[r] \in Nat /\ clock'[r] \in Nat
    BY <1>1, <1>2
  <2>2. CASE s \in Known(r)
    <3>1. s.updatedAt <= clock[r] /\ s.updatedAt \in Nat
      BY <2>2, KnownTypes DEF MigratorInv, FilingInv, KnownInTime, Time
    <3> QED
      BY <2>1, <3>1
  <2>3. CASE r = repository /\ s = entry
    BY <2>1, <2>3, <1>2
  <2> QED
    BY <2>2, <2>3, <1>3
<1>5. FailuresFiled'
  <2> SUFFICES ASSUME NEW r \in Repositories \ unarchived', NEW s \in Known(r)',
                      s.status = "failed", s.updatedAt # clock'[r]
               PROVE  Filed(r, s.updatedAt)'
    BY DEF FailuresFiled
  <2>1. s \in Known(r) /\ s.updatedAt \in Time
    BY <1>3, KnownTypes DEF MigratorInv
  <2>2. r \notin unarchived
    BY DEF Starting
  <2>3. CASE s.updatedAt # clock[r]
    <3>1. Filed(r, s.updatedAt)
      BY <2>1, <2>2, <2>3 DEF MigratorInv, FilingInv, FailuresFiled
    <3> QED
      BY <3>1, <2>1 DEF Starting
  <2>4. CASE s.updatedAt = clock[r]
    <3>1. r = repository
      BY <2>4, <1>2
    <3> QED
      BY <3>1, <2>1, <2>4 DEF Starting
  <2> QED
    BY <2>3, <2>4
<1>6. AsLoaded'
  <2> SUFFICES ASSUME NEW r \in Repositories
               PROVE  /\ /\ migrations'[r] # NoStatus
                         /\ migrations'[r].updatedAt # clock'[r]
                         => /\ SavesOf(r)' = {} /\ rows'[r] # NoRow
                            /\ rows'[r].updatedAt = migrations'[r].updatedAt
                      /\ migrations'[r] = NoStatus /\ r \notin unarchived'
                         => SavesOf(r)' = {} /\ rows'[r] = NoRow
    BY DEF AsLoaded
  <2>1. CASE r = repository
    BY <2>1, <1>1, <1>2
  <2>2. CASE r # repository
    <3>1. up /\ unarchived \subseteq unarchived'
      BY DEF Starting
    <3> QED
      BY <3>1, <2>2, <1>1, <1>2, <1>3 DEF MigratorInv, FilingInv, AsLoaded
  <2> QED
    BY <2>1, <2>2
<1> QED
  BY <1>4, <1>5, <1>6 DEF FilingInv

LEMMA StartingInv ==
  ASSUME MigratorInv,
         NEW repository \in Repositories, NEW entryOrg, NEW requestOrg,
         Starting(repository, entryOrg, requestOrg)
  PROVE  MigratorInv'
<1> DEFINE entry == Fresh(repository, entryOrg)
           begun == [repository |-> repository, number |-> clock[repository] + 1,
                     pc |-> "initiate", targetOrg |-> requestOrg]
<1>1. /\ StoreTypeOK /\ MigratorTypeOK
      /\ clock \in [Repositories -> 0 .. MaxAttempts]
      /\ migrations \in [Repositories -> MigrationStatus \cup {NoStatus}]
      /\ NoStatus = NoRow /\ NoRow \notin MigrationStatus
      /\ MaxAttempts \in Nat
  BY StoreAssumption DEF MigratorInv, MigratorTypes, MigratorTypeOK, NoStatus
<1>2. /\ up /\ clock[repository] < MaxAttempts
      /\ clock' = [clock EXCEPT ![repository] = clock[repository] + 1]
      /\ migrations' = [migrations EXCEPT ![repository] = entry]
      /\ attempts' = attempts \cup {begun}
      /\ announced' = announced \ {repository} /\ untold' = untold \ {repository}
      /\ UNCHANGED <<up, open, rows, saves, notices, lastLoad, late>>
  BY DEF Starting, Begin
<1>3. clock[repository] + 1 \in Time /\ clock[repository] \in Nat
  BY <1>1, <1>2 DEF Time
<1>4. /\ entry \in MigrationStatus /\ entry.status = "in_progress"
      /\ entry.updatedAt = clock[repository] + 1 /\ entry.targetOrg = entryOrg
  BY <1>3 DEF Starting, MigrationStatus, Fresh, Statuses
<1>5. /\ begun \in Attempt /\ begun.repository = repository /\ begun.pc = "initiate"
      /\ begun.targetOrg = requestOrg /\ begun.number = clock[repository] + 1
  BY <1>3 DEF Starting, Attempt, AttemptPC
<1>6. FilingInv'
  BY <1>2, <1>4, StartingFiles
<1> HIDE DEF entry, begun
<1>7. /\ migrations' \in [Repositories -> MigrationStatus \cup {NoStatus}]
      /\ migrations'[repository] = entry /\ entry # NoStatus
      /\ \A r \in Repositories \ {repository} :
           migrations'[r] = migrations[r] /\ clock'[r] = clock[r]
      /\ clock'[repository] = clock[repository] + 1
      /\ clock' \in [Repositories -> 0 .. MaxAttempts]
  <2>1. clock[repository] + 1 \in 0 .. MaxAttempts
    BY <1>3 DEF Time
  <2> QED
    BY <2>1, <1>1, <1>2, <1>4
<1>8. MigratorTypes'
  <2>1. StoreTypeOK'
    BY <1>1, <1>2 DEF Starting, StoreTypeOK
  <2>2. attempts' \subseteq Attempt /\ unarchived' \subseteq Repositories
    BY <1>1, <1>2, <1>5 DEF Starting, MigratorTypeOK
  <2> QED
    BY <2>1, <2>2, <1>1, <1>2, <1>7 DEF MigratorTypes, MigratorTypeOK
<1>9. ClosedAndDown'
  BY <1>2 DEF MigratorInv, ClosedAndDown
<1>10. \A attempt \in attempts : attempt.repository \in Repositories
  BY <1>1 DEF MigratorTypeOK, Attempt
<1>11. AttemptsKnown'
  <2> SUFFICES ASSUME NEW attempt \in attempts'
               PROVE  /\ migrations'[attempt.repository] # NoStatus
                      /\ clock'[attempt.repository] > 0
    BY DEF AttemptsKnown
  <2>1. CASE attempt.repository = repository
    BY <2>1, <1>3, <1>7
  <2>2. CASE attempt.repository # repository
    <3>1. attempt \in attempts
      BY <2>2, <1>2, <1>5
    <3> QED
      BY <3>1, <2>2, <1>7, <1>10 DEF MigratorInv, AttemptsInv, AttemptsKnown
  <2> QED
    BY <2>1, <2>2
<1>12. /\ \A r \in Repositories \ {repository} :
            AttemptsOf(r)' = AttemptsOf(r) /\ AtWork(r)' = AtWork(r)
       /\ AtWork(repository)' = AtWork(repository) \cup {begun}
  BY <1>2, <1>5 DEF AttemptsOf, AtWork
<1>13. \A r \in Repositories \ {repository} : \A status : Has(r, status)' <=> Has(r, status)
  BY <1>7 DEF Has
<1>14. Has(repository, "in_progress")'
  BY <1>4, <1>7 DEF Has
<1>15. AttemptsCounted'
  <2>1. /\ IsFiniteSet(attempts)
        /\ \A a \in attempts : a.number <= clock[a.repository]
        /\ \A r \in Repositories : WorkCounted(r)
        /\ late \in [Repositories -> Nat]
    BY <1>1 DEF MigratorInv, AttemptsInv, AttemptsCounted, MigratorTypeOK
  <2>2. IsFiniteSet(attempts')
    BY <2>1, <1>2, OneMore
  <2>3. \A a \in attempts : a.number \in Nat /\ clock[a.repository] \in Nat
                            /\ clock[a.repository] <= clock'[a.repository]
                            /\ (a.repository = repository => a.number # clock'[repository])
    <3>1. \A a \in attempts : a.number \in Nat
      BY <1>1 DEF MigratorTypeOK, Attempt, Time
    <3>2. \A r \in Repositories :
            clock[r] \in Nat /\ clock'[r] \in Nat /\ clock[r] <= clock'[r]
      BY <1>1, <1>3, <1>7
    <3> QED
      BY <3>1, <3>2, <2>1, <1>7, <1>10
  <2>4. \A a \in attempts' : a.number <= clock'[a.repository]
    <3>1. \A a \in attempts : a.number <= clock'[a.repository] /\ clock'[a.repository] \in Nat
      BY <2>1, <2>3, <1>7, <1>10
    <3>2. begun.number <= clock'[begun.repository]
      BY <1>3, <1>5, <1>7
    <3> QED
      BY <3>1, <3>2, <1>2
  <2>5. WorkCounted(repository)'
    <3>1. IsFiniteSet(AtWork(repository)) /\ Working(repository) \in Nat
      BY <2>1, WorkingNumber
    <3>2. Working(repository) <= late[repository]
      BY DEF Starting
    <3>3. Working(repository)' \in Nat /\ Working(repository)' <= Working(repository) + 1
      <4> DEFINE W == AtWork(repository)
      <4>1. /\ Working(repository)' = Cardinality(W \cup {begun})
            /\ Working(repository) = Cardinality(W)
        BY <1>12 DEF Working
      <4>2. IsFiniteSet(W)
        BY <3>1
      <4> HIDE DEF W
      <4> QED
        BY <4>1, <4>2, OneMore
    <3>4. late'[repository] = late[repository] /\ late[repository] \in Nat
      BY <2>1, <1>2
    <3>5. Working(repository)' <= 1 + late'[repository]
      BY <3>1, <3>2, <3>3, <3>4
    <3>6. \A a \in AttemptsOf(repository)' : ~(a.pc = "report" /\ a.number = clock'[repository])
      BY <2>3, <1>2, <1>5 DEF AttemptsOf
    <3> QED
      BY <3>5, <3>6, <1>14 DEF WorkCounted
  <2>6. ASSUME NEW r \in Repositories \ {repository}
        PROVE  WorkCounted(r)'
    BY <2>1, <1>2, <1>7, <1>12, <1>13 DEF WorkCounted, Working
  <2> QED
    BY <2>2, <2>4, <2>5, <2>6 DEF AttemptsCounted
<1>16. InProgressHasAttempt'
  <2> SUFFICES ASSUME NEW r \in Repositories, Has(r, "in_progress")'
               PROVE  AttemptsOf(r)' # {} \/ FromStorage(r)'
    BY DEF InProgressHasAttempt
  <2>1. CASE r = repository
    BY <2>1, <1>2, <1>5 DEF AttemptsOf
  <2>2. CASE r # repository
    <3>1. FromStorage(r)' <=> FromStorage(r)
      BY <2>2, <1>2, <1>7 DEF FromStorage
    <3> QED
      BY <3>1, <2>2, <1>2, <1>12, <1>13 DEF MigratorInv, AttemptsInv, InProgressHasAttempt
  <2> QED
    BY <2>1, <2>2
<1>17. SuccessNoticed'
  <2> SUFFICES ASSUME NEW r \in Repositories, Has(r, "succeeded")', ~FromStorage(r)',
                      r \notin announced' \cup untold'
               PROVE  \E notice \in notices' :
                        notice.repository = r /\ notice.tells \in {"unread", "success"}
    BY DEF SuccessNoticed
  <2>1. r # repository
    BY <1>4, <1>7 DEF Has
  <2>2. Has(r, "succeeded") /\ ~FromStorage(r) /\ r \notin announced \cup untold
    BY <2>1, <1>2, <1>7, <1>13 DEF FromStorage
  <2> QED
    BY <2>2, <1>2 DEF MigratorInv, SuccessNoticed
<1>18. TargetsInv'
  <2>1. EmptyTargetLoaded'
    BY <1>2, <1>4, <1>7 DEF Starting, MigratorInv, TargetsInv, EmptyTargetLoaded
  <2>2. EmptyTargetOnlyFromStorage'
    BY <1>2, <1>5 DEF Starting, MigratorInv, TargetsInv, EmptyTargetOnlyFromStorage
  <2> QED
    BY <2>1, <2>2 DEF TargetsInv
<1> QED
  BY <1>6, <1>8, <1>9, <1>11, <1>15, <1>16, <1>17, <1>18 DEF MigratorInv, AttemptsInv

\* The archive grows by the status that is about to be reset, and keeps what
\* it has.
LEMMA ArchiveFiles ==
  ASSUME MigratorTypes, NEW repository \in Repositories, NEW status \in MigrationStatus,
         ArchiveAttempt(repository, status)
  PROVE  /\ history' \in [Repositories -> Seq(MigrationStatus)]
         /\ faults' \in 0 .. MaxFaults
         /\ \A r \in Repositories, time \in Time : Filed(r, time) => Filed(r, time)'
         /\ history' = history
            \/ (status.status = "failed" => Filed(repository, status.updatedAt)')
<1>1. /\ history \in [Repositories -> Seq(MigrationStatus)] /\ faults \in 0 .. MaxFaults
      /\ MaxFaults \in Nat
  BY StoreAssumption DEF MigratorTypes, StoreTypeOK
<1>2. CASE /\ history' = [history EXCEPT
                            ![repository] = Append(history[repository], Archived(status))]
           /\ faults' = faults
  <2> DEFINE before == history[repository]
             entry == Archived(status)
             after == Append(before, entry)
  <2>1. /\ entry \in MigrationStatus
        /\ entry.status = status.status /\ entry.updatedAt = status.updatedAt
    BY ArchivedKeeps
  <2> HIDE DEF entry
  <2>2. before \in Seq(MigrationStatus)
    BY <1>1
  <2> HIDE DEF before
  <2>3. /\ after \in Seq(MigrationStatus) /\ DOMAIN before \subseteq DOMAIN after
        /\ \A i \in DOMAIN before : after[i] = before[i]
        /\ Len(after) \in DOMAIN after /\ after[Len(after)] = entry
    BY <2>1, <2>2
  <2> HIDE DEF after
  <2>4. /\ history' \in [Repositories -> Seq(MigrationStatus)]
        /\ history'[repository] = after
        /\ \A r \in Repositories \ {repository} : history'[r] = history[r]
    BY <1>1, <1>2, <2>3 DEF after, before, entry
  <2>5. \A r \in Repositories, time \in Time : Filed(r, time) => Filed(r, time)'
    <3> SUFFICES ASSUME NEW r \in Repositories, NEW time \in Time, Filed(r, time)
                 PROVE  Filed(r, time)'
      OBVIOUS
    <3>1. PICK i \in DOMAIN history[r] :
            history[r][i].status = "failed" /\ history[r][i].updatedAt = time
      BY DEF Filed
    <3>2. i \in DOMAIN history'[r] /\ history'[r][i] = history[r][i]
      BY <2>3, <2>4 DEF before
    <3> QED
      BY <3>1, <3>2 DEF Filed
  <2>6. status.status = "failed" => Filed(repository, status.updatedAt)'
    <3>1. Len(after) \in DOMAIN history'[repository]
          /\ history'[repository][Len(after)] = entry
      BY <2>3, <2>4
    <3> QED
      BY <3>1, <2>1 DEF Filed
  <2> QED
    BY <1>1, <1>2, <2>4, <2>5, <2>6
<1>3. CASE (IF open THEN Fault ELSE faults' = faults) /\ history' = history
  <2>1. faults' \in 0 .. MaxFaults
    BY <1>1, <1>3 DEF Fault
  <2>2. \A r \in Repositories, time \in Time : Filed(r, time) => Filed(r, time)'
    BY <1>3 DEF Filed
  <2> QED
    BY <1>1, <1>3, <2>1, <2>2
<1> QED
  BY <1>2, <1>3 DEF ArchiveAttempt

\* Resetting a failed entry.
LEMMA ArchiveThenBeginStarts ==
  ASSUME MigratorInv, up, NEW repository \in Repositories,
         NEW entryOrg \in Organisations \cup {NoOrganisation},
         NEW requestOrg \in Organisations \cup {NoOrganisation},
         NoOrganisation \in {entryOrg, requestOrg}
           => migrations[repository].targetOrg = NoOrganisation,
         Has(repository, "failed"),
         ArchiveThenBegin(repository, entryOrg, requestOrg)
  PROVE  Starting(repository, entryOrg, requestOrg)
<1> DEFINE status == migrations[repository]
<1>1. /\ status \in MigrationStatus /\ status # NoStatus /\ status.status = "failed"
      /\ NoStatus = NoRow
  BY DEF MigratorInv, MigratorTypes, MigratorTypeOK, Has, NoStatus
<1>2. /\ ArchiveAttempt(repository, status)
      /\ unarchived' = IF UNCHANGED history THEN unarchived \cup {repository} ELSE unarchived
      /\ Begin(repository, entryOrg, requestOrg)
  BY DEF ArchiveThenBegin
<1>3. /\ history' \in [Repositories -> Seq(MigrationStatus)]
      /\ faults' \in 0 .. MaxFaults
      /\ \A r \in Repositories, time \in Time : Filed(r, time) => Filed(r, time)'
      /\ \/ history' = history
         \/ \A time \in Time : time = status.updatedAt => Filed(repository, time)'
  <2> HIDE DEF status
  <2>1. \A old \in MigrationStatus : old = status =>
          /\ history' \in [Repositories -> Seq(MigrationStatus)]
          /\ faults' \in 0 .. MaxFaults
          /\ \A r \in Repositories, time \in Time : Filed(r, time) => Filed(r, time)'
          /\ history' = history
             \/ (old.status = "failed" => Filed(repository, old.updatedAt)')
    BY <1>1, <1>2, ArchiveFiles DEF MigratorInv
  <2> QED
    BY <2>1, <1>1
<1>4. NoOrganisation \in {entryOrg, requestOrg} => lastLoad[repository] > 0
  BY <1>1 DEF MigratorInv, TargetsInv, EmptyTargetLoaded
<1>5. Working(repository) <= late[repository]
  BY DEF MigratorInv, AttemptsInv, AttemptsCounted, WorkCounted, Has
<1>6. unarchived \subseteq unarchived' /\ unarchived' \subseteq Repositories
  BY <1>2 DEF MigratorInv, MigratorTypes, MigratorTypeOK
<1>7. ASSUME repository \notin unarchived', NEW s \in Known(repository),
             s.status = "failed", s.updatedAt = clock[repository]
      PROVE  Filed(repository, s.updatedAt)'
  <2>1. \A time \in Time : time = status.updatedAt => Filed(repository, time)'
    BY <1>2, <1>3, <1>7
  <2>2. s.updatedAt \in Time
    BY KnownTypes DEF MigratorInv
  <2>3. status.updatedAt = clock[repository]
    <3>1. s = status \/ s = rows[repository] \/ SavesOf(repository) # {}
      BY DEF Known
    <3> QED
      BY <3>1, <1>1, <1>7 DEF MigratorInv, FilingInv, AsLoaded
  <2> QED
    BY <2>1, <2>2, <2>3, <1>7
<1> QED
  BY <1>2, <1>3, <1>4, <1>5, <1>6, <1>7 DEF Starting

LEMMA StartMigrationInv ==
  ASSUME MigratorInv, NEW repository \in Repositories, NEW org \in Organisations,
         StartMigration(repository, org)
  PROVE  MigratorInv'
<1>1. CASE StartNew(repository, org)
  <2>1. /\ up /\ migrations[repository] = NoStatus /\ Begin(repository, org, org)
        /\ UNCHANGED <<history, faults, unarchived>>
    BY <1>1 DEF StartMigration, StartNew
  <2>2. Working(repository) <= late[repository]
    BY <2>1 DEF MigratorInv, AttemptsInv, AttemptsCounted, WorkCounted, Has
  <2>3. /\ faults' \in 0 .. MaxFaults /\ history' \in [Repositories -> Seq(MigrationStatus)]
        /\ unarchived' \subseteq Repositories
    BY <2>1 DEF MigratorInv, MigratorTypes, StoreTypeOK, MigratorTypeOK
  <2>4. repository \notin unarchived' => Known(repository) = {}
    BY <2>1 DEF MigratorInv, FilingInv, AsLoaded, Known, NoStatus
  <2>5. \A r \in Repositories, time \in Time : Filed(r, time) => Filed(r, time)'
    BY <2>1 DEF Filed
  <2>6. NoOrganisation \notin {org, org}
    BY OrganisationAssumption
  <2> QED
    BY <2>1, <2>2, <2>3, <2>4, <2>5, <2>6, StartingInv DEF Starting
<1>2. CASE StartAgain(repository, org)
  <2> DEFINE kept == migrations[repository].targetOrg
  <2>1. up /\ Has(repository, "failed") /\ ArchiveThenBegin(repository, kept, org)
    BY <1>2 DEF StartMigration, StartAgain
  <2>2. kept \in Organisations \cup {NoOrganisation}
    BY <2>1 DEF MigratorInv, MigratorTypes, MigratorTypeOK, Has, MigrationStatus
  <2>3. NoOrganisation \in {kept, org} => kept = NoOrganisation
    BY OrganisationAssumption
  <2>4. Starting(repository, kept, org)
    BY <2>1, <2>2, <2>3, ArchiveThenBeginStarts
  <2> QED
    BY <2>4, StartingInv
<1> QED
  BY <1>1, <1>2 DEF StartMigration

LEMMA RetryMigrationInv ==
  ASSUME MigratorInv, NEW repository \in Repositories,
         NEW org \in Organisations \cup {NoOrganisation}, RetryMigration(repository, org)
  PROVE  MigratorInv'
<1> DEFINE target == IF org = NoOrganisation THEN migrations[repository].targetOrg ELSE org
<1>1. up /\ Has(repository, "failed") /\ ArchiveThenBegin(repository, target, target)
  BY DEF RetryMigration
<1>2. target \in Organisations \cup {NoOrganisation}
  BY <1>1 DEF MigratorInv, MigratorTypes, MigratorTypeOK, Has, MigrationStatus
<1>3. NoOrganisation \in {target, target} => migrations[repository].targetOrg = NoOrganisation
  OBVIOUS
<1>4. Starting(repository, target, target)
  BY <1>1, <1>2, <1>3, ArchiveThenBeginStarts
<1> QED
  BY <1>4, StartingInv
-----------------------------------------------------------------------------
(* Webhooks, saves and the life of the process.                            *)

LEMMA MigratorInitInv == StoreInit /\ MigratorInit => MigratorInv
<1> SUFFICES ASSUME StoreInit, MigratorInit PROVE MigratorInv
  OBVIOUS
<1> USE StoreAssumption DEF StoreInit, MigratorInit, NoStatus
<1>1. 0 \in 0 .. MaxAttempts /\ 0 \in 0 .. MaxAttempts + 1 /\ 0 \in 0 .. MaxFaults
  OBVIOUS
<1>2. MigratorTypes
  <2>1. << >> \in Seq(MigrationStatus)
    OBVIOUS
  <2> QED
    BY <1>1, <2>1 DEF MigratorTypes, StoreTypeOK, MigratorTypeOK
<1>3. ClosedAndDown /\ AttemptsInv /\ SuccessNoticed /\ TargetsInv
  <2>1. IsFiniteSet(attempts) /\ \A r \in Repositories : AttemptsOf(r) = {} /\ Working(r) = 0
    BY FS_EmptySet DEF AttemptsOf, AtWork, Working
  <2>2. AttemptsCounted
    BY <2>1 DEF AttemptsCounted, WorkCounted
  <2> QED
    BY <2>2 DEF ClosedAndDown, AttemptsInv, AttemptsKnown, InProgressHasAttempt, Has,
       SuccessNoticed, TargetsInv, EmptyTargetLoaded, EmptyTargetOnlyFromStorage
<1>4. \A r \in Repositories : Known(r) = {} /\ SavesOf(r) = {}
  BY DEF Known, SavesOf
<1>5. FilingInv
  BY <1>4 DEF FilingInv, KnownInTime, FailuresFiled, AsLoaded
<1> QED
  BY <1>2, <1>3, <1>5 DEF MigratorInv

\* Steps that no attempt and no entry has a part in.
LEMMA AttemptsStay ==
  ASSUME MigratorInv, UNCHANGED <<up, migrations, clock, attempts, lastLoad, late>>
  PROVE  /\ AttemptsInv' /\ TargetsInv'
         /\ UNCHANGED <<notices, announced, untold>> => SuccessNoticed'
<1>1. /\ up' = up /\ migrations' = migrations /\ clock' = clock
      /\ attempts' = attempts /\ lastLoad' = lastLoad /\ late' = late
  OBVIOUS
<1>2. ASSUME NEW r \in Repositories
      PROVE  /\ AttemptsOf(r)' = AttemptsOf(r)
             /\ AtWork(r)' = AtWork(r)
             /\ FromStorage(r)' = FromStorage(r)
             /\ \A status : Has(r, status)' = Has(r, status)
  BY <1>1 DEF AttemptsOf, AtWork, FromStorage, Has
<1>3. ASSUME NEW r \in Repositories, WorkCounted(r)
      PROVE  WorkCounted(r)'
  <2>1. Working(r)' = Working(r)
    BY <1>2 DEF Working
  <2>2. AttemptsOf(r)' = AttemptsOf(r) /\ \A status : Has(r, status)' = Has(r, status)
    BY <1>2
  <2> QED
    BY <2>1, <2>2, <1>1, <1>3 DEF WorkCounted
<1>4. AttemptsInv'
  BY <1>1, <1>2, <1>3 DEF MigratorInv, AttemptsInv, AttemptsKnown, AttemptsCounted,
     InProgressHasAttempt
<1>5. TargetsInv'
  BY DEF MigratorInv, TargetsInv, EmptyTargetLoaded, EmptyTargetOnlyFromStorage
<1>6. UNCHANGED <<notices, announced, untold>> => SuccessNoticed'
  BY <1>1, <1>2 DEF MigratorInv, SuccessNoticed
<1> QED
  BY <1>4, <1>5, <1>6

\* Steps that change nothing.
LEMMA MigratorStutters == MigratorInv /\ UNCHANGED vars => MigratorInv'
<1> SUFFICES ASSUME MigratorInv, UNCHANGED vars PROVE MigratorInv'
  OBVIOUS
<1> USE DEF vars, storeVars, migratorVars, historyVars
<1>1. AttemptsInv' /\ TargetsInv' /\ SuccessNoticed'
  BY AttemptsStay
<1> QED
  BY <1>1 DEF MigratorInv, MigratorTypes, StoreTypeOK, MigratorTypeOK, ClosedAndDown, FilingInv,
     KnownInTime, FailuresFiled, AsLoaded, Known, SavesOf, Filed

LEMMA NotifyInv ==
  ASSUME MigratorInv, NEW notice \in notices, Notify(notice)
  PROVE  MigratorInv'
<1> DEFINE r == notice.repository
           copy == [notice EXCEPT !.tells = IF Has(r, "succeeded") THEN "success" ELSE "other"]
<1>1. UNCHANGED <<up, migrations, clock, attempts, open, rows, history, saves, faults,
                  lastLoad, late, unarchived>>
  BY DEF Notify, CopyStatus, Deliver, GiveUpDelivery, Elsewhere, storeVars
<1>2. notices \subseteq Notice /\ notice \in Notice /\ r \in Repositories
  BY DEF MigratorInv, MigratorTypes, MigratorTypeOK, Notice
<1>3. /\ copy \in Notice /\ copy.repository = r
      /\ Has(r, "succeeded") => copy.tells = "success"
  BY <1>2 DEF Notice
<1>4. \/ /\ notices' = (notices \ {notice}) \cup {copy}
         /\ announced' = announced /\ untold' = untold
      \/ /\ notice.tells # "unread" /\ notices' = notices \ {notice}
         /\ announced \subseteq announced' /\ untold \subseteq untold'
         /\ announced' \cup untold' \subseteq announced \cup untold \cup {r}
         /\ notice.tells = "success" => r \in announced' \cup untold'
  BY DEF Notify, CopyStatus, Deliver, GiveUpDelivery
<1> HIDE DEF copy
<1>5. MigratorTypes'
  <2>1. notices' \subseteq Notice
    BY <1>2, <1>3, <1>4
  <2>2. announced' \cup untold' \subseteq Repositories
    BY <1>2, <1>4 DEF MigratorInv, MigratorTypes, MigratorTypeOK
  <2> QED
    BY <2>1, <2>2, <1>1 DEF MigratorInv, MigratorTypes, StoreTypeOK, MigratorTypeOK
<1>6. ClosedAndDown' /\ AttemptsInv' /\ TargetsInv'
  <2>1. up
    BY DEF MigratorInv, ClosedAndDown
  <2> QED
    BY <2>1, <1>1, AttemptsStay DEF MigratorInv, ClosedAndDown
<1>7. FilingInv'
  BY <1>1 DEF MigratorInv, FilingInv, KnownInTime, FailuresFiled, AsLoaded, Known, SavesOf,
     Filed
<1>8. SuccessNoticed'
  <2> SUFFICES ASSUME NEW s \in Repositories, up, Has(s, "succeeded"), ~FromStorage(s),
                      s \notin announced' \cup untold'
               PROVE  \E other \in notices' :
                        other.repository = s /\ other.tells \in {"unread", "success"}
    BY <1>1 DEF SuccessNoticed, Has, FromStorage
  <2>1. s \notin announced \cup untold
    BY <1>4
  <2>2. PICK other \in notices :
          other.repository = s /\ other.tells \in {"unread", "success"}
    BY <2>1 DEF MigratorInv, SuccessNoticed
  <2>3. CASE other # notice
    BY <2>2, <2>3, <1>4
  <2>4. CASE other = notice
    <3>1. copy \in notices'
      BY <2>2, <2>4, <1>4
    <3> QED
      BY <3>1, <2>2, <2>4, <1>3
  <2> QED
    BY <2>3, <2>4
<1> QED
  BY <1>5, <1>6, <1>7, <1>8 DEF MigratorInv

\* A save that is applied, or given up.
LEMMA StoreStepInv ==
  ASSUME MigratorInv, StoreStep, UNCHANGED <<migratorVars, historyVars>>
  PROVE  MigratorInv'
<1>1. UNCHANGED <<up, migrations, clock, attempts, notices, announced, untold, lastLoad, late,
                  unarchived>>
  BY DEF migratorVars, historyVars
<1>2. PICK save \in saves : Apply(save) \/ GiveUp(save)
  BY DEF StoreStep
<1> DEFINE saved == Upsert(save.status)
<1>3. /\ save \in Save /\ save.repository \in Repositories /\ save.status \in MigrationStatus
      /\ NoRow \notin MigrationStatus
  BY StoreAssumption DEF MigratorInv, MigratorTypes, StoreTypeOK, Save
<1>4. /\ saved \in MigrationStatus /\ saved.status = save.status.status
      /\ saved.updatedAt = save.status.updatedAt
  BY <1>3, UpsertKeeps
<1>5. /\ saves' = saves \ {save} /\ UNCHANGED <<open, history>>
      /\ faults' \in 0 .. MaxFaults
      /\ rows' = rows \/ rows' = [rows EXCEPT ![save.repository] = saved]
  BY <1>2, StoreAssumption
     DEF Apply, GiveUp, Fault, MigratorInv, MigratorTypes, StoreTypeOK
<1> HIDE DEF saved
<1>6. MigratorTypes'
  BY <1>1, <1>3, <1>4, <1>5 DEF MigratorInv, MigratorTypes, StoreTypeOK, MigratorTypeOK
<1>7. ClosedAndDown' /\ AttemptsInv' /\ TargetsInv' /\ SuccessNoticed'
  BY <1>1, <1>5, AttemptsStay DEF MigratorInv, ClosedAndDown
<1>8. \A r \in Repositories :
        /\ SavesOf(r)' \subseteq SavesOf(r)
        /\ rows'[r] = rows[r] \/ (r = save.repository /\ rows'[r] = saved)
  <2>1. rows \in [Repositories -> MigrationStatus \cup {NoRow}]
    BY DEF MigratorInv, MigratorTypes, StoreTypeOK
  <2>2. \A r \in Repositories : SavesOf(r)' \subseteq SavesOf(r)
    BY <1>5 DEF SavesOf
  <2>3. \A r \in Repositories :
          rows'[r] = rows[r] \/ (r = save.repository /\ rows'[r] = saved)
    BY <2>1, <1>3, <1>5
  <2> QED
    BY <2>2, <2>3
<1>9. \A r \in Repositories : \A s \in Known(r)' :
        \E old \in Known(r) : s.status = old.status /\ s.updatedAt = old.updatedAt
  <2> SUFFICES ASSUME NEW r \in Repositories, NEW s \in Known(r)'
               PROVE  \E old \in Known(r) :
                        s.status = old.status /\ s.updatedAt = old.updatedAt
    OBVIOUS
  <2>1. CASE s \in Known(r)
    BY <2>1
  <2>2. CASE r = save.repository /\ s = saved
    <3>1. save.status \in Known(r)
      BY <2>2 DEF Known, SavesOf
    <3> QED
      BY <3>1, <2>2, <1>4
  <2> QED
    BY <2>1, <2>2, <1>1, <1>8 DEF Known
<1>10. KnownInTime'
  <2> SUFFICES ASSUME NEW r \in Repositories, NEW s \in Known(r)'
               PROVE  s.updatedAt <= clock[r]
    BY <1>1 DEF KnownInTime
  <2> QED
    BY <1>9 DEF MigratorInv, FilingInv, KnownInTime
<1>11. FailuresFiled'
  <2> SUFFICES ASSUME NEW r \in Repositories \ unarchived, NEW s \in Known(r)',
                      s.status = "failed", s.updatedAt # clock[r]
               PROVE  Filed(r, s.updatedAt)
    BY <1>1, <1>5 DEF FailuresFiled, Filed
  <2> QED
    BY <1>9 DEF MigratorInv, FilingInv, FailuresFiled
<1>12. AsLoaded'
  <2> SUFFICES ASSUME up, NEW r \in Repositories
               PROVE  /\ /\ migrations[r] # NoStatus
                         /\ migrations[r].updatedAt # clock[r]
                         => /\ SavesOf(r)' = {} /\ rows'[r] # NoRow
                            /\ rows'[r].updatedAt = migrations[r].updatedAt
                      /\ migrations[r] = NoStatus /\ r \notin unarchived
                         => SavesOf(r)' = {} /\ rows'[r] = NoRow
    BY <1>1 DEF AsLoaded
  <2>1. SavesOf(r) = {} => r # save.repository
    BY DEF SavesOf
  <2> QED
    BY <2>1, <1>8 DEF MigratorInv, FilingInv, AsLoaded
<1> QED
  BY <1>6, <1>7, <1>10, <1>11, <1>12 DEF MigratorInv, FilingInv

LEMMA CloseMigratorInv == MigratorInv /\ CloseMigrator => MigratorInv'
<1> SUFFICES ASSUME MigratorInv, CloseMigrator PROVE MigratorInv'
  OBVIOUS
<1>1. /\ up /\ open' = FALSE /\ saves' = {}
      /\ UNCHANGED <<rows, history, faults, up, migrations, clock, attempts, notices,
                     announced, untold, lastLoad, late, unarchived>>
  BY DEF CloseMigrator, Close, migratorVars, historyVars
<1>2. MigratorTypes'
  BY <1>1 DEF MigratorInv, MigratorTypes, StoreTypeOK, MigratorTypeOK
<1>3. ClosedAndDown' /\ AttemptsInv' /\ TargetsInv' /\ SuccessNoticed'
  BY <1>1, AttemptsStay DEF MigratorInv, ClosedAndDown
<1>4. \A r \in Repositories : SavesOf(r)' = {} /\ Known(r)' \subseteq Known(r)
  BY <1>1 DEF SavesOf, Known
<1>5. FilingInv'
  BY <1>1, <1>4 DEF MigratorInv, FilingInv, KnownInTime, FailuresFiled, AsLoaded, Filed
<1> QED
  BY <1>2, <1>3, <1>5 DEF MigratorInv

LEMMA ExitInv == MigratorInv /\ Exit => MigratorInv'
<1> SUFFICES ASSUME MigratorInv, Exit PROVE MigratorInv'
  OBVIOUS
<1>1. /\ up' = FALSE /\ open' = FALSE /\ saves' = {} /\ attempts' = {} /\ notices' = {}
      /\ migrations' = [repository \in Repositories |-> NoStatus]
      /\ announced' = {} /\ untold' = {}
      /\ UNCHANGED <<rows, history, clock, lastLoad, late, unarchived>>
  BY DEF Exit, Close
<1>2. faults' \in 0 .. MaxFaults
  BY StoreAssumption DEF Exit, Fault, MigratorInv, MigratorTypes, StoreTypeOK
<1>3. MigratorTypes'
  BY <1>1, <1>2 DEF MigratorInv, MigratorTypes, StoreTypeOK, MigratorTypeOK
<1>4. ClosedAndDown' /\ AttemptsInv' /\ TargetsInv' /\ SuccessNoticed'
  <2>1. IsFiniteSet(attempts')
        /\ \A r \in Repositories : AttemptsOf(r)' = {} /\ Working(r)' = 0
    BY <1>1, FS_EmptySet DEF AttemptsOf, AtWork, Working
  <2>2. \A r \in Repositories : late'[r] \in Nat
    BY <1>1 DEF MigratorInv, MigratorTypes, MigratorTypeOK
  <2>3. AttemptsCounted'
    BY <2>1, <2>2, <1>1 DEF AttemptsCounted, WorkCounted
  <2> QED
    BY <2>3, <1>1 DEF ClosedAndDown, AttemptsInv, AttemptsKnown, InProgressHasAttempt, Has,
       TargetsInv, EmptyTargetLoaded, EmptyTargetOnlyFromStorage, SuccessNoticed
<1>5. \A r \in Repositories : Known(r)' \subseteq Known(r)
  BY <1>1 DEF Known, SavesOf, NoStatus
<1>6. FilingInv'
  BY <1>1, <1>5 DEF MigratorInv, FilingInv, KnownInTime, FailuresFiled, AsLoaded, Filed
<1> QED
  BY <1>3, <1>4, <1>6 DEF MigratorInv

\* A start of the process reads what the rows say, but for those it misses.
LEMMA RestartInv == MigratorInv /\ Restart => MigratorInv'
<1> SUFFICES ASSUME MigratorInv, Restart PROVE MigratorInv'
  OBVIOUS
<1>1. /\ ~up /\ saves = {} /\ attempts = {} /\ notices = {}
      /\ rows \in [Repositories -> MigrationStatus \cup {NoRow}]
      /\ clock \in [Repositories -> 0 .. MaxAttempts] /\ MaxAttempts \in Nat
      /\ NoRow \notin MigrationStatus /\ NoStatus = NoRow
  BY StoreAssumption DEF Restart, MigratorInv, ClosedAndDown, MigratorTypes, StoreTypeOK,
     MigratorTypeOK, NoStatus
<1>2. /\ up' = TRUE /\ open' = TRUE
      /\ lastLoad' = [repository \in Repositories |-> clock[repository] + 1]
      /\ UNCHANGED <<rows, history, saves, clock, attempts, notices, announced, untold, late>>
  BY DEF Restart, Initialize, Load
<1> PICK missed \in Missable :
      /\ migrations' = LoadedBut(missed) /\ unarchived' = unarchived \cup missed
      /\ Fault \/ UNCHANGED faults
  BY DEF Restart, Load
<1> missed \subseteq Repositories
  BY DEF Missable
<1>3. \A r \in Repositories :
        \/ /\ migrations'[r] \in MigrationStatus /\ rows[r] \in MigrationStatus
           /\ migrations'[r].status = rows[r].status
           /\ migrations'[r].updatedAt = rows[r].updatedAt
        \/ migrations'[r] = NoRow /\ (rows[r] = NoRow \/ r \in unarchived')
  BY <1>1, <1>2, LoadedKeeps DEF LoadedBut
<1>4. migrations' \in [Repositories -> MigrationStatus \cup {NoStatus}]
  <2>1. \A r \in Repositories : migrations'[r] \in MigrationStatus \cup {NoStatus}
    BY <1>1, <1>3
  <2>2. migrations' = [r \in Repositories |-> migrations'[r]]
    BY <1>2 DEF LoadedBut
  <2> QED
    BY <2>1, <2>2
<1>5. MigratorTypes'
  <2>1. faults' \in 0 .. MaxFaults
    BY <1>2, StoreAssumption DEF Fault, MigratorInv, MigratorTypes, StoreTypeOK
  <2>2. lastLoad' \in [Repositories -> 0 .. MaxAttempts + 1]
    BY <1>1, <1>2
  <2>3. unarchived' \subseteq Repositories
    BY <1>2 DEF MigratorInv, MigratorTypes, MigratorTypeOK
  <2>4. StoreTypeOK'
    BY <2>1, <1>2 DEF MigratorInv, MigratorTypes, StoreTypeOK
  <2>5. MigratorTypeOK'
    BY <2>2, <2>3, <1>2, <1>4 DEF MigratorInv, MigratorTypes, MigratorTypeOK
  <2> QED
    BY <2>4, <2>5 DEF MigratorTypes
<1>6. \A r \in Repositories : FromStorage(r)' /\ lastLoad'[r] > 0
  BY <1>1, <1>2 DEF FromStorage
<1>7. ClosedAndDown' /\ SuccessNoticed' /\ TargetsInv'
  BY <1>1, <1>2, <1>6 DEF ClosedAndDown, SuccessNoticed, TargetsInv, EmptyTargetLoaded,
     EmptyTargetOnlyFromStorage
<1>8. AttemptsInv'
  <2>1. /\ attempts' = {} /\ IsFiniteSet(attempts')
        /\ \A r \in Repositories : AttemptsOf(r)' = {} /\ Working(r)' = 0
    BY <1>1, <1>2, FS_EmptySet DEF AttemptsOf, AtWork, Working
  <2>2. \A r \in Repositories : late'[r] \in Nat
    BY <1>2 DEF MigratorInv, MigratorTypes, MigratorTypeOK
  <2>3. AttemptsCounted'
    BY <2>1, <2>2 DEF AttemptsCounted, WorkCounted
  <2> QED
    BY <2>1, <2>3, <1>6 DEF AttemptsInv, AttemptsKnown, InProgressHasAttempt
<1>9. \A r \in Repositories :
        /\ SavesOf(r)' = {} /\ SavesOf(r) = {}
        /\ Known(r)' \subseteq {rows[r], migrations'[r]} \ {NoRow}
        /\ {rows[r]} \ {NoRow} \subseteq Known(r)
  BY <1>1, <1>2 DEF SavesOf, Known
<1>10. \A r \in Repositories : \A s \in Known(r)' :
         \E old \in Known(r) : s.status = old.status /\ s.updatedAt = old.updatedAt
  BY <1>1, <1>3, <1>9
<1>11. KnownInTime'
  <2> SUFFICES ASSUME NEW r \in Repositories, NEW s \in Known(r)'
               PROVE  s.updatedAt <= clock[r]
    BY <1>2 DEF KnownInTime
  <2> QED
    BY <1>10 DEF MigratorInv, FilingInv, KnownInTime
<1>12. FailuresFiled'
  <2> SUFFICES ASSUME NEW r \in Repositories \ unarchived', NEW s \in Known(r)',
                      s.status = "failed", s.updatedAt # clock[r]
               PROVE  Filed(r, s.updatedAt)
    BY <1>2 DEF FailuresFiled, Filed
  <2>1. r \notin unarchived
    BY <1>2
  <2> QED
    BY <2>1, <1>10 DEF MigratorInv, FilingInv, FailuresFiled
<1>13. AsLoaded'
  BY <1>1, <1>2, <1>3, <1>9 DEF AsLoaded
<1> QED
  BY <1>5, <1>7, <1>8, <1>11, <1>12, <1>13 DEF MigratorInv, FilingInv
-----------------------------------------------------------------------------
(* Every step.                                                             *)

MigratorStep ==
  \/ \E repository \in Repositories, org \in Organisations : StartMigration(repository, org)
  \/ \E repository \in Repositories, org \in Organisations \cup {NoOrganisation} :
       RetryMigration(repository, org)
  \/ AttemptStep
  \/ \E notice \in notices : Notify(notice)
  \/ StoreStep /\ UNCHANGED <<migratorVars, historyVars>>
  \/ CloseMigrator
  \/ Exit
  \/ Restart

\* Whatever the migrator and the storage do keeps the invariant.
LEMMA MigratorStepInv == MigratorInv /\ (MigratorStep \/ UNCHANGED vars) => MigratorInv'
<1> SUFFICES ASSUME MigratorInv, MigratorStep \/ UNCHANGED vars PROVE MigratorInv'
  OBVIOUS
<1>1. ASSUME NEW repository \in Repositories, NEW org \in Organisations,
             StartMigration(repository, org)
      PROVE  MigratorInv'
  BY <1>1, StartMigrationInv
<1>2. ASSUME NEW repository \in Repositories, NEW org \in Organisations \cup {NoOrganisation},
             RetryMigration(repository, org)
      PROVE  MigratorInv'
  BY <1>2, RetryMigrationInv
<1>3. ASSUME NEW notice \in notices, Notify(notice) PROVE MigratorInv'
  BY <1>3, NotifyInv
<1> QED
  BY <1>1, <1>2, <1>3, AttemptStepInv, StoreStepInv, CloseMigratorInv, ExitInv, RestartInv,
     MigratorStutters DEF MigratorStep
-----------------------------------------------------------------------------
(* What no step does.                                                      *)

SuccessKept ==
  \A repository \in Repositories :
    up /\ up' /\ Has(repository, "succeeded") /\ late'[repository] = 0
      => migrations'[repository] = migrations[repository]

\* The check of StartMigration and RetryMigration lets no success pass.  As long
\* as no failure was reported late no attempt is at work after the success, and
\* the latest attempt, which made it, has no failure to write.
LEMMA SuccessKeptByStep == MigratorInv /\ (MigratorStep \/ UNCHANGED vars) => SuccessKept
<1> SUFFICES ASSUME MigratorInv, MigratorStep \/ UNCHANGED vars,
                    NEW r \in Repositories,
                    up, up', Has(r, "succeeded"), late'[r] = 0
             PROVE  migrations'[r] = migrations[r]
  BY DEF SuccessKept
<1>1. migrations \in [Repositories -> MigrationStatus \cup {NoStatus}]
  BY DEF MigratorInv, MigratorTypes, MigratorTypeOK
<1>2. ASSUME NEW repository \in Repositories, NEW org \in Organisations,
             StartMigration(repository, org)
      PROVE  migrations'[r] = migrations[r]
  <2>1. migrations[repository] = NoStatus \/ Has(repository, "failed")
    BY <1>2 DEF StartMigration, StartNew, StartAgain
  <2>2. r # repository
    BY <2>1 DEF Has
  <2>3. \E entryOrg, requestOrg : Begin(repository, entryOrg, requestOrg)
    BY <1>2 DEF StartMigration, StartNew, StartAgain, ArchiveThenBegin
  <2> QED
    BY <2>2, <2>3, <1>1 DEF Begin
<1>3. ASSUME NEW repository \in Repositories, NEW org \in Organisations \cup {NoOrganisation},
             RetryMigration(repository, org)
      PROVE  migrations'[r] = migrations[r]
  <2>1. r # repository
    BY <1>3 DEF RetryMigration, Has
  <2>2. \E entryOrg, requestOrg : Begin(repository, entryOrg, requestOrg)
    BY <1>3 DEF RetryMigration, ArchiveThenBegin
  <2> QED
    BY <2>1, <2>2, <1>1 DEF Begin
<1>4. ASSUME AttemptStep PROVE migrations'[r] = migrations[r]
  <2>1. PICK attempt \in attempts :
          Progress(attempt) \/ Succeed(attempt) \/ Fail(attempt) \/ ReportFailure(attempt)
    BY <1>4 DEF AttemptStep
  <2>2. \E new : UpdateStatus(attempt.repository, new)
    BY <2>1 DEF Progress, Succeed, Fail, ReportFailure
  <2>3. ASSUME r = attempt.repository PROVE FALSE
    <3>1. /\ WorkCounted(r) /\ IsFiniteSet(AtWork(r)) /\ Working(r) \in Nat
          /\ late \in [Repositories -> Nat] /\ late[r] \in Nat
          /\ attempt.number <= clock[r] /\ attempt.number \in Nat /\ clock[r] \in Nat
          /\ attempt \in AttemptsOf(r)
          /\ attempt.pc # "report" => attempt \in AtWork(r)
      BY <2>3, CountedBefore
    <3>2. ~Has(r, "in_progress") /\ ~Has(r, "failed")
      BY DEF Has
    <3>3. CASE attempt.pc = "report"
      <4>1. late'[r] = IF attempt.number < clock[r] THEN late[r] + 1 ELSE late[r]
        BY <2>1, <2>3, <3>1, <3>3 DEF Progress, Succeed, Fail, ReportFailure
      <4>2. attempt.number = clock[r] /\ late[r] = 0
        BY <4>1, <3>1
      <4> QED
        BY <4>2, <3>1, <3>2, <3>3 DEF WorkCounted
    <3>4. CASE attempt.pc # "report"
      <4>1. late'[r] = late[r]
        BY <2>1, <3>4 DEF Progress, Succeed, Fail, ReportFailure
      <4>2. Working(r) = 0
        BY <4>1, <3>1, <3>2 DEF WorkCounted
      <4>3. AtWork(r) = {}
        BY <4>2, <3>1, FS_EmptySet DEF Working
      <4> QED
        BY <4>3, <3>1, <3>4
    <3> QED
      BY <3>3, <3>4
  <2> QED
    BY <2>2, <2>3, <1>1 DEF UpdateStatus
<1>5. ASSUME NEW notice \in notices, Notify(notice) PROVE migrations'[r] = migrations[r]
  BY <1>5 DEF Notify, CopyStatus, Deliver, GiveUpDelivery, Elsewhere
<1>6. StoreStep /\ UNCHANGED <<migratorVars, historyVars>> => migrations'[r] = migrations[r]
  BY DEF migratorVars
<1>7. CloseMigrator => migrations'[r] = migrations[r]
  BY DEF CloseMigrator, migratorVars
<1>8. ~Exit /\ ~Restart
  BY DEF Exit, Restart
<1>9. UNCHANGED vars => migrations'[r] = migrations[r]
  BY DEF vars, migratorVars
<1> QED
  BY <1>2, <1>3, <1>4, <1>5, <1>6, <1>7, <1>8, <1>9 DEF MigratorStep

FailureKept ==
  \A repository \in Repositories \ unarchived :
    LET row == rows[repository]
        next == rows'[repository]
    IN /\ row # NoRow /\ row.status = "failed"
       /\ next.updatedAt > row.updatedAt
       => \E i \in DOMAIN history[repository] :
            /\ history[repository][i].status = "failed"
            /\ history[repository][i].updatedAt = row.updatedAt

\* A save that is applied writes nothing later than the last attempt, and the
\* failures of the attempts before it are filed.
LEMMA FailureKeptByStep == MigratorInv /\ (MigratorStep \/ UNCHANGED vars) => FailureKept
<1> SUFFICES ASSUME MigratorInv, MigratorStep \/ UNCHANGED vars,
                    NEW r \in Repositories \ unarchived,
                    rows[r] # NoRow, rows[r].status = "failed",
                    rows'[r].updatedAt > rows[r].updatedAt
             PROVE  Filed(r, rows[r].updatedAt)
  BY DEF FailureKept, Filed
<1>1. /\ rows \in [Repositories -> MigrationStatus \cup {NoRow}]
      /\ clock \in [Repositories -> 0 .. MaxAttempts]
  BY DEF MigratorInv, MigratorTypes, StoreTypeOK, MigratorTypeOK
<1>2. rows[r] \in Known(r) /\ rows[r].updatedAt \in Nat /\ rows[r].updatedAt <= clock[r]
  <2>1. rows[r] \in Known(r)
    BY DEF Known
  <2>2. rows[r].updatedAt \in Time
    BY <2>1, KnownTypes DEF MigratorInv
  <2> QED
    BY <2>1, <2>2 DEF MigratorInv, FilingInv, KnownInTime, Time
<1>3. rows' # rows
  BY <1>2
<1>4. CASE StoreStep
  <2>1. PICK save \in saves : rows' = [rows EXCEPT ![save.repository] = Upsert(save.status)]
    BY <1>3, <1>4 DEF StoreStep, Apply, GiveUp
  <2>2. save.repository \in Repositories /\ save.status \in MigrationStatus
    BY DEF MigratorInv, MigratorTypes, StoreTypeOK, Save
  <2>3. r = save.repository
    BY <2>1, <1>1, <1>2
  <2>4. rows'[r].updatedAt = save.status.updatedAt
    BY <2>1, <2>2, <2>3, <1>1, UpsertKeeps
  <2>5. save.status \in Known(r)
    BY <2>3 DEF Known, SavesOf
  <2>6. save.status.updatedAt <= clock[r] /\ save.status.updatedAt \in Nat
    BY <2>5, KnownTypes DEF MigratorInv, FilingInv, KnownInTime, Time
  <2>7. rows[r].updatedAt # clock[r]
    BY <2>4, <2>6, <1>1, <1>2
  <2> QED
    BY <2>7, <1>2 DEF MigratorInv, FilingInv, FailuresFiled
<1>5. ASSUME NEW repository \in Repositories, NEW org \in Organisations,
             StartMigration(repository, org)
      PROVE  FALSE
  BY <1>3, <1>5 DEF StartMigration, StartNew, StartAgain, ArchiveThenBegin, Begin
<1>6. ASSUME NEW repository \in Repositories, NEW org \in Organisations \cup {NoOrganisation},
             RetryMigration(repository, org)
      PROVE  FALSE
  BY <1>3, <1>6 DEF RetryMigration, ArchiveThenBegin, Begin
<1>7. ~AttemptStep
  BY <1>3 DEF AttemptStep, Progress, Succeed, Fail, ReportFailure, Rest
<1>8. ASSUME NEW notice \in notices, Notify(notice) PROVE FALSE
  BY <1>3, <1>8 DEF Notify, CopyStatus, Deliver, GiveUpDelivery, Elsewhere, storeVars
<1>9. ~CloseMigrator /\ ~Exit /\ ~Restart /\ ~UNCHANGED vars
  BY <1>3 DEF CloseMigrator, Close, Exit, Restart, Initialize, vars, storeVars
<1> QED
  BY <1>4, <1>5, <1>6, <1>7, <1>8, <1>9 DEF MigratorStep
=============================================================================
