--------------------------- MODULE MigrationStore ---------------------------
(***************************************************************************)
(* The database behind the migrator (internal/storage): one row per        *)
(* repository in migration_status, the archived attempts in                *)
(* migration_history, and the goroutines that are saving statuses.         *)
(*                                                                         *)
(* persistAndNotifyStatusUpdate (migrator/status.go) starts one goroutine  *)
(* per status update; each saves the copy it was given whenever it gets    *)
(* the storage's mutex, in no particular order.  SQLite tries a failing    *)
(* save three times, with the mutex released in between, so that others    *)
(* may overtake it; MySQL and PostgreSQL try once.  The three differ in    *)
(* which columns they fill.                                                *)
(*                                                                         *)
(* Time is counted per repository in attempts: the time of an event is the *)
(* number of attempts of the repository started so far.                    *)
(***************************************************************************)
EXTENDS MigrationRequests, Naturals, Sequences, FiniteSets

CONSTANTS
  Database,         \* the kind of database that is configured
  NoRow,            \* the row of a repository that has none
  MaxAttempts,      \* bound: attempts per repository
  MaxFaults         \* bound: failing calls and crashes

Statuses == {"in_progress", "failed", "succeeded"}
Time == 1 .. MaxAttempts

\* The fields of a payload.MigrationStatus that the properties tell apart.
MigrationStatus ==
  [status : Statuses, updatedAt : Time, targetOrg : Organisations \cup {NoOrganisation}]

Save == [repository : Repositories, status : MigrationStatus]

ASSUME StoreAssumption ==
  /\ Database \in {"sqlite", "mysql", "postgres"}
  /\ MaxAttempts \in Nat
  /\ MaxFaults \in Nat
  /\ NoRow \notin MigrationStatus

VARIABLES
  open,      \* the storage is initialized and not closed: s.db # nil
  rows,      \* migration_status
  history,   \* migration_history, per repository in the order of archived_at
  saves,     \* the saves under way
  faults     \* faults so far

storeVars == <<open, rows, history, saves, faults>>

StoreTypeOK ==
  /\ open \in BOOLEAN
  /\ rows \in [Repositories -> MigrationStatus \cup {NoRow}]
  /\ history \in [Repositories -> Seq(MigrationStatus)]
  /\ saves \subseteq Save
  /\ faults \in 0 .. MaxFaults

StoreInit ==
  /\ open = TRUE
  /\ rows = [repository \in Repositories |-> NoRow]
  /\ history = [repository \in Repositories |-> <<>>]
  /\ saves = {}
  /\ faults = 0

Fault == faults < MaxFaults /\ faults' = faults + 1
-----------------------------------------------------------------------------
(* Rows, as far as the columns reach the migrator again.                  *)

\* SQLite stores the organisation in its column of additional data.
SQLiteRow(status) == status

\* MySQL and PostgreSQL have such a column and leave it out of the statement.
MySQLRow(status) == [status EXCEPT !.targetOrg = NoOrganisation]
PostgresRow(status) == [status EXCEPT !.targetOrg = NoOrganisation]

Upsert(status) ==
  CASE Database = "sqlite" -> SQLiteRow(status)
    [] Database = "mysql" -> MySQLRow(status)
    [] Database = "postgres" -> PostgresRow(status)

\* An archived attempt: none of the three archives the organisation.
SQLiteArchived(status) == [status EXCEPT !.targetOrg = NoOrganisation]
MySQLArchived(status) == [status EXCEPT !.targetOrg = NoOrganisation]
PostgresArchived(status) == [status EXCEPT !.targetOrg = NoOrganisation]

Archived(status) ==
  CASE Database = "sqlite" -> SQLiteArchived(status)
    [] Database = "mysql" -> MySQLArchived(status)
    [] Database = "postgres" -> PostgresArchived(status)

\* GetAllMigrationStatuses of SQLite scans the additional data and drops it;
\* the other two do not select it.
SQLiteStatus(row) == [row EXCEPT !.targetOrg = NoOrganisation]
MySQLStatus(row) == [row EXCEPT !.targetOrg = NoOrganisation]
PostgresStatus(row) == [row EXCEPT !.targetOrg = NoOrganisation]

Loaded(row) ==
  IF row = NoRow THEN NoRow
  ELSE CASE Database = "sqlite" -> SQLiteStatus(row)
         [] Database = "mysql" -> MySQLStatus(row)
         [] Database = "postgres" -> PostgresStatus(row)

\* What a start of the program may miss when something fails.  SQLite skips a
\* row it cannot scan, and answers a query that fails with the rows it has got
\* by then; the others answer with an error and no rows.
Missable == IF Database = "sqlite" THEN SUBSET Repositories ELSE {{}, Repositories}

\* What a start of the program reads.
LoadedBut(missed) ==
  [repository \in Repositories |->
     IF repository \in missed THEN NoRow ELSE Loaded(rows[repository])]
-----------------------------------------------------------------------------
(* What the migrator asks of the storage, parts of its actions.            *)

\* Start the goroutine that saves a copy of the status.  One that finds the
\* storage closed fails: nothing opens it again before the process ends.
SaveLater(repository, status) ==
  saves' = IF open THEN saves \cup {[repository |-> repository, status |-> status]}
           ELSE saves

\* ArchiveMigrationAttempt with m.mu held: a failure is only logged.
ArchiveAttempt(repository, status) ==
  \/ /\ open
     /\ history' = [history EXCEPT ![repository] = Append(@, Archived(status))]
     /\ UNCHANGED faults
  \/ /\ IF open THEN Fault ELSE UNCHANGED faults
     /\ UNCHANGED history
-----------------------------------------------------------------------------
(* The goroutines that save.                                               *)

Apply(save) ==
  /\ rows' = [rows EXCEPT ![save.repository] = Upsert(save.status)]
  /\ saves' = saves \ {save}
  /\ UNCHANGED <<open, history, faults>>

\* The last try has failed, or the save has outlasted its 60 seconds: the
\* error is logged and the status is not stored.
GiveUp(save) ==
  /\ Fault
  /\ saves' = saves \ {save}
  /\ UNCHANGED <<open, rows, history>>

StoreStep ==
  \E save \in saves : Apply(save) \/ GiveUp(save)
-----------------------------------------------------------------------------
(* The storage over the life of the process.                               *)

\* Saves that wait for the mutex fail from here on.
Close ==
  /\ open' = FALSE
  /\ saves' = {}
  /\ UNCHANGED <<rows, history>>

\* The tables are created when they are missing; the rows stay.
Initialize ==
  /\ open' = TRUE
  /\ UNCHANGED <<rows, history, saves>>
=============================================================================
