-------------------------- MODULE MigrationServer ---------------------------
(***************************************************************************)
(* The process in direct mode: HTTP handlers, scheduler and shutdown       *)
(* (internal/server/server.go, cmd/root.go, the writing handlers of        *)
(* internal/dashboard/handler.go) around DirectMigrations and Scheduler,   *)
(* over crashes and restarts.                                              *)
(***************************************************************************)
EXTENDS DirectMigrations, Scheduler

serverVars == <<vars, schedulerVars>>

TypeOK == StoreTypeOK /\ MigratorTypeOK /\ SchedulerTypeOK

Init == StoreInit /\ MigratorInit /\ SchedulerInit
-----------------------------------------------------------------------------
(* Handlers.                                                               *)

\* Bound: MaxAttempts counts the attempts to come, of schedules, as well.
Room(repository) ==
  clock[repository] + Cardinality((1 .. scheduled) \ (fired \cup dropped)) < MaxAttempts

\* handleMigration without a scheduled time: a goroutine calls StartMigration.
HandleMigration(repository, org) ==
  /\ Room(repository)
  /\ StartMigration(repository, org)
  /\ UNCHANGED schedulerVars

\* handleSubmitMigration of the dashboard, which starts at once even when its
\* form names a scheduled time.
HandleSubmitMigration(repository, org) ==
  /\ Room(repository)
  /\ StartMigration(repository, org)
  /\ UNCHANGED schedulerVars

\* handleMigration with a scheduled time, which must not be in the past.
HandleScheduledMigration(repository, org, terms) ==
  /\ up /\ Room(repository)
  /\ ScheduleMigration(repository, org, terms)
  /\ UNCHANGED vars

\* handleRetryMigration; its target organisation is optional.
HandleRetryMigration(repository, org) ==
  /\ Room(repository)
  /\ RetryMigration(repository, org)
  /\ UNCHANGED schedulerVars

\* handleRetryMigration of the dashboard names an organisation, if only the
\* source's; it writes its form into a copy of the status, which has no effect.
HandleDashboardRetry(repository, org) ==
  /\ org # NoOrganisation
  /\ HandleRetryMigration(repository, org)
-----------------------------------------------------------------------------
(* The scheduler's goroutines.                                             *)

TimePasses(repository) ==
  /\ BecomeDue(repository)
  /\ UNCHANGED vars

Tick(day, hour) ==
  /\ up
  /\ CheckSchedules(day, hour)
  /\ UNCHANGED vars

\* A migration in progress or done is skipped, and its schedule is gone.
Skipped(repository) == Has(repository, "in_progress") \/ Has(repository, "succeeded")

RunScheduled(start) ==
  /\ CallStartMigration(start)
  /\ \/ StartMigration(start.repository, start.targetOrg)
     \/ Skipped(start.repository) /\ UNCHANGED vars

EndScheduled(start) ==
  /\ DeleteCancelFunc(start)
  /\ UNCHANGED vars
-----------------------------------------------------------------------------
(* The life of the process.                                                *)

\* Server.Shutdown begins; requests are served until the scheduler has stopped.
BeginShutdown ==
  /\ up
  /\ Stop
  /\ UNCHANGED vars

\* Stop has returned, the HTTP server is down, and Close closes the storage.
Shutdown ==
  /\ EndLoop
  /\ CloseMigrator

\* The program returns from main when Shutdown has, or crashes at any time.
ProcessEnds == Exit /\ LoseSchedules

\* setupServer and Server.Start.
ProcessStarts == Restart /\ NewScheduler

ServerStep ==
  \/ \E repository \in Repositories, org \in Organisations :
       HandleMigration(repository, org) \/ HandleSubmitMigration(repository, org)
  \/ \E repository \in Repositories, org \in Organisations, terms \in Terms :
       HandleScheduledMigration(repository, org, terms)
  \/ \E repository \in Repositories, org \in Organisations \cup {NoOrganisation} :
       HandleRetryMigration(repository, org) \/ HandleDashboardRetry(repository, org)
  \/ \E repository \in Repositories : TimePasses(repository)
  \/ \E day \in Days, hour \in 0 .. Hours - 1 : Tick(day, hour)
  \/ \E start \in starts : RunScheduled(start) \/ EndScheduled(start)
  \/ BeginShutdown
  \/ Shutdown
  \/ ProcessEnds
  \/ ProcessStarts

Background ==
  \/ StoreStep /\ UNCHANGED <<migratorVars, historyVars, schedulerVars>>
  \/ AttemptStep /\ UNCHANGED schedulerVars
  \/ \E notice \in notices : Notify(notice) /\ UNCHANGED schedulerVars

Next == ServerStep \/ Background

Spec == Init /\ [][Next]_serverVars
-----------------------------------------------------------------------------
(* Fairness: scheduled times come, and the ticker's period is short enough *)
(* for a check at every hour of every day.                                 *)

Fairness ==
  /\ \A repository \in Repositories : WF_serverVars(TimePasses(repository))
  /\ \A day \in Days, hour \in 0 .. Hours - 1 : WF_serverVars(Tick(day, hour))

FairSpec == Spec /\ Fairness
-----------------------------------------------------------------------------
(* Liveness.                                                               *)

\* A schedule that some hour of an allowed day can satisfy does not wait for
\* ever, unless the scheduler stops.
StartsWhenPossible ==
  \A number \in 1 .. MaxSchedules :
    (\E repository \in Waiting :
       schedules[repository].number = number /\ CanStart(schedules[repository]))
      ~> (loop # "running" \/ number \notin NumbersOf(Waiting))
=============================================================================
