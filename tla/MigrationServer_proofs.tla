----------------------- MODULE MigrationServer_proofs -----------------------
(***************************************************************************)
(* The safety properties of the process in direct mode, over crashes and   *)
(* restarts, for any repositories, organisations, databases, hours, days   *)
(* and terms and whatever the bounds on attempts, schedules and faults.    *)
(*                                                                         *)
(* Every step of the process is a step of the migrator or leaves it alone, *)
(* and likewise for the scheduler; the invariants of the two hold side by  *)
(* side.  The one thing the migrator's needs of the scheduler is that a    *)
(* goroutine of it names an organisation.                                  *)
(***************************************************************************)
EXTENDS MigrationServer, Scheduler_proofs, DirectMigrations_proofs

ServerInv == MigratorInv /\ SchedulerInv

\* What the process does is the migrator's, or nothing to it.
LEMMA StepOfMigrator ==
  ASSUME SchedulerInv, [Next]_serverVars
  PROVE  MigratorStep \/ UNCHANGED vars
<1>1. ASSUME NEW repository \in Repositories, NEW org \in Organisations,
             HandleMigration(repository, org) \/ HandleSubmitMigration(repository, org)
      PROVE  MigratorStep
  BY <1>1 DEF HandleMigration, HandleSubmitMigration, MigratorStep
<1>2. ASSUME NEW repository \in Repositories, NEW org \in Organisations, NEW terms \in Terms,
             HandleScheduledMigration(repository, org, terms)
      PROVE  UNCHANGED vars
  BY <1>2 DEF HandleScheduledMigration
<1>3. ASSUME NEW repository \in Repositories, NEW org \in Organisations \cup {NoOrganisation},
             HandleRetryMigration(repository, org) \/ HandleDashboardRetry(repository, org)
      PROVE  MigratorStep
  BY <1>3 DEF HandleRetryMigration, HandleDashboardRetry, MigratorStep
<1>4. ASSUME NEW repository \in Repositories, TimePasses(repository) PROVE UNCHANGED vars
  BY <1>4 DEF TimePasses
<1>5. ASSUME NEW day \in Days, NEW hour \in 0 .. Hours - 1, Tick(day, hour)
      PROVE  UNCHANGED vars
  BY <1>5 DEF Tick
<1>6. ASSUME NEW start \in starts, RunScheduled(start) PROVE MigratorStep \/ UNCHANGED vars
  <2>1. start.repository \in Repositories /\ start.targetOrg \in Organisations
    BY DEF SchedulerInv, SchedulerTypeOK, Start
  <2> QED
    BY <2>1, <1>6 DEF RunScheduled, MigratorStep
<1>7. ASSUME NEW start \in starts, EndScheduled(start) PROVE UNCHANGED vars
  BY <1>7 DEF EndScheduled
<1>8. BeginShutdown => UNCHANGED vars
  BY DEF BeginShutdown
<1>9. Shutdown \/ ProcessEnds \/ ProcessStarts => MigratorStep
  BY DEF Shutdown, ProcessEnds, ProcessStarts, MigratorStep
<1>10. ServerStep => MigratorStep \/ UNCHANGED vars
  BY <1>1, <1>2, <1>3, <1>4, <1>5, <1>6, <1>7, <1>8, <1>9 DEF ServerStep
<1>11. Background => MigratorStep
  BY DEF Background, MigratorStep
<1>12. UNCHANGED serverVars => UNCHANGED vars
  BY DEF serverVars
<1> QED
  BY <1>10, <1>11, <1>12 DEF Next

\* Steps that are not the scheduler's.
LEMMA SchedulerStutters ==
  ASSUME SchedulerInv, UNCHANGED schedulerVars
  PROVE  SchedulerInv'
<1>1. /\ loop' \in {"running", "ending", "ended"}
      /\ UNCHANGED <<schedules, cancelFuncs, starts, scheduled, fired, dropped, crowded>>
  BY DEF SchedulerInv, SchedulerTypeOK, schedulerVars
<1> QED
  BY <1>1, LoopInv

LEMMA StepOfScheduler ==
  ASSUME SchedulerInv, [Next]_serverVars
  PROVE  SchedulerInv'
<1>1. ASSUME NEW repository \in Repositories, NEW org \in Organisations,
             HandleMigration(repository, org) \/ HandleSubmitMigration(repository, org)
      PROVE  SchedulerInv'
  BY <1>1, SchedulerStutters DEF HandleMigration, HandleSubmitMigration
<1>2. ASSUME NEW repository \in Repositories, NEW org \in Organisations, NEW terms \in Terms,
             HandleScheduledMigration(repository, org, terms)
      PROVE  SchedulerInv'
  BY <1>2, ScheduleMigrationInv DEF HandleScheduledMigration
<1>3. ASSUME NEW repository \in Repositories, NEW org \in Organisations \cup {NoOrganisation},
             HandleRetryMigration(repository, org) \/ HandleDashboardRetry(repository, org)
      PROVE  SchedulerInv'
  BY <1>3, SchedulerStutters DEF HandleRetryMigration, HandleDashboardRetry
<1>4. ASSUME NEW repository \in Repositories, TimePasses(repository) PROVE SchedulerInv'
  BY <1>4, BecomeDueInv DEF TimePasses
<1>5. ASSUME NEW day \in Days, NEW hour \in 0 .. Hours - 1, Tick(day, hour)
      PROVE  SchedulerInv'
  BY <1>5, CheckSchedulesInv DEF Tick
<1>6. ASSUME NEW start \in starts, RunScheduled(start) PROVE SchedulerInv'
  BY <1>6, CallStartMigrationInv DEF RunScheduled
<1>7. ASSUME NEW start \in starts, EndScheduled(start) PROVE SchedulerInv'
  BY <1>7, DeleteCancelFuncInv DEF EndScheduled
<1>8. BeginShutdown => SchedulerInv'
  BY StopInv DEF BeginShutdown
<1>9. Shutdown => SchedulerInv'
  BY LoopInv DEF Shutdown, EndLoop
<1>10. ProcessEnds => SchedulerInv'
  BY LoseSchedulesInv DEF ProcessEnds
<1>11. ProcessStarts => SchedulerInv'
  BY LoopInv DEF ProcessStarts, NewScheduler
<1>12. ServerStep => SchedulerInv'
  BY <1>1, <1>2, <1>3, <1>4, <1>5, <1>6, <1>7, <1>8, <1>9, <1>10, <1>11 DEF ServerStep
<1>13. Background => SchedulerInv'
  BY SchedulerStutters DEF Background, schedulerVars
<1>14. UNCHANGED serverVars => SchedulerInv'
  BY SchedulerStutters DEF serverVars
<1> QED
  BY <1>12, <1>13, <1>14 DEF Next

\* The invariants of the migrator and of the scheduler hold in every state.
THEOREM Invariance == Spec => []ServerInv
<1>1. Init => ServerInv
  BY MigratorInitInv, SchedulerInitInv DEF Init, ServerInv
<1>2. ServerInv /\ [Next]_serverVars => ServerInv'
  BY StepOfMigrator, MigratorStepInv, StepOfScheduler DEF ServerInv
<1> QED
  BY <1>1, <1>2, PTL DEF Spec

\* Only Stop lets the loop of the scheduler come to its end.
LEMMA OnlyStopEnds ==
  ASSUME [Next]_serverVars, loop = "running", loop' = "ending"
  PROVE  Stop
<1>1. ~UNCHANGED loop
  OBVIOUS
<1>2. ~UNCHANGED schedulerVars /\ ~UNCHANGED serverVars
  BY <1>1 DEF schedulerVars, serverVars
<1>3. ASSUME NEW repository \in Repositories, NEW org \in Organisations,
             HandleMigration(repository, org) \/ HandleSubmitMigration(repository, org)
      PROVE  FALSE
  BY <1>2, <1>3 DEF HandleMigration, HandleSubmitMigration
<1>4. ASSUME NEW repository \in Repositories, NEW org \in Organisations, NEW terms \in Terms,
             HandleScheduledMigration(repository, org, terms)
      PROVE  FALSE
  BY <1>1, <1>4 DEF HandleScheduledMigration, ScheduleMigration
<1>5. ASSUME NEW repository \in Repositories, NEW org \in Organisations \cup {NoOrganisation},
             HandleRetryMigration(repository, org) \/ HandleDashboardRetry(repository, org)
      PROVE  FALSE
  BY <1>2, <1>5 DEF HandleRetryMigration, HandleDashboardRetry
<1>6. ASSUME NEW repository \in Repositories, TimePasses(repository) PROVE FALSE
  BY <1>1, <1>6 DEF TimePasses, BecomeDue
<1>7. ASSUME NEW day \in Days, NEW hour \in 0 .. Hours - 1, Tick(day, hour) PROVE FALSE
  BY <1>1, <1>7 DEF Tick, CheckSchedules
<1>8. ASSUME NEW start \in starts, RunScheduled(start) \/ EndScheduled(start) PROVE FALSE
  BY <1>1, <1>8 DEF RunScheduled, CallStartMigration, EndScheduled, DeleteCancelFunc
<1>9. ~Shutdown /\ ~ProcessEnds /\ ~ProcessStarts
  BY DEF Shutdown, EndLoop, ProcessEnds, LoseSchedules, ProcessStarts, NewScheduler
<1>10. ~Background
  BY <1>2 DEF Background, schedulerVars
<1>11. BeginShutdown => Stop
  BY DEF BeginShutdown
<1> QED
  BY <1>2, <1>3, <1>4, <1>5, <1>6, <1>7, <1>8, <1>9, <1>10, <1>11 DEF Next, ServerStep
-----------------------------------------------------------------------------
(* The properties.                                                         *)

\* The types of the storage, of the migrator and of the scheduler.
THEOREM TypeCorrect == Spec => []TypeOK
<1>1. ServerInv => TypeOK
  BY DEF ServerInv, MigratorInv, MigratorTypes, SchedulerInv, TypeOK
<1> QED
  BY <1>1, Invariance, PTL

\* A repository in progress has an attempt that will settle it, unless its
\* status was read from storage: what StartMigration and updateStatusWithContext
\* leave behind in any order of attempts, crashes and restarts.
THEOREM AlwaysInProgressHasAttempt == Spec => []InProgressHasAttempt
<1>1. ServerInv => InProgressHasAttempt
  BY DEF ServerInv, MigratorInv, AttemptsInv
<1> QED
  BY <1>1, Invariance, PTL

\* However requests, schedules and retries race, the attempts at work beside one
\* are at most as many as the failures that performMigration has reported late.
THEOREM AlwaysAtMostOneAtWork == Spec => []AtMostOneAtWork
<1>1. ServerInv => AtMostOneAtWork
  BY CountedIsOne DEF ServerInv, MigratorInv, AttemptsInv
<1> QED
  BY <1>1, Invariance, PTL

\* Once the webhooks of a migrated repository have all ended, one that copied the
\* success was delivered or has had its last try: those that copied the status
\* too early do not use up the one for the success.
THEOREM AlwaysSuccessAnnounced == Spec => []SuccessAnnounced
<1>1. ServerInv => SuccessAnnounced
  BY NoticedIsAnnounced DEF ServerInv, MigratorInv
<1> QED
  BY <1>1, Invariance, PTL

\* No attempt lacks a target organisation unless a start of the process read
\* its repository's status from storage, which does not load it.
THEOREM AlwaysEmptyTargetOnlyFromStorage == Spec => []EmptyTargetOnlyFromStorage
<1>1. ServerInv => EmptyTargetOnlyFromStorage
  BY DEF ServerInv, MigratorInv, TargetsInv
<1> QED
  BY <1>1, Invariance, PTL

\* Every request to schedule a migration is in one place, so that checkSchedules
\* starts none twice and none that was replaced.
THEOREM AlwaysEveryScheduleAccounted == Spec => []EveryScheduleAccounted
<1>1. ServerInv => EveryScheduleAccounted
  BY NumbersCounted DEF ServerInv
<1> QED
  BY <1>1, Invariance, PTL

\* No step changes the status of a migrated repository while the process runs,
\* unless a failure of an earlier attempt of it is or was reported late.
THEOREM StepsKeepSuccess == Spec => SucceededStays
<1>1. ServerInv /\ [Next]_serverVars => [SuccessKept]_vars
  BY StepOfMigrator, SuccessKeptByStep DEF ServerInv
<1>2. [][SuccessKept]_vars => SucceededStays
  BY DEF SucceededStays, SuccessKept
<1> QED
  BY <1>1, <1>2, Invariance, PTL DEF Spec

\* A save that replaces the row of a failed attempt by that of a later one
\* finds the failure archived, in whatever order saves arrive.
THEOREM StepsKeepFailures == Spec => RecordedFailuresKept
<1>1. ServerInv /\ [Next]_serverVars => [FailureKept]_vars
  BY StepOfMigrator, FailureKeptByStep DEF ServerInv
<1>2. [][FailureKept]_vars => RecordedFailuresKept
  BY DEF RecordedFailuresKept, FailureKept
<1> QED
  BY <1>1, <1>2, Invariance, PTL DEF Spec

StopReached ==
  loop = "running" /\ loop' = "ending" =>
    \A start \in starts :
      \/ start.number \in crowded
      \/ \E reached \in starts' : reached.number = start.number /\ reached.cancelled

\* Stop cancels every scheduled call of StartMigration that is about to be made
\* or has not returned, unless two goroutines of its repository shared a name.
THEOREM StopCancelsCalls == Spec => StopReachesCalls
<1>1. ServerInv /\ [Next]_serverVars => [StopReached]_schedulerVars
  <2> SUFFICES ASSUME ServerInv, [Next]_serverVars PROVE StopReached
    OBVIOUS
  <2> SUFFICES ASSUME loop = "running", loop' = "ending",
                      NEW start \in starts, start.number \notin crowded
               PROVE  \E reached \in starts' :
                        reached.number = start.number /\ reached.cancelled
    BY DEF StopReached
  <2>1. Stop
    BY OnlyStopEnds
  <2> QED
    BY <2>1, StopReaches DEF ServerInv
<1>2. [][StopReached]_schedulerVars => StopReachesCalls
  BY DEF StopReachesCalls, StopReached
<1> QED
  BY <1>1, <1>2, Invariance, PTL DEF Spec
=============================================================================
