SPECIFICATION FairSpec
CONSTANTS
  r1 = r1
  o1 = o1
  sat = sat
  sun = sun
  NoOrganisation = NoOrganisation
  NoRow = NoRow
  NoWindow = NoWindow
  NoSchedule = NoSchedule
  Repositories <- MCRepositories
  Organisations <- MCOrganisations
  Database = "sqlite"
  Days <- MCDays
  Hours = 3
  Terms <- MCTerms
  MaxSchedules = 2
  MaxAttempts = 2
  MaxFaults = 1
INVARIANTS
  TypeOK
  InProgressHasAttempt
  AtMostOneAtWork
  SuccessAnnounced
  EmptyTargetOnlyFromStorage
  EveryScheduleAccounted
PROPERTIES
  SucceededStays
  RecordedFailuresKept
  StopReachesCalls
  StartsWhenPossible
CHECK_DEADLOCK FALSE
