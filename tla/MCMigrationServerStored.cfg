SPECIFICATION Spec
CONSTANTS
  r1 = r1
  o1 = o1
  sat = sat
  sun = sun
  NoOrganisation = NoOrganisation
  NoRow = NoRow
  NoWindow = NoWindow
  NoSchedule = NoSchedule
  Repositories <- MCRepositories
  Organisations <- MCOrganisations
  Database = "postgres"
  Days <- MCDays
  Hours = 3
  Terms <- MCTerms
  MaxSchedules = 0
  MaxAttempts = 1
  MaxFaults = 0
INVARIANT
  StoredIsLastKnown
CHECK_DEADLOCK FALSE
