\* Three jobs suffice.
SPECIFICATION Spec
CONSTANTS
  Priorities = {10, 50, 100}
  MaxQueueSize = 3
  MaxJobs = 3
PROPERTIES
  UrgentFirstOfKind
CHECK_DEADLOCK FALSE
