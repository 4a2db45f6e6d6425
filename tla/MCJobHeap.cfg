\* Seven jobs of both kinds and two priorities, six at a time: enough levels
\* for a removal inside one subtree to move a job from the other.
SPECIFICATION Spec
CONSTANTS
  Priorities = {10, 50}
  MaxQueueSize = 6
  MaxJobs = 7
INVARIANTS
  TypeOK
  HeapOrdered
PROPERTIES
  ChangesOneJob
  MostUrgentServed
CHECK_DEADLOCK FALSE
