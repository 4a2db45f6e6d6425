\* As in the code the last try of a protected call comes too late for its
\* caller: there five retries after 1, 2, 4, 8 and 16 seconds against a limit
\* of 30, here two after 1 and 2 seconds against one of 3.  Two chunks to an
\* archive; two answers lost or late effects; one change of the target by
\* somebody else.
SPECIFICATION FairSpec
CONSTANTS
  MaxRetries = 2
  InitialInterval = 1
  MaxInterval = 3
  RequestTimeout = 3
  MaxLost = 2
  Parts = 2
  MaxChanges = 1
INVARIANTS
  TypeOK
  SuccessIsReal
  FailureIsFinal
  AtMostOneAfterEnd
  StartedOnce
PROPERTIES
  ShownForward
  DeletedOnlyWhenAsked
  AttemptEnds
CHECK_DEADLOCK FALSE
