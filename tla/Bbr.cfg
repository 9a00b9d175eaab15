SPECIFICATION FairSpec
CONSTANTS
  N = 2
  Commands = 2
  MaxRetry = 1
INVARIANTS
  Routed
PROPERTY Completes
CHECK_DEADLOCK FALSE
