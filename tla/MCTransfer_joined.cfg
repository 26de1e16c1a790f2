\* Both processes send and receive concurrently, one object without parents each.
CONSTANTS
  N = 1
  MaxParents = 0
  Programs <- JoinedPrograms
SPECIFICATION FairSpec
PROPERTY Delivered
\* The programs end.
CHECK_DEADLOCK FALSE
