\* Transfers in one direction and in both, over every history of three nodes with up
\* to two parents each, every set of known objects and every object with hash 0.
CONSTANTS
  N = 3
  MaxParents = 2
  Programs <- OrderedPrograms
SPECIFICATION FairSpec
INVARIANTS DataIntact TakesTurns SenderServes NothingLeft
PROPERTIES Delivers Delivered
\* The programs end.
CHECK_DEADLOCK FALSE
