\* Every history of four nodes with up to two parents each, and every graph in
\* it with every registry.
CONSTANTS
  N = 4
  MaxParents = 2
SPECIFICATION FairSpec
INVARIANTS RoundTrip DfsOrder PanicsExplained IdsLeftBehind
\* The program ends.
CHECK_DEADLOCK FALSE
PROPERTY Ends
