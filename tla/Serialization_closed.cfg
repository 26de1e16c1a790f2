\* Every history of three nodes with up to two parents each, and every graph in
\* it with every registry.
CONSTANTS
  N = 3
  MaxParents = 2
SPECIFICATION Spec
INVARIANT ClosedGraphSerializes
\* The program ends.
CHECK_DEADLOCK FALSE
