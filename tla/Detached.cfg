\* Every history of four nodes with up to two parents each, detached from and
\* attached to every set of nodes.
CONSTANTS
  N = 4
  MaxParents = 2
SPECIFICATION FairSpec
INVARIANTS DetachedUpto AttachedUpto PostOrder AttachPanics
\* The program ends.
CHECK_DEADLOCK FALSE
PROPERTY Ends
