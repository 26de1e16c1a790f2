\* attaches_to says that attach will succeed.
CONSTANTS
  N = 3
  MaxParents = 2
SPECIFICATION Spec
INVARIANT AttachesToSuffices
\* The program ends.
CHECK_DEADLOCK FALSE
