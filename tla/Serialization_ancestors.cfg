\* A loop over all_ancestors yields all ancestors.
CONSTANTS
  N = 4
  MaxParents = 2
SPECIFICATION Spec
INVARIANT AllAncestorsComplete
\* The program ends.
CHECK_DEADLOCK FALSE
