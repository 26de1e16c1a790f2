\* A graph filled by insert_ancestors, with nodes that belong to another registry.
CONSTANTS
  Addr = {a1, a2, a3}
  Variables = {h1, h2}
  Weak = {}
  Registries = {r1, r2}
  Slots = {s1, s2, s3}
  MaxVersion = 1
  Null = Null
  MaxParents = 1
  Graphs = {g1}
  Handle <- MCHandle
SPECIFICATION AncestralSpec
SYMMETRY Symmetry
INVARIANTS AncestorClosed NoStaleIds OneRegistry FieldMeansRegistered
