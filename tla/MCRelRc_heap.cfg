\* Nodes, edges and weak references: nodes die, blocks linger, addresses are reused.
CONSTANTS
  Addr = {a1, a2, a3}
  Handle = {h1, h2, h3}
  Weak = {w1}
  Registries = {}
  Slots = {}
  MaxVersion = 0
  Null = Null
  MaxParents = 2
SPECIFICATION Spec
SYMMETRY Symmetry
INVARIANTS TypeOK AncestorsAlive NoLeak EdgesAgree MemoryReturned Acyclic Accounted
PROPERTIES ParentsNeverChange ImplementsOwnership
