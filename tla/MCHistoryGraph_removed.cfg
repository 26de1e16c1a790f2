\* Two graphs that share a registry, from which ids are removed by hand.
CONSTANTS
  Addr = {a1, a2}
  Variables = {h1, h2}
  Weak = {}
  Registries = {r1}
  Slots = {s1, s2}
  MaxVersion = 2
  Null = Null
  MaxParents = 1
  Graphs = {g1, g2}
  Handle <- MCHandle
SPECIFICATION HistorySpec
SYMMETRY Symmetry
INVARIANT SharedIdsConsistent
PROPERTY ContainedStays
