\* Drops and calls on graphs end.  No symmetry: the properties are temporal.
CONSTANTS
  Addr = {a1, a2}
  Variables = {h1, h2}
  Weak = {}
  Registries = {r1}
  Slots = {s1, s2}
  MaxVersion = 1
  Null = Null
  MaxParents = 2
  Graphs = {g1}
  Handle <- MCHandle
SPECIFICATION FairKeptSpec
PROPERTIES CallsReturn CascadeEnds EventuallyCollected
