\* Two graphs and two registries, nodes inserted in every way.
CONSTANTS
  Addr = {a1, a2}
  Variables = {h1, h2}
  Weak = {}
  Registries = {r1, r2}
  Slots = {s1, s2}
  MaxVersion = 1
  Null = Null
  MaxParents = 1
  Graphs = {g1, g2}
  Handle <- MCHandle
SPECIFICATION KeptSpec
SYMMETRY Symmetry
INVARIANTS GraphTypeOK GraphsAgreeWithRegistry DirectionsAgree MapsInverse PointersNotDangling
