SPECIFICATION Spec
CONSTANTS
  Pages = {p1, p2, p3}
  Handles = {h1, h2, h3, h4}
  Nil = Nil
  HeapMax = 3
  ByteRange = 6
  Setups <- McSetups
CHECK_DEADLOCK FALSE
SYMMETRY Symmetry
INVARIANT PoolExact
PROPERTIES CountersExact FillDescends
