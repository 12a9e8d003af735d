SPECIFICATION Spec
CONSTANTS
  Nodes = {b1, b2, b3, b4}
  Sizes = {0, 1, 2, 3, 5, 6}
  Gap = 2
  Classes = 2
  NodeHead = 1
  PoolsSize = 1
  Limit = 16
  CacheSizes = {0, 6, 12}
  Faults = {"os"}
CHECK_DEADLOCK FALSE
SYMMETRY Symmetry
INVARIANTS NodesExact CountsExact
