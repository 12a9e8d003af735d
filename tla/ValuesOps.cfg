SPECIFICATION Spec
CONSTANTS
  Vars = {x, y, z}
  Objs = {11, 12, 13}
  Ints = {0}
  MaxDepth = 1
  MaxMarks = 2
SYMMETRY Symmetry
INVARIANTS CountsExact NoCycle MarkedAlone
PROPERTY WritesSeen
