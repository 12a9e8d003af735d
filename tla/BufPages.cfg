SPECIFICATION Spec
CONSTANTS
  Pages = {p1, p2, p3, p4}
  HeapMax = 3
  HeadSize = 2
  SlotSize = 1
  Limit = 14
  Faults = {"os"}
SYMMETRY Symmetry
CHECK_DEADLOCK FALSE
INVARIANTS TypeOK Partition ChainsExact OnlyHeadHasRest CountExact
