SPECIFICATION Spec
CONSTANTS
    Programs <- McPrograms
    MaxNest = 6
    MaxSilent = 12
INVARIANTS SizeExact InStep
CHECK_DEADLOCK FALSE
