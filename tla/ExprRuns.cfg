SPECIFICATION Spec
CONSTANTS
    Inputs <- McInputs
INVARIANTS Translated Right
CHECK_DEADLOCK FALSE
