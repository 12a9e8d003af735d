SPECIFICATION Spec
CONSTANTS
    Scripts <- McScripts
    Coroutines = {"c", "d"}
    Instances = {1, 2}
    MaxDepth = 4
INVARIANTS Kept Balanced
CHECK_DEADLOCK FALSE
