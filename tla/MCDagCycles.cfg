SPECIFICATION Spec
CONSTANTS
    N = 3
    MaxEdges = 3
    Kinds = {"prompt", "approval"}
INVARIANT
    CycleDetection
CHECK_DEADLOCK FALSE
