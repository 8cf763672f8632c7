SPECIFICATION Spec
CONSTANTS
    N = 3
    MaxEdges = 3
    Kinds = {"timed", "prompt", "approval"}
INVARIANTS
    CyclesRefused
    TriggersHonoured
    NothingLeftBehind
PROPERTIES
    ResultsStand
    Terminates
CHECK_DEADLOCK FALSE
