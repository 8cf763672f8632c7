SPECIFICATION FairSpec
CONSTANTS
    Calls = {"create_task", "create_subtask", "check_completeness", "get_task"}
    Leases <- MCLeases
    Registries <- MCRegistries
    Mishaps = {}
INVARIANT
    KillsOnlyItsChild
