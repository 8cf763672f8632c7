SPECIFICATION Spec
CONSTANTS
    p1 = p1
    p2 = p2
    NoCopyValue = NoCopyValue
    NPhases = 2
    Conditions <- MCConditions
    ExitGate <- MCExitGate
    EntryGate <- MCEntryGate
    Artifacts = {}
    RequiredArtifacts <- MCNoArtifacts
    ToolFailureCeiling <- MCCeiling
    RequestCeiling <- MCCeiling
    Procs = {p1, p2}
    CommandSet = {"complete", "cancel"}
    NoCopy = NoCopyValue
PROPERTY
    OutcomeNotOverwritten
