SPECIFICATION Spec
CONSTANTS
    NPhases = 2
    Conditions <- MCConditions
    ExitGate <- MCExitGate
    EntryGate <- MCEntryGate
    Artifacts = {"plan", "report"}
    RequiredArtifacts <- MCRequiredArtifacts
    ToolFailureCeiling <- MCToolFailureCeiling
    RequestCeiling <- MCRequestCeiling
    MaxRetries = 1
PROPERTY
    UserTerminatedIsTerminal
