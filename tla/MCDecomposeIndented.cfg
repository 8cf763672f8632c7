\* Two overlapping runs, a limit of four hours or three steps, the defaults
\* of DecompositionConfig, on every regular and odd handoff.
CONSTANTS
    NoNumber = NoNumber
    NoValue = NoValue
    MaxEffort = 240
    MaxSteps = 3
    RespectDependencies = TRUE
    RespectProjects = TRUE
    Word = 65536
    MostPieces = 5
    Runs = {r1, r2}
    Projects <- MCProjects
    Slug <- MCSlug
    Drafts <- MCDrafts
    Edits <- MCEdits
SPECIFICATION CommandSpec
SYMMETRY MCSymmetry
INVARIANT EveryStepSurvives
CHECK_DEADLOCK FALSE
