SPECIFICATION Spec
CONSTANTS
    d1 = d1
    d2 = d2
    d3 = d3
    h1 = h1
    h2 = h2
    NoAnswerValue = NoAnswerValue
    Dispatches = {d1, d2, d3}
    Handoffs = {h1, h2}
    Content <- MCContent
    NPhases = 3
    NoAnswer = NoAnswerValue
INVARIANTS
    OneLiveWorkflow
    AnswersAreRecorded
    StoredWorkflowsHaveTasks
    CompensationComplete
PROPERTY
    DispatchesConverge
CHECK_DEADLOCK FALSE
