SPECIFICATION Spec
CONSTANTS
    r1 = r1
    p1 = p1
    NeverValue = NeverValue
    Never = NeverValue
    Runtimes = {r1}
    Phases <- TwoPhases
    Reconcilers = {p1}
    MaxReconciles = 1
    LastPhase = 1
    AgentOf <- MCAgentOf
    Tier <- MCTier
    Policy <- MCPolicy
    Timeout = 1
    Retention = 0
    Interval = 1
    MaxTime = 2
    MaxFaults = 1
    MonitorHeartbeat = 0
    ProgressTimeout = 1
INVARIANT
    BudgetHonoured
    OfflineOverdueOrRacing
