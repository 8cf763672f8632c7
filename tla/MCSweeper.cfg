SPECIFICATION FairSpec
CONSTANTS
    r1 = r1
    p1 = p1
    NeverValue = NeverValue
    Never = NeverValue
    Runtimes = {r1}
    Phases <- OnePhase
    Reconcilers = {p1}
    MaxReconciles = 1
    LastPhase = 0
    AgentOf <- MCAgentOf
    Tier <- MCTier
    Policy <- MCPolicy
    Timeout = 0
    Retention = 0
    Interval = 1
    MaxTime = 1
    MaxFaults = 2
    MonitorHeartbeat = 0
    ProgressTimeout = 1
PROPERTIES
    OrphansAreFailed
    StopIsHonoured
