SPECIFICATION Spec
CONSTANTS
    Conn = {c1}
    Scenarios <- MCScenarios
    NumProbes = 1
    WarmupRetries = 1
    MaxRows = 1
INVARIANTS
    OnlyRunsScenario
CHECK_DEADLOCK FALSE
