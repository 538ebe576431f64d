\* All three types of scenario, one probe, one retry of the warm-up.
SPECIFICATION FairSpec
CONSTANTS
    Conn = {c1}
    Scenarios <- MCScenarios
    NumProbes = 1
    WarmupRetries = 1
    MaxRows = 1
INVARIANTS
    TypeOK
    FaultConfined
    FaultWhileMeasured
    CompleteReport
    TrafficFinding
    ExitMeansResult
    JUnitAgrees
    ProxyReleased
PROPERTIES
    Terminates
CHECK_DEADLOCK FALSE
