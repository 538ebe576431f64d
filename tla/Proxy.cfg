\* Two connections, one forwarded command on each.
SPECIFICATION Spec
CONSTANTS
    Conn = {c1, c2}
    Commands <- MCForwarded
    MaxPipeline = 1
    Key = {"k1"}
    NoKey = NoKey
    MissKeys = {"k1"}
SYMMETRY Symmetry
INVARIANTS
    TypeOK
    WaitGroupCount
    UnavailableSevers
    CleanShutdown
CHECK_DEADLOCK FALSE
