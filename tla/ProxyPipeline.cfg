\* One connection, three pipelined commands; safety and liveness.
SPECIFICATION FairSpec
CONSTANTS
    Conn = {c1}
    Commands <- MCCommands
    MaxPipeline = 3
    Key = {"k1"}
    NoKey = NoKey
    MissKeys = {"k1"}
INVARIANTS
    ClosedForwardsAtMostOne
PROPERTIES
    NoAddAfterDrain
    ImplementsContract
    Quiesces
    AnsweredSeverReleases
CHECK_DEADLOCK FALSE
