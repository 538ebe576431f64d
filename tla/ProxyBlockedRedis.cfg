\* A blocking command outlives the cut.
SPECIFICATION ReadingSpec
CONSTANTS
    Conn = {c1}
    Commands <- MCCommands
    MaxPipeline = 1
    Key = {"k1"}
    NoKey = NoKey
    MissKeys = {"k1"}
PROPERTIES
    SeverReleasesUpstream
CHECK_DEADLOCK FALSE
