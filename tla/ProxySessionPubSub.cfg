\* A subscription in pass-through.
SPECIFICATION FairSpec
CONSTANTS
    Commands <- MCPubSub
    MaxCommands = 2
    MaxMessages = 1
    Key = {"k1"}
    NoKey = NoKey
    MissKeys = {"k1"}
PROPERTIES
    PassThroughForwards
CHECK_DEADLOCK FALSE
