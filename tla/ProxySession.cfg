\* Four commands of transactions, protocol versions and a subscription.
SPECIFICATION FairSpec
CONSTANTS
    Commands <- MCCommands
    MaxCommands = 4
    MaxMessages = 1
    Key = {"k1"}
    NoKey = NoKey
    MissKeys = {"k1"}
INVARIANTS
    TypeOK
    RepliesInOrder
    AnsweredOnce
    NilInProtocol
    ExecMatchesQueued
PROPERTIES
    ForwardsReplies
CHECK_DEADLOCK FALSE
