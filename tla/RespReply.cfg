\* Up to six tokens, and three calls of readReplyRawDepth inside one another.
SPECIFICATION Spec
CONSTANTS
    maxReplyDepth = 2
    maxAggregateElements = 2
    MaxTokens = 6
INVARIANTS
    TypeOK
    WholeReplies
    NothingHeldBack
CHECK_DEADLOCK FALSE
