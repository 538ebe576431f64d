\* Two connections with three commands; two overlapping patterns, four keys
\* looked at, replies of two keys.
SPECIFICATION MCSpec
CONSTANTS
    k1 = k1
    k2 = k2
    small = small
    big = big
    c1 = c1
    c2 = c2
    Key <- MCKey
    Patterns <- MCPatterns
    Times <- MCTimes
    MaxBatch = 2
    MaxKeysScanned = 4
    Name <- MCName
    Arg <- MCArg
    Size <- MCSize
    Scenarios <- MCScenarios
    MaxValueBytes = 2
    Conn = {c1, c2}
    Commands <- MCCommands
    MaxSent = 3
    Suspicious = {"XADD"}
    Disposable = TRUE
INVARIANTS
    AuditTypeOK
    FindingsTrue
    AuditComplete
    AuditMeansTraffic
CHECK_DEADLOCK FALSE
