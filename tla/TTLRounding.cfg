\* A maximum that is not a whole number of seconds.
SPECIFICATION Spec
CONSTANTS
    k1 = k1
    k2 = k2
    Key <- MCKey
    Patterns <- MCFractionPatterns
    Times <- MCTimes
    MaxBatch = 2
    MaxKeysScanned = 4
INVARIANTS
    FindingsTrue
CHECK_DEADLOCK FALSE
