\* Up to three deletions of two keys that come back, in replies of two keys.
SPECIFICATION Spec
CONSTANTS
    k1 = k1
    k2 = k2
    other = other
    Key <- MCKey
    Patterns <- MCPatterns
    MaxBatch = 2
    MaxKeysDelete = 3
INVARIANTS
    TypeOK
    DeleteBudget
    ColdUnderBudget
CHECK_DEADLOCK FALSE
