CONSTANTS
    N = 4
    Txs = {t1, t2}
    StartNumber = 0
    StartDifficulty = 1
    Oversized = {{t1, t2}}
    MaxErrors = 0
    MaxBlocks = 3
    MainTx = t1
    Workers = 2
    MaxLag = 2
    Faults = {}
SPECIFICATION NodeFairSpec
INVARIANT
    OnlyStaleIsRejected
PROPERTY
    SubmittedBecomesCanonical
CHECK_DEADLOCK FALSE
