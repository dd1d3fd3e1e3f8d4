CONSTANTS
    N = 4
    Txs = {t1}
    StartNumber = 1
    StartDifficulty = 0
    Oversized = {}
    MaxErrors = 1
    MaxBlocks = 2
SPECIFICATION ExecFairSpec
PROPERTIES
    EveryBlockExecuted
    StoredBecomesCanonical
    ConsumerEndEndsTask
CHECK_DEADLOCK FALSE
