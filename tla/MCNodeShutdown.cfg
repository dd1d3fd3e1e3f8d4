CONSTANTS
    N = 4
    Txs = {t1}
    StartNumber = 0
    StartDifficulty = 1
    Oversized = {}
    MaxErrors = 0
    MaxBlocks = 2
    MainTx = t1
    Workers = 2
    MaxLag = 2
    Faults = {"launch", "value", "execution", "engine"}
SPECIFICATION NodeFairSpec
PROPERTIES
    ShutdownCompletes
CHECK_DEADLOCK FALSE
