CONSTANTS
    N = 4
    Txs = {t1, t2}
    StartNumber = 0
    StartDifficulty = 1
    Oversized = {}
    MaxErrors = 0
    MaxBlocks = 3
    MainTx = t1
    Workers = 2
    MaxLag = 2
    Faults = {"launch", "execution", "engine"}
SPECIFICATION NodeSpec
INVARIANTS
    NodeTypeOK
    ExecutedAsBuilt
    OnlyStaleIsRejected
    MainSeesItsTransaction
CHECK_DEADLOCK FALSE
