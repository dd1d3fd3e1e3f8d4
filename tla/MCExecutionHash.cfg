CONSTANTS
    N = 4
    Txs = {t1}
    StartNumber = 0
    StartDifficulty = 1
    Oversized = {}
    MaxErrors = 1
    MaxBlocks = 2
SPECIFICATION ExecSpec
INVARIANT EveryNumberHasHash
CHECK_DEADLOCK FALSE
