CONSTANTS
    N = 4
    Txs = {t1, t2}
    StartNumber = 0
    StartDifficulty = 1
    Oversized = {}
    MaxErrors = 1
    MaxBlocks = 3
SPECIFICATION ExecSpec
INVARIANTS
    ExecTypeOK
    StorageLinked
    BlocksInOrder
    NoTransactionLost
    ExecutedOnParent
    CanonicalIsStored
    FetchIsExact
    NoLostWakeup
PROPERTY
    CanonicalOnlyGrows
CHECK_DEADLOCK FALSE
