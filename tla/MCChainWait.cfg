CONSTANTS
    N = 4
    MaxHeight = 0
    Txs = {t1}
SPECIFICATION ChainSpec
INVARIANT WaitsForValue
