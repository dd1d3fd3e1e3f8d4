CONSTANTS
    N = 4
    MaxHeight = 1
    Txs = {}
SPECIFICATION ChainFairSpec
PROPERTIES
    FinalizedIsRelayed
    EveryHeightRelayed
    SimulatorEndsAll
    EndSpreadsUpstream
CHECK_DEADLOCK FALSE
