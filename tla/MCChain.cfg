CONSTANTS
    N = 4
    MaxHeight = 2
    Txs = {t1}
SPECIFICATION ChainSpec
INVARIANTS
    ChainTypeOK
    RoundZero
    DecidedInOrder
    AnnouncedFirst
    ProposedBeforeFinalized
    ConsumerFindsProposal
    RelayedIsFinalized
    NetworkNeverDry
    NothingArrivesEarly
    NobodyFallsBehind
    NoProcessError
    Backpressure
PROPERTY
    ImplementsFinalizedLog
