CONSTANTS
    Hash <- MCHash
    None = None
    Genesis <- MCGenesis
    HeightOf <- MCHeightOf
    Prev <- MCPrev
    Ancestors <- MCAncestors
    CoinBlocks <- MCCoinBlocks
    MaxHeight <- MCMaxHeight
    Interval = 2
    BatchSize = 2
    MaxWalk = 1
    Retention = 0
    PruneInterval = 2
    ReorgDepth = 4
    MayResync = TRUE
    RefusedBlocks <- MCRefusedBlocks
SPECIFICATION MCSpec
INVARIANTS
    TypeOK
    Linked
    TipIsTop
    NoHoles
    TipTreeMatchesTip
    SnapshotsMatchChain
    SnapshotsKept
PROPERTIES
    HoldsOneChain
    TipNeverFalls
    Converges
