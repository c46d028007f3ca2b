CONSTANTS
    Hash <- MCHash
    None = None
    Genesis <- MCGenesis
    HeightOf <- MCHeightOf
    Prev <- MCPrev
    Ancestors <- MCAncestors
    CoinBlocks <- MCCoinBlocks
    MaxHeight <- MCMaxHeight
    Interval = 2
    BatchSize = 2
    MaxWalk = 1
    Retention = 2
    PruneInterval = 2
    ReorgDepth = 1
    MayResync = TRUE
    RefusedBlocks <- MCRefusedBlocks
SPECIFICATION MCSpec
PROPERTY
    TipNeverFalls
