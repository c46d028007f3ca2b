CONSTANTS
    Hash <- MCHash
    None = None
    Genesis <- MCGenesis
    HeightOf <- MCHeightOf
    Prev <- MCPrev
    Ancestors <- MCAncestors
    CoinBlocks <- MCCoinBlocks
    MaxHeight <- MCMaxHeight
    Interval = 2
    BatchSize = 2
    MaxWalk = 2
    Retention = 2
    PruneInterval = 2
    ReorgDepth = 1
    MayResync = FALSE
    RefusedBlocks <- MCRefusedBlocks
SPECIFICATION MCSpec
INVARIANT
    TipTreeMatchesTip
