CONSTANTS
    Hash <- MCHash
    None = None
    Genesis <- MCGenesis
    HeightOf <- MCHeightOf
    Prev <- MCPrev
    Ancestors <- MCAncestors
    CoinBlocks <- MCCoinBlocks
    MaxHeight <- MCMaxHeight
    Interval = 2
    RawTxs <- MCRawTxs
    MaxTxs = 2
    MaxCalls = 5
    Format = 2
    OldRow = OldRow
    OldDisk <- MCOldDisk
    Retention = 1
    MaxCrashes = 1
    MinSpan = 2
    MaxBucket = 2
    MaxBlocks = 3
    MaxTipLag = 1
    Degree = 2
    MaxStripes = 2
    MinLimbs = 2
    MaxLimbs = 4
    DigestRanges <- MCDigestRanges
    PirRanges <- MCPirRanges
    WindowCap = 1
    MaxMessages = 2
    Contents <- MCContents
    Readers = {"none", "stream", "tree", "tip", "digest", "pir"}
SPECIFICATION MCSpec
INVARIANTS
    LinkedOnDisk
    WritesMakeOperation
    NoOldRows
    StreamDeliversChain
    CheckpointTrees
    SubscriberCaughtUp
    DigestLosesNoClue
    PirReassembles
PROPERTIES
    SecretsSurvive
