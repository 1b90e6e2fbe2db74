SPECIFICATION FairSpec
CONSTANTS
    HistoryCap = 2
    ChannelCap = 2
    StdoutCap = 2
    MaxChunks = 3
    MaxConns = 3
INVARIANTS
    TrimmedIsAccounted
    LossExplained
    ExactUnlessHazard
PROPERTIES
    EventuallyShown
