SPECIFICATION Spec
CONSTANTS
    HistoryCap = 4
    ChannelCap = 4
    StdoutCap = 4
    MaxChunks = 3
    MaxConns = 2
INVARIANT
    ReplayComplete
