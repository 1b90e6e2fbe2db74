SPECIFICATION FairSpec
CONSTANTS
    MaxChunks = 2
    FlowWindow = 1
    SockBuf = 1
    MaxConns = 2
    FakeCookie <- Fake
    Offers <- Offered
INVARIANTS
    TruncationExplained
    NoSpuriousEof
    X11Admission
PROPERTIES
    BothEnd
