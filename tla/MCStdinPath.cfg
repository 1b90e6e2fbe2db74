SPECIFICATION FairSpec
CONSTANTS
    HistoryCap = 2
    StdinCap = 2
    PtyInCap = 1
    MaxTyped = 4
    MaxConns = 3
INVARIANTS
    NothingSkipped
    TrimmedWasTaken
PROPERTIES
    ImplementsFifo
    EventuallyTyped
