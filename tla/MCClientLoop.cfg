SPECIFICATION FairSpec
INVARIANTS
    TerminalRestored
    SuccessExplained
    VeofAtMostOnce
PROPERTIES
    EscapeExits
    RemoteReturns
