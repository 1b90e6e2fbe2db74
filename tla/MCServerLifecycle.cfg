SPECIFICATION FairSpec
CONSTANTS
    MaxDials = 3
INVARIANTS
    ToldUnlessMissed
    LogoutUnlessLate
PROPERTIES
    SignalEndsProcess
    AbandonedProcessEnds
    ShellExitEndsProcess
