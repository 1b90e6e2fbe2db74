SPECIFICATION FairSpec
CONSTANTS
    Forwards = {"Ltcp", "Ludp", "Rtcp", "Rudp"}
    MaxSessions = 2
INVARIANTS
    BindFailureExplained
    

    
CHECK_DEADLOCK FALSE
