SPECIFICATION FairSpec
CONSTANTS
    Forwards = {"Ltcp"}
    MaxSessions = 2
PROPERTIES
    ForwardsSurvive
CHECK_DEADLOCK FALSE
