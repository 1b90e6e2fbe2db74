SPECIFICATION Spec
CONSTANTS
    ClientKeys <- TheClientKeys
    ServerKeys <- TheServerKeys
    MaxEdits = 4
INVARIANTS
    MergedIsValid
CHECK_DEADLOCK FALSE
