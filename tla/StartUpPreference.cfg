SPECIFICATION Spec
CONSTANTS
    Env <- TheEnv
    Blocked = {}
    Asks <- Plain
    OwnPrefs = {"auto", "v4"}
    HostAddrs <- Both
    Routes <- Reach
INVARIANTS
    PreferenceIsSoft
CHECK_DEADLOCK FALSE
