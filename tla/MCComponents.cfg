SPECIFICATION FairSpec
CONSTANTS
    MaxHistoryBytes = 6
    PayloadLens = {1, 2, 3, 7}
    MaxSent = 8
    Typed = {"~", ".", "nl", "x"}
    MaxInput = 5
    Radix = 3
    SeqDigits = 1
    LenDigits = 2
    Limit = 3
    BodyLens = {0, 1, 3, 4}
    Ips = {"A", "B"}
    Ports = {1, 2}
    MaxHanded = 2
    Processes = {p1, p2}
    NumDisplays = 2
    Nobody = nobody
    Foreign = foreign
    Held <- Parts
    ClientKeys <- TheClientKeys
    ServerKeys <- TheServerKeys
    MaxEdits = 3
    Senders = {s1, s2, s3}
    MaxSenders = 2
    SenderIdle = 2
    ReplyCap = 1
    Env <- TheEnv
    Blocked = {"LD_PRELOAD"}
    Asks <- Asked
    OwnPrefs = {"v4"}
    HostAddrs <- TheHosts
    Routes = {{"v4"}}
INVARIANTS
    TypeOK
    HistoryExact
    FilterExact
    WholeOrNothing
    EndExplained
    DisplaysOwned
    MergeKeepsSettings
    SocketsBounded
    AskedIsRun
    OrphanExplained
PROPERTIES
    KeepsLongestSuffix
    ImplementsWindow
    EvictsOldest
    ReplyTaken
    BootstrapEnds
SYMMETRY Alike
CHECK_DEADLOCK FALSE
