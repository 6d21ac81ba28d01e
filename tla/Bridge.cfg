CONSTANTS
    IgnitionIds = {"108"}
    ChgTrans = {0, 1}
    TxIds = {"1C2"}
    Period <- MCPeriod
    IgnitionQuiet = 0
    IgnitionGrace = 0
    IgnitionOffDelay = 0
    ChgEndStop = 0
    ChgStallTimeout = 1
    ChgCmdFresh = 0
    BusSilence = 2
    Cooldown = 1
    T1DBStart = 0
    T55BStart = 0
    T59EStart = 0
    TRunning = 1
    Stage2 = 1
    Stage3 = 1
    Stage4 = 1
    SessionCap = 3
    IgnitionCap = 1
    PromptLoop = TRUE
    Signals = {s1}
    Counters = {}
    Checks = {}
    LowPersistence = 0
    CheckSoft = 0
    CheckHard = 0
    StaleSoft = 1
    StaleHard = 1
    Cap = 3
    MaxFaults = 0
SPECIFICATION BridgeSpec
INVARIANT SilentOnStaleData
PROPERTIES ImplementsManagement CutHeldUntilQuiet
