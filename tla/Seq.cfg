CONSTANTS
    IgnitionIds = {"108", "1CB"}
    ChgTrans = {0, 1}
    TxIds = {"1C2", "1DB", "55B", "59E"}
    Period <- MCPeriod
    IgnitionQuiet = 1
    IgnitionGrace = 1
    IgnitionOffDelay = 2
    ChgEndStop = 2
    ChgStallTimeout = 3
    ChgCmdFresh = 1
    BusSilence = 3
    Cooldown = 2
    T1DBStart = 1
    T55BStart = 1
    T59EStart = 2
    TRunning = 2
    Stage2 = 1
    Stage3 = 2
    Stage4 = 3
    SessionCap = 3
    IgnitionCap = 4
    PromptLoop = TRUE
SPECIFICATION FairSpec
INVARIANTS TypeOK IgnitionCancels SwitchedOffSessionEnds SilenceBounded
PROPERTIES ImplementsSession SilenceRearms ParkedSessionEnds StalledChargeEnds
