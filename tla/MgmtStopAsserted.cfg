CONSTANTS
    Signals = {s1}
    Counters = {c1}
    Checks = {cell}
    LowPersistence = 1
    CheckSoft = 1
    CheckHard = 1
    StaleSoft = 2
    StaleHard = 1
    Cap = 3
    MaxFaults = 1
SPECIFICATION Spec
INVARIANT StopAsserted
