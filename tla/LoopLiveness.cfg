CONSTANTS
    Capacity = 2
    SleepIdle = 2
    RequestGap = 2
    MaxInFlight = 2
SPECIFICATION FairSpec
INVARIANT TypeOK
PROPERTY LeafTrafficServed
PROPERTY SilenceSleeps
