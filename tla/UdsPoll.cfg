CONSTANTS
    ResponseTimeout = 4
    RequestGap = 1
    TempInterval = 2
    TempFresh = 16
    AnswerTime = 4
    Probes = {1, 2}
    First = 1
SPECIFICATION FairTempsSpec
INVARIANTS TypeOK OwnAnswerOnly TempPolledWhileFresh TempsKeptCurrent
PROPERTIES ImplementsExchange EveryDidPolled
