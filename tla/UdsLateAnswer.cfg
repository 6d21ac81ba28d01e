CONSTANTS
    ResponseTimeout = 10
    RequestGap = 1
    TempInterval = 4
    TempFresh = 40
    AnswerTime = 11
SPECIFICATION Spec
INVARIANT CompleteIsCurrent
