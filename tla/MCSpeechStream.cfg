SPECIFICATION FairSpec
CONSTANTS
    Requests = {r1, r2}
    NoRequest = NoRequest
    Chunks = 3
    PerSentence = 2
    MaxDepth = 2
INVARIANTS
    NothingSkipped
    CompleteWhenFinished
    NoLostWakeup
PROPERTIES
    EveryStreamEnds
CHECK_DEADLOCK FALSE
