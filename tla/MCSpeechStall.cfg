SPECIFICATION FairSpec
CONSTANTS
    Requests = {r1, r2}
    NoRequest = NoRequest
    Chunks = 3
    PerSentence = 2
    MaxDepth = 1
PROPERTIES
    ModelReleased
CHECK_DEADLOCK FALSE
