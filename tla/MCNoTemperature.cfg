SPECIFICATION RecSpec
CONSTANTS
    Tokens = {a, b}
    Calls <- MCCalls
    SeekEnd = 4
    Chunk = 2
    DeltaMin = 0
    ShortTail = 1
    TextCtx = 12
    InitLen = 4
    Shapes <- MCShapes
    Budgets = {0, 1, 2, 6}
    Lengths = {0, 2}
    MaxCalls = 2
    Step = 3
    Length = 4
    Keep = 1
    MaxFed = 14
    MaxPiece = 6
    Words = {a, b}
    Half = 2
    Limit = 4
    MaxAppend = 3
    MaxWords = 2
    MaxDeltas = 3
INVARIANTS
    EmitsDecoded
CHECK_DEADLOCK FALSE
