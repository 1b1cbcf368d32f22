SPECIFICATION SharedSpec
CONSTANTS
    Threads = {t1, t2, t3}
    Slots = {a, b}
    Resources = {r1, r2}
    NoResource = NoResource
    NoSlot = NoSlot
    MaxArrivals = 2
    Tokens = {x, y}
    MaxPrompt = 3
    NCtx = 4
    NBatch = 2
    MaxTokens = 2
    Removal = {TRUE, FALSE}
    StopChoices = {FALSE}
    Users = {u1, u2, u3}
    Nobody = Nobody
INVARIANTS
    ExclusiveLease
    NothingLost
    NoLostWakeup
    HistoryIsCache
    SampledInContext
    AbortedIsFlushed
    FreesOnlyWhenIdle
PROPERTIES
    ImplementsLeaseTable
    EveryAcquireReturns
    CloseReturns
