SPECIFICATION CompFairSpec
CONSTANTS
    Handlers = {h1, h2}
    Fds = {f1, f2}
    NoFd = NoFd
    WsHandlers = {w1}
    MaxStarted = 1
INVARIANTS
    NobodySleepsThroughStop
    RegisteredIsOpen
    NoListenerOutlives
    OneLateCall
PROPERTIES
    NoCallAfterTeardown
    TeardownReturns
CHECK_DEADLOCK FALSE
