SPECIFICATION Spec
CONSTANTS
    Tokens = {x, y}
    MaxPrompt = 3
    NCtx = 4
    NBatch = 2
    MaxTokens = 2
    Removal = {TRUE, FALSE}
    StopChoices = {TRUE, FALSE}
INVARIANTS
    HistoryIsCache
