SPECIFICATION ServerSpec
CONSTANTS
    Tokens = {x, y}
    MaxPrompt = 2
    NCtx = 4
    NBatch = 1
    MaxTokens = 2
    Removal = {TRUE, FALSE}
    StopChoices = {TRUE, FALSE}
    Clients = {c1, c2}
    Nobody = Nobody
INVARIANTS
    AnswersItsOwnPrompt
    SampledInContext
