SPECIFICATION Spec
CONSTANTS
    c1 = c1
    c2 = c2
    c3 = c3
    Client = {c1}
    Text = {"t1"}
    MaxTokens = 2
    Faults = {}
    Backends = {"native"}
    Key <- MCKey
    TextTokens <- MCTextTokens
    ImageTokens <- MCImageTokens
    Images <- MCImages
    MaxBatch = 2
    MaxTextTokens = 2
    MaxImageTokens = 2
    MaxImages = 2
INVARIANTS
    FailsOnlyOnFaults
CHECK_DEADLOCK FALSE
