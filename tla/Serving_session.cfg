SPECIFICATION Spec
CONSTANTS
    c1 = c1
    c2 = c2
    c3 = c3
    Client = {c1, c2, c3}
    Text = {}
    MaxTokens = 2
    Faults = {"run", "decode", "admit"}
    Backends = {"native", "hf"}
    Key <- MCKey
    TextTokens <- MCTextTokens
    ImageTokens <- MCImageTokens
    Images <- MCImages
    MaxBatch = 2
    MaxTextTokens = 2
    MaxImageTokens = 2
    MaxImages = 2
INVARIANTS
    PendingPlaces
    SessionLeavesNothing
    FailsOnlyOnFaults
PROPERTIES
    ImplementsService
CHECK_DEADLOCK FALSE
