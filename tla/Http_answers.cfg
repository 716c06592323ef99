SPECIFICATION HttpFairSpec
CONSTANTS
    c1 = c1
    c2 = c2
    Client = {c1, c2}
    Text = {"t1"}
    MaxTokens = 2
    Faults = {"run", "decode", "admit"}
    Streams = {c1}
    Silent = {1}
    Pool = 2
    Backends = {"native", "hf"}
    Key <- MCKey
    TextTokens <- MCCost
    ImageTokens <- MCCost
    Images <- MCCost
    MaxBatch = 2
    MaxTextTokens = 2
    MaxImageTokens = 2
    MaxImages = 2
INVARIANTS
    CountsAgree
    WireTellsCompletion
    LeftBehind
PROPERTIES
    RequestsEnd
    ResponsesEnd
    TextCallsEnd
    ShutdownCompletes
CHECK_DEADLOCK FALSE
