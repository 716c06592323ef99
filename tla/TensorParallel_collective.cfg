SPECIFICATION TPSpec
CONSTANTS
    Rank = {1, 2, 3}
    Method = {"run", "release_vision_inputs"}
    Collective = {"run"}
    MaxCalls = 4
    Heads = 16
    KVHeads = 8
    HeadDim = 2
    Inner = 8
    Vocab = 8
    Sources <- MCSources
    Inputs <- MCInputs
INVARIANTS
    DeliveredUntilOverrun
    LoadsWhole
    RunsAsUnsharded
PROPERTIES
    CallsReturn
CONSTRAINT
    UntilOverrun
CHECK_DEADLOCK FALSE
