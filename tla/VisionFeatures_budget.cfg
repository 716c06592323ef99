SPECIFICATION Spec
CONSTANTS
    Key = {"a", "b", "c", "d"}
    Bytes <- MCBytes
    Budget = 10
    Grid <- MCGrid
    Side = 3
    Depth = 3
    DeepStackAt <- MCDeepStackAt
    ImageTokenId = 0
    MergeSize = 2
    Family = "qwen3_vl"
    Request = {1, 2, 3}
    Images <- MCImages
INVARIANTS
    InputsWhileLive
    PinsExact
    RefusedOnlyTooLarge
    FeaturesOwn
PROPERTIES
    EvictsAsNeeded
CHECK_DEADLOCK FALSE
