SPECIFICATION Spec
CONSTANTS
    Rank = {1, 2, 3}
    Method = {"run", "release_vision_inputs"}
    Collective = {"run"}
    MaxCalls = 4
INVARIANTS
    CallsDelivered
CHECK_DEADLOCK FALSE
