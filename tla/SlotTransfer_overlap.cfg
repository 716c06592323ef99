SPECIFICATION Spec
CONSTANTS
    MaxRuns = 4
    Size = {1, 2}
    Layers = 2
INVARIANTS
    KernelsReadOwnSlots
    SourcesOutliveCopies
