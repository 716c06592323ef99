SPECIFICATION Spec
CONSTANTS
    NumBlocks = 2
    BlockSize = 2
    SeqId = {s1, s2}
    TokenId = {1, 2, 9}
    Visual = {"a", "b"}
    NoVisual = "none"
    Prompts <- SizedPrompts
    MaxTokens = 3
    Eos = 2
    Sampled = {1, 2}
    MaxNumSeqs = 2
    MaxBatchedTokens = 4
    RunsRaise = FALSE
    NoSeq = NoSeq
INVARIANTS
    DecodeSchedulesSome
CHECK_DEADLOCK FALSE
