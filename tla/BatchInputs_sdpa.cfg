SPECIFICATION GraphSpec
CONSTANTS
    NumBlocks = 4
    BlockSize = 2
    SeqId = {s1, s2}
    TokenId = {1, 2, 9}
    Visual <- MCVisual
    NoVisual = NoVisual
    Prompts <- MCPrompts
    MaxTokens = 3
    Eos = 2
    Sampled = {1, 2}
    MaxNumSeqs = 2
    MaxBatchedTokens = 5
    RunsRaise = FALSE
    NoSeq = NoSeq
    ImageTokenId = 9
    MergeSize = 2
    Family = "qwen3_vl"
    ImagesOf <- MCImagesOf
    EnforceEager = TRUE
    SmallGraphs = {2}
    GraphStep = 16
    MaxGraphBatch = 512
    MaxModelLen = 10
INVARIANTS
    FullContextCovers
CHECK_DEADLOCK FALSE
