SPECIFICATION GraphFairSpec
CONSTANTS
    NumBlocks = 4
    BlockSize = 2
    SeqId = {s1, s2, s3}
    TokenId = {1, 2, 9}
    Visual <- MCVisual
    NoVisual = NoVisual
    Prompts <- MCPrompts
    MaxTokens = 2
    Eos = 2
    Sampled = {1}
    MaxNumSeqs = 2
    MaxBatchedTokens = 5
    RunsRaise = FALSE
    NoSeq = NoSeq
    ImageTokenId = 9
    MergeSize = 2
    Family = "qwen3_vl"
    ImagesOf <- MCImagesOf
    EnforceEager = FALSE
    SmallGraphs = {2}
    GraphStep = 16
    MaxGraphBatch = 512
    MaxModelLen = 10
INVARIANTS
    RowsEmbedded
    RowsAttendPrefix
    RowsPositioned
    ReplayAsEager
PROPERTIES
    EveryRequestFinishes
CHECK_DEADLOCK FALSE
