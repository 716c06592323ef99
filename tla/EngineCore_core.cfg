SPECIFICATION Spec
CONSTANTS
    NumBlocks = 4
    BlockSize = 2
    SeqId = {s1, s2, s3}
    TokenId = {1, 2, 9}
    Visual = {"a", "b"}
    NoVisual = "none"
    Prompts <- ImagePrompts
    MaxTokens = 2
    Eos = 2
    Sampled = {1, 2}
    MaxNumSeqs = 2
    MaxBatchedTokens = 2
    RunsRaise = TRUE
    NoSeq = NoSeq
INVARIANTS
    TypeOK
    RefCountsExact
    PoolPartition
    IndexSound
    NoRequestLost
    CachedTokensComputed
    WritesExclusive
    ScheduledNotPreempted
PROPERTIES
    ImplementsPool
CHECK_DEADLOCK FALSE
