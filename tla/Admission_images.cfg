SPECIFICATION AdmitSpec
CONSTANTS
    Key <- MCKey
    TextTokens <- MCTextTokens
    ImageTokens <- MCImageTokens
    Images <- MCImages
    MaxBatch = 2
    MaxTextTokens = 3
    MaxImageTokens = 4
    MaxImages = 3
    Source = {"file", "site", "data"}
    SourceType <- MCSourceType
    MaxContent = 2
    AssetCapacity = 2
    Parts <- MCParts
    AllowLocalFiles = TRUE
    Grid <- MCGrid
    Family = "qwen2_5_vl"
INVARIANTS
    BatchesWithinPolicy
    FilesCurrent
    KeysNamePatches
PROPERTIES
    PopSplitsQueue
CHECK_DEADLOCK FALSE
