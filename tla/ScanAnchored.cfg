SPECIFICATION ScanSpec
CONSTANTS
    TextOrder <- MCTextOrder
    Digest <- MCDigest
    Paths <- MCPaths
    Elsewhere <- CodeText
    Unfit <- MCUnfit
    Starts <- AnchoredStarts
    Edits <- AnchoredEdits
    IgnoreFiles <- AnchoredIgnoreFiles
    Configs <- MCConfigs
    Extra <- MCExtra
    KeyOrder <- MCKeyOrder
    MAX_SCAN_DEPTH = 1
    MAX_MECHANICAL_ITEMS_PER_FILE = 2
    MAX_SEMANTIC_FACTS_PER_FILE = 3
    MAX_FIELDS = 5
    MAX_VALUES_PER_FIELD = 1
    MAX_SEMANTIC_BYTES = 12
    MaxPathLength = 4
    MaxLinks = 2
    MaxChanges = 2
    MaxScans = 2
INVARIANTS
    IncrementalIsFull
CHECK_DEADLOCK FALSE
