SPECIFICATION RetrievalSpec
CONSTANTS
    Partial = 41
    N = 4
    M = 6
    Graphs <- MCGraphs
    ScannedGraphs <- MCScannedGraphs
    DoctorGraph <- MCDoctorGraph
    Questions <- MCQuestions
    Filters <- MCFilters
    Holds <- MCHolds
    Refused <- MCRefused
    MaxFilterDepth = 5
    MaxFilterClauses = 8
    RefusedKeys = {""}
    MaxSourceIds = 3
    MaxSourceRoles = 2
    MaxFields = 2
    MaxOutputItems = 4
    MaxOutputBytes = 40
    CliItems = 4
    CliBytes = 40
    CliPacketItems = 4
    CliPacketBytes = 60
    CliDepth = 2
    CliNodes = 4
    HardMaxDepth = 3
    HardMaxNodes = 4
INVARIANTS
    WalkSound
    TruncationExact
    AnswersExact
    PacketWithinLimits
    OmissionJustified
    PacketComplete
CHECK_DEADLOCK FALSE
