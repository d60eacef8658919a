SPECIFICATION ContentSpec
CONSTANTS
    Chars <- MCChars
    Files <- MCFiles
    Sep = Sep
    MaxChunk = 3
    Foreign <- MCForeign
    Tasks = {t1, t2}
    EmptyBody <- MCEmptyBody
    Paths <- MCPaths
    Mailboxes <- MCMailboxes
    Refs <- MCRefs
    Indexes = {1, 11}
    Metadata <- MCMetadata
    PadWidth = 3
    Rounds = 1
    Blocks <- MCBlocks
    Root = 1
    Graphs <- MCGraphs
    SampleSizes = {0, 2}
    MaxExact = 2
    RecallAt = {1, 2}
    WalkFactor = 2
    Window = 4
    BytesOf <- MCBytes
    SpreadOf <- MCSpread
    KeyOf <- MCKey
INVARIANTS
    MailSound
    KeysSound
    TreeReportSound
    RecallSound
PROPERTIES
    AssessmentEnds
CHECK_DEADLOCK FALSE
