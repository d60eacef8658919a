SPECIFICATION StoresSpec
CONSTANTS
    ItemsOf <- MCItemsOf
    MaxUnsaved = 2
    Paths = {"p", "q"}
    Contents = {"c"}
    MaxSourceChanges = 1
    MaxAttempts = 2
    Calls = {"get1", "get2"}
    Idempotent = {"get1", "get2"}
    MaxOutages = 1
    MaxIdleCloses = 1
    Blocks = {"e"}
    Emails = {"e"}
    Wanted <- MCWanted
    Overlay = TRUE
    MaxFaults = 1
    ToolCalls = {c1, c2}
    Runs <- MCRuns
    Branch <- MCBranch
    Reached <- MCReached
    Entries <- MCEntries
    IngestionOnly = {2}
    MaxTopK = 2
SYMMETRY MCSymmetry
INVARIANTS
    ResumeSound
    ReadSound
    AnswersSound
PROPERTIES
    SavedStateKept
CHECK_DEADLOCK FALSE
