CONSTANTS
    x = x
    y = y
    z = z
    Requests <- MCRequests
    EncodedSize <- MCEncodedSize
    replay_sort_key <- MCSortKey
    chunk_size = 2
    OutcomeFragments = 2
    OutcomeSize = 2
    PredecessorSize = 1
    REPLAY_JOURNAL_BLOCK_MAX_BYTES = 5
    MUTABLE_REF_STORE_HTTP_RETRY_ATTEMPTS = 2
    MaxRuns = 3
    Location = "LocalFile"
    IoFaults = {}
    MayCrash = TRUE
SPECIFICATION Spec
INVARIANT AcknowledgedSurvives
