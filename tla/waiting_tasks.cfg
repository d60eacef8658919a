SPECIFICATION TasksSpec
CONSTANTS
    Calls = {"get", "post"}
    Idempotent = {"get"}
    MaxOutages = 2
    MaxIdleCloses = 1
    Conns = {"a", "b", "c"}
    Reqs = {"a1", "a2", "b1"}
    ConnOf <- MCConnOf
    Embeddings = {"b1"}
    Hangs = {{}, {"a1"}}
    ConnSlots = 2
    ReqSlots = 1
    N = 4
    Concurrency = 2
    MaxRetries = 1
    Journals <- MCJournals
    FlushLimit = 2
    FanIn = 2
    BatchSize = 2
    FilesMayFail = TRUE
    Batches = 2
    MaxStatuses = 2
    MaxItems = 2
    Reporters = {"r"}
    Messages = {"a", "b"}
    MaxLines = 4
    Blocks = {"r1", "r2", "a", "b", "c", "d", "e"}
    RootIds <- MCRootIds
    Children <- MCChildren
    len <- MClen
    max_in_flight_destination_writes = 3
    max_in_flight_destination_write_bytes = 4
    checkpoint_interval = 3
    Stored = {"r2"}
    Faulty <- MCFaulty
    Faults = {"interrupt", "checkpoint_error"}
INVARIANTS
    CallsAreSafeToRetry
    SlotsAreHeldByTasks
    PoolSound
    ReplayOrderSound
    InterruptedStageSound
    HeartbeatSound
    CopyTaskSound
    CopyReportSound
PROPERTIES
    BegunWorkEnds
CHECK_DEADLOCK FALSE
