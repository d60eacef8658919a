CONSTANTS
    r1 = r1
    r2 = r2
    a = a
    b = b
    w1 = w1
    w2 = w2
    v1 = v1
    v2 = v2
    Workers = {w1, w2}
    Writers = {v1, v2}
    max_in_flight_destination_writes = 2
    max_in_flight_destination_write_bytes = 4
    checkpoint_interval = 2
    Blocks = {r1, r2, a, b}
    RootIds <- MCRootIds
    Children <- MCChildren
    len <- MClen
    BlindWrite = TRUE
    Stored = {}
    Faulty <- NoFaulty
    Faults = {"batch_unsupported", "checkpoint_error"}
SPECIFICATION Spec
SYMMETRY ThreadSymmetry
INVARIANTS
    BytesWithinLimit
    CheckpointAlone
    OneBatchUntilUnsupported
    OneCompactionPerInterval
PROPERTIES
    UnsupportedIsFinal
