CONSTANTS
    r1 = r1
    r2 = r2
    a = a
    b = b
    w1 = w1
    w2 = w2
    v1 = v1
    v2 = v2
    Workers = {w1, w2}
    Writers = {v1, v2}
    max_in_flight_destination_writes = 2
    max_in_flight_destination_write_bytes = 4
    checkpoint_interval = 2
    Blocks = {r1, a, b}
    RootIds <- SmallRootIds
    Children <- SmallChildren
    len <- Smalllen
    BlindWrite = TRUE
    Stored = {}
    Faulty <- NoFaulty
    Faults = {"interrupt"}
SPECIFICATION FairSpec
PROPERTY NoCompactionAfterInterrupt
