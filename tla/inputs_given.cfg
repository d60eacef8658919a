SPECIFICATION InputsSpec
CONSTANTS
    MaxTerminal = 1
    MaxPlanned = 2
    MaxEvents = 3
    MaxSinkErrors = 1
    Vectors <- MCVectors
    MaxInputs = 5
    Limit = 1
    N = 4
    BatchSize = 3
    MaxWorkers = 2
    Input <- MCInput
    DiagnosticLimit = 4
    MaxReadErrors = 1
INVARIANTS
    RequestSound
    CommandSound
    GatewayStartSound
    DiagnosticsSound
    ReplayBatchesSound
CHECK_DEADLOCK FALSE
