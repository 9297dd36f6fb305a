SPECIFICATION Spec
SYMMETRY ConnSymmetry
INVARIANTS
    NoGap
    ShownOnce
    AckedIsSaved
PROPERTIES
    DeltasContiguous
CONSTANTS
    Msgs = {}
    NoMsg = NoMsg
    Conns = {k1, k2}
    NoConn = NoConn
    BufferSize = 1
    PageSize = 1
    MaxEvents = 2
    MaxRevs = 2
    MaxBreaks = 0
    MaxFailures = 0
    MaxRetries = 0
    MaxOverflows = 1
    MaxDaemonCrashes = 1
    MaxClientCrashes = 1
CHECK_DEADLOCK FALSE
