SPECIFICATION Spec
SYMMETRY ConnSymmetry
INVARIANTS
    SubmitOrder
    NothingForgotten
CONSTANTS
    Msgs = {m1, m2}
    NoMsg = NoMsg
    Conns = {k1, k2}
    NoConn = NoConn
    BufferSize = 1
    PageSize = 2
    MaxEvents = 0
    MaxRevs = 0
    MaxBreaks = 1
    MaxFailures = 1
    MaxRetries = 1
    MaxOverflows = 0
    MaxDaemonCrashes = 0
    MaxClientCrashes = 0
CHECK_DEADLOCK FALSE
