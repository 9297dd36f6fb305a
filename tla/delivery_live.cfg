SPECIFICATION FairSpec
PROPERTIES
    EventuallyShown
    EventuallyAnswered
CONSTANTS
    Msgs = {m1}
    NoMsg = NoMsg
    Conns = {k1, k2}
    NoConn = NoConn
    BufferSize = 1
    PageSize = 1
    MaxEvents = 1
    MaxRevs = 0
    MaxBreaks = 1
    MaxFailures = 0
    MaxRetries = 0
    MaxOverflows = 1
    MaxDaemonCrashes = 1
    MaxClientCrashes = 0
CHECK_DEADLOCK FALSE
