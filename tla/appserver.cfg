SPECIFICATION FairSpec
INVARIANTS
    OneServer
    CheckpointNamesServer
    NoStraySignal
PROPERTIES
    SessionReturns
    ShutdownEnds
CONSTANTS
    Procs = {d1, d2}
    Repairs = {d2}
    NoProc = NoProc
    MaxGens = 2
    MaxFaults = 2
    MaxCrashes = 1
CHECK_DEADLOCK FALSE
