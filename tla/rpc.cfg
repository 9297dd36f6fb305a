SPECIFICATION FairSpec
INVARIANTS
    AnsweredOnce
    NotSentIsTrue
    SuccessIsEarned
PROPERTIES
    CallsReturn
    TerminalConverges
CONSTANTS
    Calls = {k1, k2}
    CoordCalls = {k1}
    Deadlines = {k2}
    Requests = {q1}
    NoCall = NoCall
    Handler = Handler
    ChainCap = 1
    MaxNotes = 2
    WireCap = 1
    MaxFaults = 1
CHECK_DEADLOCK FALSE
