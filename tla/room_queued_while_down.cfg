SPECIFICATION Spec
PROPERTIES
    QueuedWhileDown
CONSTANTS
    Prompts = {p1, p2}
    Replacements = {}
    Controls = {}
    Notes = {}
    Recovers = {}
    Questions = {}
    NoMsg = NoMsg
    MaxTurns = 2
    MaxThreads = 1
    EventBound = 2
    MaxGlitches = 0
    MaxDeaths = 1
    MaxFaults = 0
    MaxCrashes = 1
    MaxStoreFailures = 0
    MaxRepairs = 0
    Fates = {"running", "completed"}
    Endings = {"completed"}
CHECK_DEADLOCK FALSE
