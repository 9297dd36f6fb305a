SPECIFICATION Spec
PROPERTIES
    RepairOnlyOffline
CONSTANTS
    Prompts = {p1}
    Replacements = {}
    Controls = {}
    Notes = {}
    Recovers = {}
    Questions = {}
    NoMsg = NoMsg
    MaxTurns = 2
    MaxThreads = 1
    EventBound = 2
    MaxGlitches = 1
    MaxDeaths = 2
    MaxFaults = 0
    MaxCrashes = 1
    MaxStoreFailures = 0
    MaxRepairs = 0
    Fates = {"running", "completed"}
    Endings = {"completed"}
CHECK_DEADLOCK FALSE
