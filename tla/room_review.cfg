SPECIFICATION Spec
INVARIANTS
    SingleActive
    DispatchFrozen
    NoResend
    OneTurnAtATime
    MemoryMatchesStore
PROPERTIES
    ImplementsWorkQueue
CONSTANTS
    Prompts = {p1, p2}
    Replacements = {p3}
    Controls = {c1}
    Notes = {}
    Recovers = {r1}
    Questions = {}
    NoMsg = NoMsg
    MaxTurns = 3
    MaxThreads = 1
    EventBound = 1
    MaxGlitches = 1
    MaxDeaths = 0
    MaxFaults = 1
    MaxCrashes = 1
    MaxStoreFailures = 0
    MaxRepairs = 0
    Fates = {"running", "completed"}
    Endings = {"completed"}
CHECK_DEADLOCK FALSE
