SPECIFICATION Spec
INVARIANTS
    ReadyIsDurable
    PrivateHidden
    QuestionsSettled
    NoSilentThread
    OutcomeIsProven
CONSTANTS
    Prompts = {p1}
    Replacements = {}
    Controls = {}
    Notes = {n1}
    Recovers = {}
    Questions = {q1}
    NoMsg = NoMsg
    MaxTurns = 2
    MaxThreads = 2
    EventBound = 2
    MaxGlitches = 1
    MaxDeaths = 1
    MaxFaults = 0
    MaxCrashes = 1
    MaxStoreFailures = 1
    MaxRepairs = 1
    Fates = {"running", "completed", "lost"}
    Endings = {"completed", "failed"}
CHECK_DEADLOCK FALSE
