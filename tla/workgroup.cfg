SPECIFICATION FairSpec
INVARIANTS
    TerminalMeansQuiet
    ShownIsJournalled
    DependencyOrder
    HandoverIsExact
PROPERTIES
    RunEnds
CONSTANTS
    s1 = s1
    s2 = s2
    s3 = s3
    Steps = {s1, s2}
    Plans <- MCPlans
    NoPlan = NoPlan
    NoStep = NoStep
    NoJob = NoJob
    CaptureCap = 1
    MaxRuns = 2
    MaxMishaps = 1
CHECK_DEADLOCK FALSE
