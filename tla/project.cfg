SPECIFICATION ProjectSpec
INVARIANTS
    WrittenOnce
    ReportIsTrue
    TaskDone
PROPERTIES
    OwnAuthority
CONSTANTS
    t1 = t1
    TaskIds = {t1}
    p1 = p1
    p2 = p2
    p3 = p3
    m1 = m1
    m2 = m2
    r1 = r1
    r2 = r2
    w1 = w1
    w2 = w2
    Persons = {p1, p2, p3}
    Messages = {m1, m2}
    Requests = {r1, r2}
    Windows = {w1, w2}
    Casts <- MCCasts
    None = None
    JoinLimit = 2
    MaxMishaps = 1
CHECK_DEADLOCK FALSE
