SPECIFICATION SuiteFairSpec
CONSTANTS
    t1 = t1  t2 = t2  t3 = t3
    r1 = r1  r2 = r2
    Readers <- SomeReaders
    Writers <- OneWriter
    Root <- TwoRoots
    NoLease = NoLease
    MaxRevision = 2
    Op = {o1, o2}
    Call = {c1}
    Turn = {u1, u2}
    Api = {a1, a2}
    None = None
    MaxCalls = 2
    Settings <- ContextSettings
    MaxTurns = 3
    MaxAnswers = 3
INVARIANTS StableIdentity ReportsAreTrue MutationsRunAlone StopsAreKept RequestsAreWhole
PROPERTIES WriterServed CloseDrains  StoppedTurnsEnd
CHECK_DEADLOCK FALSE
