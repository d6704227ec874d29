SPECIFICATION SuiteSpec
CONSTANTS
    t1 = t1  t2 = t2  e1 = e1  e2 = e2  s1 = s1
    Turn <- TwoTurns
    Edit <- TwoEdits
    Session <- OneSession
    SessionOf <- SameSession
    NoTurn = NoTurn
    NoRecord = NoRecord
    None = None
    AppTurn <- TwoTurns
    LegacySession = {l1, l2, l3}
    MaxText = 1
    Api = {a1, a2}
    Root = {w1, w2, w3}
    Value = {v1, v2}
    First = v1
    Mutator = {m1, m2}
    Participants = 2
    Caller = {c1, c2}
    NFiles = 2
    Content = {x, y}
    FileContent = {x}
    MaxEdits = 2
    MaxChanges = 1
    Process = {o1, o2}
    Call = {k1, k2}
    Profile = {p}
    Secret = {s}
    MaxRev = 2
    MaxSubmits = 1
    MaxFeed = 1
    MaxExtra = 1
INVARIANTS OnlyTheOtherService RestartIsFaithful AgreeOrDegraded
           OnlyReviewedIsLoaded AllOrNothing LiveIsPersisted OneModal StopIsReleased
PROPERTIES ImplementsStoreContract
CHECK_DEADLOCK FALSE
