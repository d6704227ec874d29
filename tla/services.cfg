SPECIFICATION SuiteFairSpec
CONSTANTS
    r1 = r1  r2 = r2  r3 = r3  i1 = i1  i2 = i2
    Request <- ThreeCalls
    Id <- TwoIds
    IdOf <- SharedId
    Answer = {"approve", "reject"}
    Safe = "reject"
    Retention = 1
    Writer = {w1, w2}  Reader = {q1}
    Run = {c1, c2}
    Caller = {m1, m2}
    MaxSent = 6
    MaxRetries = 2
    MaxTurns = 2  MaxRounds = 1  MaxCalls = 2
INVARIANTS ReportedTruly ExchangesAreSound CallsAreWhole RequestsAreValid
PROPERTIES ImplementsContract WaitEnds ToolsAreIsolated RoundEnds
CHECK_DEADLOCK FALSE
