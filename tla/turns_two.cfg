SPECIFICATION Spec
CONSTANTS
    t1 = t1  t2 = t2  t3 = t3  s1 = s1  s2 = s2
    Turn <- TwoTurns
    Session <- OneSession
    SessionOf <- SameSession
    NoTurn = NoTurn
    MaxRounds = 2
    MaxCalls = 1
    UserModes <- NoModes
    External <- FirstRoundCalls
    Mcp <- FirstRoundCalls
    SubmitMayAbort = FALSE
    ToolsMayRaise = FALSE
PROPERTIES ImplementsContract
CHECK_DEADLOCK FALSE
