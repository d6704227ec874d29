SPECIFICATION Spec
CONSTANTS
    t1 = t1  t2 = t2  t3 = t3  s1 = s1  s2 = s2
    Turn <- OneTurn
    Session <- OneSession
    SessionOf <- SameSession
    NoTurn = NoTurn
    MaxRounds = 1
    MaxCalls = 2
    UserModes <- NoModes
    External <- SecondExternal
    Mcp <- FirstRoundMcp
    SubmitMayAbort = FALSE
    ToolsMayRaise = TRUE
INVARIANT SucceededIsSaved
CHECK_DEADLOCK FALSE
