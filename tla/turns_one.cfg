SPECIFICATION FairSpec
CONSTANTS
    t1 = t1  t2 = t2  t3 = t3  s1 = s1  s2 = s2
    Turn <- OneTurn
    Session <- OneSession
    SessionOf <- SameSession
    NoTurn = NoTurn
    MaxRounds = 2
    MaxCalls = 2
    UserModes <- AllModes
    External <- SecondExternal
    Mcp <- FirstRoundMcp
    SubmitMayAbort = TRUE
    ToolsMayRaise = FALSE
INVARIANTS SucceededIsSaved CancelledIsSaved EffectsAreRecorded NoConsentNoRun
PROPERTIES CancelStopsTheLoop CancelEnds EveryTurnEnds
CHECK_DEADLOCK FALSE
