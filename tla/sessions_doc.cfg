SPECIFICATION Spec
CONSTANTS
    t1 = t1  t2 = t2  e1 = e1  e2 = e2  e3 = e3  s1 = s1
    Turn <- TwoTurns
    Edit <- TwoEdits
    Session <- OneSession
    SessionOf <- SameSession
    NoTurn = NoTurn
    NoRecord = NoRecord
PROPERTY EditsFailUnderATurn
CHECK_DEADLOCK FALSE
