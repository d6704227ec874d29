SPECIFICATION Spec
CONSTANTS
    r1 = r1  r2 = r2  r3 = r3  i1 = i1  i2 = i2  i3 = i3
    Request <- ThreeCalls
    Id <- TwoIds
    IdOf <- SharedId
    Answer = {"approve", "reject"}
    Safe = "reject"
    Retention = 2
INVARIANT RespondNeverRaises
CHECK_DEADLOCK FALSE
