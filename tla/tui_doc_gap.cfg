SPECIFICATION Spec
CONSTANTS
    s1 = s1  s2 = s2  s3 = s3  s4 = s4
    Sub <- FourSubs
    NoSub = NoSub
    MaxSequence = 4
    MaxBuffer = 2
    QueueSize = 1
    FoldMayFail = FALSE
INVARIANT EveryGapIsRecovered
CHECK_DEADLOCK FALSE
