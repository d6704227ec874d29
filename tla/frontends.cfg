SPECIFICATION SuiteFairSpec
CONSTANTS
    s1 = s1  s2 = s2  s3 = s3  s4 = s4
    Sub <- FourSubs
    NoSub = NoSub
    MaxSequence = 4
    MaxBuffer = 2
    QueueSize = 1
    FoldMayFail = TRUE
    BusSub <- TwoSubs
    BusEvents = 3
    BusBuffer = 2
    BusQueue = 2
    openai = openai  local = local  small = small  large = large
    Name <- Models  Start <- StartFiles  Files <- ForeignFiles
    Key = {k}
    NoKey = NoKey
    None = None
    MaxModels = 2
INVARIANTS BusStreamIsWhole SettingsAreSound
PROPERTIES FoldedOnceInOrder CatchesUp BusServesReaders EditsStayLocal
CHECK_DEADLOCK FALSE
