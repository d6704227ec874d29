SPECIFICATION FairSpec
CONSTANTS
    Turn = {t1, t2}
    None = None
    MaxSubmits = 1
    MaxFeed = 2
    MaxExtra = 0
PROPERTY NextOpens
CHECK_DEADLOCK FALSE
