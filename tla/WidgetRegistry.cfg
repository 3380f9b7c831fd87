SPECIFICATION FairSpec
CONSTANTS
    Calls = {c1, c2}
    k1 = k1
    k2 = k2
    Keys <- MCKeys
    Requests <- MCRequests
    Screens = {s1}
    MaxReceipts = 1
    MaxVersion = 2
    MaxRestarts = 1
    None = None
INVARIANTS NoLostEdit ChangedOnce ReplyIsTrue
PROPERTIES EveryCallEnds
CHECK_DEADLOCK FALSE
