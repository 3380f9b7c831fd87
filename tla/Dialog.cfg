SPECIFICATION DialogFairSpec
CONSTANTS
    MaxRequests = 4
    MaxRoots = 1
    Owners = {ann, bob}
    MaxMissing = 2
    MaxTurns = 2
    TTL = 1
    Fresh = 1
    MaxTime = 2
    Nothing = Nothing
INVARIANTS OneContinuation
PROPERTIES OnlyWhatWasSaid EveryAnswerEnds
CHECK_DEADLOCK FALSE
