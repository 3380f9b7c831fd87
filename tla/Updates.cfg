SPECIFICATION MCFairSpec
CONSTANTS
    MaxWrites = 2
    MaxRuns = 2
    MaxStarts = 3
    MaxPolls = 2
    Samples = 2
    None = None
    Sources = {VERSION, server, life}
    Version = VERSION
    MaxEdits = 2
    MaxUpdates = 2
INVARIANTS OneVersion NothingLost
PROPERTIES ServiceComesBack PatchesSafely
CHECK_DEADLOCK FALSE
