SPECIFICATION RuntimeFairSpec
CONSTANTS
    MaxBuilds = 2
    Absent = Absent
INVARIANTS OnlyTested
PROPERTIES OldStopIgnored DownMeansGone
CHECK_DEADLOCK FALSE
