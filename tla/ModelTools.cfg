SPECIFICATION Spec
CONSTANTS
    Tools = {t1, t2}
    Threads = {6, 8}
    MaxRuns = 3
    MaxJobs = 1
    MaxEdits = 1
    None = None
INVARIANTS OneEngine WayBack
PROPERTIES ChangedWithCare
CHECK_DEADLOCK FALSE
