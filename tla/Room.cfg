SPECIFICATION FairSpec
CONSTANTS
    Browsers = {b1, b2}
    Devices = {d1}
    Sockets = {w1, w2}
    Places = {seoul, busan}
    MaxRevision = 3
    MaxRestarts = 1
    None = None
INVARIANTS OneDisplayPerLink RevokedIsOut WeatherOfPlace
PROPERTIES RevokedLeaves PagesCatchUp
CHECK_DEADLOCK FALSE
