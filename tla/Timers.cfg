SPECIFICATION FairSpec
CONSTANTS
  Widgets = {w1, w2}
  Keys = {1, 2, 3}
  Durations = {1, 2}
  ClockSteps <- AnyWay
  MaxActive = 2
  MaxHistory = 1
  MaxReceipts = 3
  MaxRuns = 3
  MaxTime = 2
  MaxSaves = 1
  NoWidget = none
INVARIANTS TimersInv EffectOnce
PROPERTIES RunsStay DueExpires
