SPECIFICATION FairSpec
CONSTANTS
  N = 2
  MaxPending = 1
  MaxHistory = 2
  Kinds = {"legacy", "chat", "read", "task", "widget", "timer"}
INVARIANTS Truthful WorkOnce
PROPERTIES FinalStays PromiseKept EveryRequestEnds
