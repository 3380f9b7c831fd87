SPECIFICATION Spec
CONSTANTS
  N = 2
  MaxPending = 1
  MaxHistory = 2
  Kinds = {"timer"}
INVARIANT CancelNeverLies
