SPECIFICATION FairSpec
CONSTANTS
  Recordings = {u1, u2}
  Nobody = nobody
  MaxPending = 2
  MaxAttempts = 2
INVARIANTS IInv
PROPERTIES FinalStays QueueDrains
