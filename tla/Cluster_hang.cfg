SPECIFICATION FairSpec
CONSTANTS
  Slots = {s1}
  MaxJobs = 9
  MaxAttempts = 2
  MinCapacity = 8
CHECK_DEADLOCK FALSE
PROPERTY MapReturns
