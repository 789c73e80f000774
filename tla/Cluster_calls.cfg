SPECIFICATION FairSpec
CONSTANTS
  Slots = {s1, s2, s3}
  MaxJobs = 3
  MaxAttempts = 2
  MinCapacity = 1
\* With more items than the queue holds the real program can stop for ever:
\* see Cluster_hang.cfg.
CHECK_DEADLOCK FALSE
INVARIANTS TypeOK OnePlace RetryBudget AbandonOnlyWhenDead
PROPERTIES  ReturnsIfItFits
