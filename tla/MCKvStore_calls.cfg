SPECIFICATION Spec
CONSTANTS
  a = a
  b = b
  x = x
  None = None
  Free = Free
  Keys = {a, b}
  Values = {x}
  Threads = {t1, t2}
  Batches <- BatchSet
INVARIANTS TypeOK FileHolds CleanIsSaved
PROPERTY KeepsContract
