SPECIFICATION Spec
CONSTANTS
  a = a
  b = b
  x = x
  None = None
  Free = Free
  Keys = {a, b}
  Values = {x}
  Threads = {t1}
  Batches <- BatchSet
INVARIANTS
  CommitFlushes
