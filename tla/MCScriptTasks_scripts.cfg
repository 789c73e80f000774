CONSTANTS
  Main = Main
  A = A
  B = B
  C = C
  g = g
  c = c
  d = d
  b = b
  x = x
  Tasks <- MCTasks
  Gates = {g}
  Chans = {c, d}
  Barriers = {b}
  Vars = {x}
  Threads = 2
  Scripts <- MCScripts
SPECIFICATION Spec
INVARIANTS TypeOK NoSleeperForgotten   UndefIsTheEnd
CHECK_DEADLOCK FALSE
