SPECIFICATION Spec
CONSTANTS
  p1 = p1
  p2 = p2
  x = x
  a = a
  b = b
  app = app
  r = r
  None = None
  Torn = Torn
  Procs = {p1, p2}
  Trees = {"X1", "X2", "X1b", "XR", "A", "B", "C", "R", "XD", "XF"}
  Names = {x, a, b, app, r}
  Versions = {1, 2}
  MaxStops = 1
  About <- Packages
  Scenarios <- Commands
CHECK_DEADLOCK FALSE
INVARIANTS TypeOK EntriesWhole LockHolds PinsBacked
