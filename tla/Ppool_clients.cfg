SPECIFICATION FairSpec
CONSTANTS
  Clients = {a, b}
  Collectors = {a, b}
  Workers = 2
  MaxOrders = 3
\* Two collectors can wait for results the other one took: see the README.
CHECK_DEADLOCK FALSE
INVARIANTS TypeOK ResultsConserved CollectedInOrder
PROPERTIES CollectReturns TeardownEnds
