SPECIFICATION NamedSpec
CONSTANTS
  n1 = n1  n2 = n2
  Nodes = {n1, n2, n3, n4, n5}
INVARIANTS TypeOK FoundPathsAreRoutes AllShortestPathsFound FoundPathsNearlyShortest
PROPERTY SearchTerminates
CHECK_DEADLOCK FALSE
