SPECIFICATION Spec
CONSTANTS
  c = c  a = a  b = b  d = d  r = r  m = m
  l1 = l1  l2 = l2  l3 = l3  l4 = l4  l5 = l5
  NoNode = NoNode
  Nodes = {c, a, b, d, r}
  Links = {l1, l2, l3, l4, l5}
  Topologies <- Diamonds
  ClusterNodes <- MCClusterNodes
  NodeLists <- AmpleNodeLists
  RUNodeLists <- RUPerNode
  ReqMemory = 1
  ReqCPU = 150
  Hauls <- MCHauls
INVARIANT PlaceDoesNotCrash
CHECK_DEADLOCK FALSE
