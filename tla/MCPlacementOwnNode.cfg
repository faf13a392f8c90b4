SPECIFICATION Spec
CONSTANTS
  c = c  a = a  b = b  d = d  r = r  m = m
  l1 = l1  l2 = l2  l3 = l3  l4 = l4  l5 = l5
  NoNode = NoNode
  Nodes = {c, a, b, d, r}
  Links = {l1, l2, l3, l4, l5}
  Topologies <- Lines
  ClusterNodes <- MCClusterNodes
  NodeLists <- PoorCUNode
  RUNodeLists <- TwoFarRUs
  ReqMemory = 1
  ReqCPU = 150
  Hauls <- MCHauls
INVARIANT CUNodesCanRunTheirCUs
CHECK_DEADLOCK FALSE
