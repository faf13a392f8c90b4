SPECIFICATION Spec
CONSTANTS
  c = c  a = a  b = b  d = d  r = r  m = m
  l1 = l1  l2 = l2  l3 = l3  l4 = l4  l5 = l5
  NoNode = NoNode
  Nodes = {c, a, b, d, r}
  Links = {l1, l2, l3, l4, l5}
  Topologies <- MCTopologies
  ClusterNodes <- MCClusterNodes
  NodeLists <- MCNodeLists
  RUNodeLists <- MCRUNodeLists
  ReqMemory = 1
  ReqCPU = 150
  Hauls <- MCHauls
INVARIANTS TypeOK LinkAccounting NodeAccounting NoOverbooking RequirementsSuffice ChainsKeepRequirements
PROPERTIES RejectedOnlyIfInfeasible PlaceReturns ImplementsReservation
CHECK_DEADLOCK FALSE
