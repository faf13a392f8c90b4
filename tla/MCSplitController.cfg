SPECIFICATION MCSpec
CONSTANTS
  n1 = n1  n2 = n2  n3 = n3  a1 = a1  a2 = a2  a3 = a3  b1 = b1  b2 = b2  c1 = c1
  Nodes = {n1, n2, n3}
  NoNode = NoNode  NoIP = NoIP  NoObject = NoObject
  Addresses <- OneToSpare
  InitialNodes <- MCInitialNodes
  MaxFaults = 1
  MaxCrashes = 1
  MaxFailures = 1
  MaxDeletions = 1
  MaxEdits = 1
INVARIANTS TypeOK DeployedHasConfig
PROPERTIES ValuesFollowPods StatusFollowsPods
