SPECIFICATION DeployedSpec
CONSTANTS
  n1 = n1  n2 = n2  n3 = n3  a1 = a1  a2 = a2  b1 = b1  c1 = c1  core = core
  Nodes = {n1, n2, n3}
  NoNode = NoNode  NoIP = NoIP  NoObject = NoObject
  Addresses <- OneEach
  InitialNodes <- MCInitialNodes
  CoreIP = core
  MaxFaults = 0
  MaxCrashes = 0
  MaxFailures = 0
  MaxDeletions = 0
  MaxEdits = 0
  MaxRestarts = 1
INVARIANTS PodTypeOK ConfigNamesPods
PROPERTY AllConfigured
