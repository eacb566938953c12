CONSTANTS
  n1 = n1
  n2 = n2
  n3 = n3
  Servers = {n1, n2, n3}
  NoServer = NoServer
  Desired = 2
  Initial = {0, 3}
  MaxHeals = 1
  FaultSets = {{"read", "create"}, {"crash"}, {"delete", "talos"}, {"write"}}
  MaxTrouble = 2
SPECIFICATION Spec
SYMMETRY Symmetry
INVARIANT TypeOK
INVARIANT ScaleUpFillsOnly
INVARIANT ScaleDownIsGradual
PROPERTY HealingSparesHealthy
