CONSTANTS
  n1 = n1
  n2 = n2
  n3 = n3
  Servers = {n1, n2, n3}
  NoServer = NoServer
  Desired = 2
  Initial = {1}
  Faults = {"crash"}
  MaxTrouble = 0
SPECIFICATION Spec
SYMMETRY Symmetry
PROPERTY StuckCleanupSparesMembers
