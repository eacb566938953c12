CONSTANTS
  n1 = n1
  n2 = n2
  n3 = n3
  n4 = n4
  Servers = {n1, n2, n3, n4}
  NoServer = NoServer
  Desired = 3
  Initial = {3}
  Faults = {"create", "talos"}
  MaxTrouble = 1
SPECIFICATION Spec
SYMMETRY Symmetry
PROPERTY TeardownJustified
