CONSTANTS
  n1 = n1
  n2 = n2
  n3 = n3
  n4 = n4
  Servers = {n1, n2, n3, n4}
  NoServer = NoServer
  Desired = 3
  Initial = {1}
  Faults = {"talos", "create"}
  MaxTrouble = 0
SPECIFICATION Spec
SYMMETRY Symmetry
INVARIANT NoOvershoot
INVARIANT CrashLeavesTimedEntry
PROPERTY NoDeleteAfterApply
