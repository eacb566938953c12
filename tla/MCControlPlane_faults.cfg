CONSTANTS
  n1 = n1
  n2 = n2
  Servers = {n1, n2}
  NoServer = NoServer
  Desired = 2
  Initial = {1}
  Faults = {"crash", "write", "list", "delete", "create", "talos"}
  MaxTrouble = 0
SPECIFICATION FairSpec
INVARIANT TypeOK
INVARIANT NoPhantomEntries
PROPERTY ReconcileTerminates
