SPECIFICATION Spec
CONSTANTS
  Setups <- SetupsToCheck
  Names = {1, 2, 3, 4, 5, 6}
  Counts = {1, 3}
  MaxFaults = 2
INVARIANT TypeOK
INVARIANT OneFaultIsMended
INVARIANT OwnServersWork
INVARIANT AddressesApart
PROPERTY NoSurplusServers
PROPERTY ProvisioningCompletes
