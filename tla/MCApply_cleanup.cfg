SPECIFICATION Spec
CONSTANTS
  MaxFaults = 1
  MaxDestroys = 0
  Late <- OneLate
PROPERTY CleanupOnlyOwn
