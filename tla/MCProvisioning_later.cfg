SPECIFICATION FairSpec
CONSTANTS
  Kinds <- CLI
  AddonChoices <- Base
  Later <- More
  MaxFaults = 0
  MaxReapplies = 1
PROPERTY EnabledAddonsGetInstalled
