SPECIFICATION Spec
CONSTANTS
  Us = "prod"
  Others = {"stage", "prod2"}
  MarkedAs <- Markers
  Hosts <- SharedHosts
  Files <- AllFiles
  MaxEdits = 2
  MaxDestroys = 2
  MaxFaults = 1
  OldBuckets <- Old
INVARIANT TypeOK
INVARIANT OperatorReadsTheApplied
INVARIANT DestroyLeavesNoRecord
PROPERTY InstallationEnds
PROPERTY OthersKept
PROPERTY BackupsArePreserved
CHECK_DEADLOCK FALSE
