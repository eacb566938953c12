SPECIFICATION FairSpec
CONSTANTS
  Kinds <- AllKinds
  AddonChoices <- Few
  Later <- None
  MaxFaults = 1
  MaxReapplies = 1
INVARIANT TypeOK
INVARIANT AddonsInOrder
PROPERTY PathSpec
PROPERTY WaitReturnsWhenDone
PROPERTY WaitEnds
