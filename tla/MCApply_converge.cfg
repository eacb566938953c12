SPECIFICATION FairSpec
CONSTANTS
  MaxFaults = 2
  MaxDestroys = 1
  Late <- SomeLate
INVARIANT TypeOK
INVARIANT NothingLeftBehind
PROPERTY CRDComesLast
PROPERTY RerunIsIdempotent
PROPERTY ApplyConverges
