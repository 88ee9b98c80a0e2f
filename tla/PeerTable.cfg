SPECIFICATION FairSpec
CONSTANTS
  Addrs = {1, 2, 3, 4}
  Self = 1
  NameOf <- SortedNames
  MAX_TOLERANCE = 3
  Value <- MCValue
  Fields = {"addr", "name"}
  Cmp = "addr"
  MaxDepth = 4
  None = none
INVARIANTS
  TypeOK
  ToleranceIsSilence
  ToleranceCounts
  LookupFinds
PROPERTIES
  ForgottenHadRunOut
  StoppedIsForgotten
