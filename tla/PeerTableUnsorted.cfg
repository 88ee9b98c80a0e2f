SPECIFICATION FairSpec
CONSTANTS
  Addrs = {1, 2, 3, 4}
  Self = 1
  NameOf <- ReversedNames
  MAX_TOLERANCE = 3
  Value <- MCValue
  Fields = {"addr", "name"}
  Cmp = "addr"
  MaxDepth = 4
  None = none
INVARIANT
  LookupFinds
