SPECIFICATION Spec
CONSTANTS
  Data = {a}
  Value <- MCValue
  Fields = {"key"}
  Cmp = "key"
  MaxDepth = 7
INVARIANT
  NeverCrashes
