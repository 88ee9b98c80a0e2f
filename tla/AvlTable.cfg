SPECIFICATION Spec
CONSTANTS
  Data = {a, b}
  Value <- MCValue
  Fields = {"key"}
  Cmp = "key"
  MaxDepth = 7
INVARIANTS
  TypeOK
  SearchFinds
  InsertKeepsBalance
