SPECIFICATION Spec
CONSTANTS
  Workers = {w1, w2}
  Clients = {c1, c2}
  Tickers = {t1}
  Listener = listener
  None = none
  MaxEvents = 2
  MaxOpen = 2
  CtlFails = TRUE
  WaitFails = TRUE
SYMMETRY Symmetry
INVARIANTS
  TypeOK
  ExclusiveHandling
  NoDanglingEvent
  UnionMemberMatches
  OpenFilesAreTransfers
  NeverBlocksOnNothing
