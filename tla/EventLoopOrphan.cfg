SPECIFICATION Spec
CONSTANTS
  Workers = {w1, w2}
  Clients = {c1}
  Tickers = {t1}
  Listener = listener
  None = none
  MaxEvents = 1000
  MaxOpen = 4
  CtlFails = FALSE
  WaitFails = FALSE
INVARIANT
  NoOrphan
