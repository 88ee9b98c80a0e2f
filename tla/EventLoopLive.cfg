SPECIFICATION FairSpec
CONSTANTS
  Workers = {w1}
  Clients = {c1, c2}
  Tickers = {t1}
  Listener = listener
  None = none
  MaxEvents = 1000
  MaxOpen = 2
  CtlFails = FALSE
  WaitFails = TRUE
PROPERTIES
  ListenerReturns
  TickersHandled
  RequestsHandled
