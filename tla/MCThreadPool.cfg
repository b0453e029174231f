\* Construction, growth, stop and destruction against two clients.
CONSTANTS
  c1 = c1
  c2 = c2
  Clients <- MCClients
  MAX_WORKERS = 2
  MAX_ITEMS = 2
SPECIFICATION Spec
INVARIANTS NoWorkerLeft WorkersServe CountersTell
PROPERTIES StopReturns Served
