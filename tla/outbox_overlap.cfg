\* Two dispatchers, overlapping requests, one person resolving conflicts; the overlapping threads and requests of the analysis jobs.
SPECIFICATION DeploymentSpec
CONSTANTS
  o1 = o1
  o2 = o2
  t1 = t1
  Targets = {t1}
  TargetOf <- MCTarget
  Resolvers = {r1}
  orders = orders
  customers = customers
  Event <- MCEvent
  Keys = {orders, customers}
  MaxCrashes = 1
  InboxRows = {1, 2}
  Receivers = {h1, h2}
  InboxWorkers = {w1, w2}
  InboxAttempts = 2
  MaxDeliveries = 2
  MaxFaults = 1
  Products = {1, 2}
  ChunkSize = 2
  BatchSize = 1
  RetailJobIds = {1, 2}
  PoolThreads = {p1, p2}
  Callers = {c1, c2}
  MaxMishaps = 1
  MaxRequests = 2
  Parts = {"outbox", "retail"}
  Ops = {o1}
  Workers = {w1, w2}
  Handlers = {h1, h2}
  KindOf <- MCOneUpdate
  MaxAttempts = 3
  MaxToggles = 1
INVARIANT TypeOK
INVARIANT AtMostOnce
INVARIANT ResultsAreKnown
 
CHECK_DEADLOCK FALSE
