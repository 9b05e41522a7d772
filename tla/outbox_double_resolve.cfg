\* Two people resolve the same conflict at once.
SPECIFICATION DeploymentSpec
CONSTANTS
  o1 = o1
  o2 = o2
  t1 = t1
  Targets = {t1}
  TargetOf <- MCTarget
  Resolvers = {r1, r2}
  orders = orders
  customers = customers
  Event <- MCEvent
  Keys = {orders, customers}
  MaxCrashes = 0
  InboxRows = {1, 2}
  Receivers = {h1, h2}
  InboxWorkers = {w1, w2}
  InboxAttempts = 2
  MaxDeliveries = 2
  MaxFaults = 1
  Products = {1, 2}
  ChunkSize = 2
  BatchSize = 1
  RetailJobIds = {1, 2, 3, 4}
  PoolThreads = {p1, p2}
  Callers = {c1}
  MaxMishaps = 1
  MaxRequests = 2
  Parts = {"outbox"}
  Ops = {o1}
  Workers = {w1}
  Handlers = {h1}
  KindOf <- MCOneUpdate
  MaxAttempts = 3
  MaxToggles = 0
INVARIANT AtMostOnce
CHECK_DEADLOCK FALSE
