\* The documented deployment: one worker process, requests one after another, two cancellations of one order; the webhooks that arrive at the inbox; the catalogue analysed to its end.
SPECIFICATION DeploymentSpec
CONSTANTS
  o1 = o1
  o2 = o2
  t1 = t1
  Targets = {t1}
  TargetOf <- MCTarget
  Resolvers = {r1}
  orders = orders
  customers = customers
  Event <- MCEvent
  Keys = {orders, customers}
  MaxCrashes = 1
  InboxRows = {1, 2}
  Receivers = {h1, h2}
  InboxWorkers = {w1, w2}
  InboxAttempts = 2
  MaxDeliveries = 2
  MaxFaults = 1
  Products = {1, 2}
  ChunkSize = 2
  BatchSize = 1
  RetailJobIds = {1, 2, 3, 4}
  PoolThreads = {p1}
  Callers = {c1}
  MaxMishaps = 1
  MaxRequests = 2
  Parts = {"outbox", "inbox", "retail"}
  Ops = {o1, o2}
  Workers = {w1}
  Handlers = {h1}
  KindOf <- MCKind
  MaxAttempts = 2
  MaxToggles = 0
INVARIANT ConfirmedCancelIsReal
 
INVARIANT AcknowledgedIsStored
PROPERTY KeepsThePromise
PROPERTY EventuallyDecided
PROPERTY ProcessedWithItsJobs
PROPERTY EveryEventEnds
PROPERTY CatalogIsFinished
CHECK_DEADLOCK FALSE
