\* Two orders of one batch without items, the detail of the second refused.
SPECIFICATION BiSpec
CONSTANTS
  orders = orders
  users = users
  o1 = o1
  o2 = o2
  ordersJob = ordersJob
  manual = manual
  Resources = {orders}
  Orders = orders
  Changes <- MCOrderChanges
  AtFirst <- MCOrdersAtFirst
  Bare = {o1, o2}
  PageSize = 1
  MaxPages = 2
  MaxBatches = 1
  BatchSize = 2
  Scheduled <- MCOrdersJob
  Manuals = {}
  Plans = {}
  Tokens <- MCTokens
INVARIANT NothingIsInvented
CHECK_DEADLOCK FALSE
