\* The scheduled job, a person and an operator, expiries and restarts on two resources;
\* the reports over the orders of the mirror, the attendance of a lead and an export.
SPECIFICATION FairBiAppSpec
CONSTANTS
  orders = orders
  users = users
  o1 = o1
  o2 = o2
  ordersJob = ordersJob
  manual = manual
  Resources <- MCResources
  Orders = orders
  Changes <- MCChanges
  AtFirst <- MCAtFirst
  Bare = {o2}
  PageSize = 1
  MaxPages = 2
  MaxBatches = 1
  BatchSize = 1
  Scheduled <- MCOrdersJob
  Manuals = {manual}
  Plans <- MCPlans
  Tokens <- MCTokens
  p1 = p1
  p2 = p2
  p3 = p3
  ana = ana
  bob = bob
  eve = eve
  sol = sol
  tom = tom
  zed = zed
  nut = nut
  cap = cap
  pin = pin
  odd = odd
  BookOrders = {p1, p2, p3}
  Versions <- MCVersions
  FirstDay = 46
  LastDay = 47
  CustomerTable <- MCCustomers
  SellerTable <- MCSellers
  ProductTable <- MCProducts
  PERIOD_DAYS <- MCPeriods
  PLACEHOLDER_LIST_PRICES = {1000}
  Tiers <- MCTiers
  MAX_ORDER_TOTAL = 250
  NewOrders = 1
  CURRENT_WINDOW_DAYS = 3
  PRIOR_LOOKBACK_DAYS = 4
  ClubFilters <- AnyOrder
  AbandonmentDays = 3
  FilterSet <- MCFilters
  DaySet = {0, 3, 7}
  BandLimits <- MCBands
  Seen <- MCSeen
  Desks = {1, 2}
  Attendable = {ana}
  Staff = {"sol"}
  Decisions <- MCDecisions
  AiAnswers <- MCAiAnswers
  HeuristicScore <- MCHeuristic
  LEAD_INACTIVE_DAYS = 3
  AI_BATCH_SIZE = 1
  LeadPages <- MCLeadPages
  RowId <- MCRowId
  PageLength = 2
  ExportFilters <- MCExportFilters
  MaxExports = 1
INVARIANT BiTypeOK
INVARIANT RunsFollowLeases
INVARIANT CursorIsBacked
 
PROPERTY NoLeaseBlocksForever
PROPERTY PagesAreCurrent
 
CHECK_DEADLOCK FALSE
