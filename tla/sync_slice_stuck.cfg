\* A slice with a row in quarantine.
SPECIFICATION SyncSpec
CONSTANTS
  Jobs <- MCTwoJobs
  Keys <- MCOrders
  Workers = {w1}
  Cancellers = {}
  MaxClaims = 2
  MaxCrashes = 0
  Order <- MCOne
  Last = 3
  At <- MCDistinct
  PageSize = 2
  Overlap = 0
  MaxPages = 3
  Slicing = TRUE
  Fragile = {1}
  Outages = {}
  MaxOutages = 0
  MaxRuns = 3
CHECK_DEADLOCK FALSE
INVARIANT SlicesMoveForward
