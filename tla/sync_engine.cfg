\* Two workers, two jobs: leases expire, are renewed and are lost; slices, quarantine; two changes at first.
SPECIFICATION MCSyncSpec
CONSTANTS
  Jobs <- MCTwoJobs
  Keys <- MCOrders
  Workers = {w1, w2}
  Cancellers = {}
  MaxClaims = 2
  MaxCrashes = 0
  Order <- MCOne
  Last = 3
  At <- MCDistinct
  PageSize = 2
  Overlap = 1
  MaxPages = 3
  Slicing = TRUE
  Fragile = {1}
  Outages = {}
  MaxOutages = 0
  MaxRuns = 3
INVARIANT CheckpointIsHonest
CHECK_DEADLOCK FALSE
SYMMETRY MCWorkers
INVARIANT ContinuationKept
PROPERTY CursorNeverRegresses
