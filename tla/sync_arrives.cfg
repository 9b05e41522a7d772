\* What the origin has arrives: one worker that may die, the periodic schedule, slices.
SPECIFICATION SynchronisationSpec
CONSTANTS
  Jobs <- MCTwoJobs
  Keys <- MCIncremental
  Workers = {w1}
  Cancellers = {}
  MaxClaims = 3
  MaxCrashes = 1
  Order <- MCOne
  Last = 3
  At <- MCDistinct
  PageSize = 2
  Overlap = 0
  MaxPages = 3
  Slicing = TRUE
  Fragile = {}
  Outages = {}
  MaxOutages = 0
  MaxRuns = 5
  Issued <- MCIssued
  Content <- MCContent
  HYDRATE_BATCH_LIMIT = 2
  Scenes <- MCOneWorker
  MaxMishaps = 1
CHECK_DEADLOCK FALSE
PROPERTIES ChangesArrive HydrationServes
