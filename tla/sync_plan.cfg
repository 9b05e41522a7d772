\* All resources in one job: skips, failures, cancellation.
SPECIFICATION SynchronisationSafe
CONSTANTS
  Jobs <- MCOneJob
  Keys <- MCAll
  Workers = {w1}
  Cancellers = {c1}
  MaxClaims = 3
  MaxCrashes = 1
  Order <- MCTwo
  Last = 3
  At <- MCTied
  PageSize = 2
  Overlap = 1
  MaxPages = 3
  Slicing = TRUE
  Fragile = {}
  Outages = {"forbidden", "auth_failed", "waiting_rate_limit"}
  MaxOutages = 2
  MaxRuns = 4
  Issued <- MCIssued
  Content <- MCContent
  HYDRATE_BATCH_LIMIT = 2
  Scenes <- MCTwoWorkers
  MaxMishaps = 1
CHECK_DEADLOCK FALSE
INVARIANT PlanIsRead
PROPERTY HydrationIsHonest
