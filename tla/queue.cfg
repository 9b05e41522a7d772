\* Two workers that may crash, two jobs, two kinds of jobs, one cancellation at a time.
SPECIFICATION FairQueueSpec
CONSTANTS
  k1 = k1
  k2 = k2
  Jobs <- MCJobs
  Keys <- MCKeys
  Workers = {w1, w2}
  Cancellers = {c1}
  MaxClaims = 2
  MaxCrashes = 1
INVARIANT QueueTypeOK
INVARIANT ExclusiveLease
INVARIANT UniqueActive
PROPERTY KeepsTheBoard
PROPERTY EveryJobEnds
CHECK_DEADLOCK FALSE
