SPECIFICATION FairSpec
CONSTANTS
  Calls = {c1, c2, c3}
  Ahead = 1
  Ttl = 2
  MaxRevocations = 1
  MaxFaults = 1
  None = None
CHECK_DEADLOCK FALSE
INVARIANT FetchOnlyWhenStale
PROPERTY RetryFetchedAnew
PROPERTY CallsAnswered
