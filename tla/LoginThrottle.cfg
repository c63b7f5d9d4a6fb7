SPECIFICATION FairSpec
CONSTANTS
  Logins = {l1, l2, l3, l4, g1}
  Good = {g1}
  Signups = {s1, s2}
  Malformed = {s2}
  MaxFailures = 2
  Window = 2
  MaxFaults = 1
INVARIANT LockIsEarned
INVARIANT RetryAfterKept
PROPERTY LockExpires
